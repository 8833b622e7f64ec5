---------------------------- MODULE Z80Registers ----------------------------
(***************************************************************************)
(* What a machine cycle of the Z80 core moves (z80core.c, "Hooks" to "The  *)
(* instruction table", and the second half of advance): the address and    *)
(* the byte its enter hook puts up, what its exit hook does with the byte  *)
(* that came back, and the effect of the instruction after its last cycle. *)
(*                                                                         *)
(* One step is one machine cycle, from the edge after its enter hook to    *)
(* the edge its successor's enter hook runs on.  The edges in between, the *)
(* control pins, WAIT and BUSRQ are Z80Engine's.  A register pair is a     *)
(* number; F is the set of the flags that are up.                          *)
(***************************************************************************)
EXTENDS Z80Instructions, Integers, FiniteSets, TLC

Alu == INSTANCE Z80Alu

CONSTANTS
  Background(_), \* the byte at an address that nobody has written
  PortBytes,    \* what an input port answers
  Vectors,      \* what a device puts on the bus of an acknowledge
  DebugWords    \* what a debugger writes into a register

ASSUME RegistersAssumption ==
  /\ PortBytes \subseteq Byte /\ PortBytes # {} /\ Vectors \subseteq Byte /\ Vectors # {}
  /\ DebugWords \subseteq Alu!Word
  /\ \A high, low \in Byte : Background(256 * high + low) \in Byte

VARIABLES
  cpu,      \* the fields of struct z80_t that an instruction or a debugger moves
  memory,   \* the bytes of memory that have been written, or loaded
  events    \* the bounds: how often the host may still raise NMI, have INT up at a
            \* boundary, reset and debug, and how many instructions are left to run

-----------------------------------------------------------------------------
(* union z80_pair: a word and its halves. *)
High(word) == word \div 256
Low(word)  == word % 256
WithHigh(word, byte) == 256 * byte + (word % 256)
WithLow(word, byte)  == 256 * (word \div 256) + byte
Plus(word, n) == (word + n) % 65536
Signed(byte) == IF byte < 128 THEN byte ELSE byte - 256

(* F as the byte it is on the stack. *)
FlagBit == [S |-> 128, Z |-> 64, Y |-> 32, H |-> 16, X |-> 8, PV |-> 4, N |-> 2, C |-> 1]
FlagsByte(f) == Alu!FromBits({FlagBit[flag] : flag \in f})
FlagsOf(byte) == {flag \in Alu!Flags : Alu!Has(byte, FlagBit[flag])}

WriteFlags(c, flags) == [c EXCEPT !.f = flags, !.pending = flags]

(* Mutant: the prefix FD is not looked at. *)
index_pair_one(c) == IF c.index = DD THEN "ix" ELSE "hl"

(* HL, or the index register a prefix has put in its place. *)
index_pair(c) == CASE c.index = DD -> "ix" [] c.index = FD -> "iy" [] OTHER -> "hl"

(* The register a three-bit field names; pair is where H and L are.         *)
HalfOf(c, which, pair) ==
  CASE which = 0 -> High(c.bc) [] which = 1 -> Low(c.bc)
    [] which = 2 -> High(c.de) [] which = 3 -> Low(c.de)
    [] which = 4 -> High(c[pair]) [] which = 5 -> Low(c[pair])
    [] which = 7 -> c.a
    [] which = 6 -> 0                  \* NULL, which is written as a zero

WithHalf(c, which, pair, byte) ==
  CASE which = 0 -> [c EXCEPT !.bc = WithHigh(@, byte)]
    [] which = 1 -> [c EXCEPT !.bc = WithLow(@, byte)]
    [] which = 2 -> [c EXCEPT !.de = WithHigh(@, byte)]
    [] which = 3 -> [c EXCEPT !.de = WithLow(@, byte)]
    [] which = 4 -> [c EXCEPT ![pair] = WithHigh(@, byte)]
    [] which = 5 -> [c EXCEPT ![pair] = WithLow(@, byte)]
    [] which = 7 -> [c EXCEPT !.a = byte]
    [] which = 6 -> c

Slot(c, which) == HalfOf(c, which, index_pair(c))
WithSlot(c, which, byte) == WithHalf(c, which, index_pair(c), byte)

(* Bits 5-4 name BC, DE, HL and SP - or, for PUSH and POP, AF.              *)
PairField(c) == (c.opcode \div 16) % 4
pair_rp(c)  == <<"bc", "de", index_pair(c), "sp">>[PairField(c) + 1]
pair_rp2(c) == IF PairField(c) = 3 THEN "af" ELSE pair_rp(c)

PairOf(c, pair) == IF pair = "af" THEN 256 * c.a + FlagsByte(c.f) ELSE c[pair]
WithPair(c, pair, word) ==
  IF pair = "af" THEN [c EXCEPT !.a = High(word), !.f = FlagsOf(Low(word))]
  ELSE [c EXCEPT ![pair] = word]

end_instruction_here(c) == [c EXCEPT !.cycle_limit = c.cycle + 1]
EndUnless(condition, c) == IF condition THEN c ELSE end_instruction_here(c)

-----------------------------------------------------------------------------
(***************************************************************************)
(* Enter hooks: the address a cycle puts out and, for a write, the byte.   *)
(***************************************************************************)
At(c, address) == [c EXCEPT !.bus_addr = address]
write_at(c, address, byte) == [c EXCEPT !.bus_addr = address, !.bus_data = byte]

(* Mutant: the byte lands on what was there. *)
push_at_late(c, byte) ==
  [write_at(c, c.sp, byte) EXCEPT !.sp = Plus(@, -1)]

push_at(c, byte) ==
  [write_at(c, Plus(c.sp, -1), byte) EXCEPT !.sp = Plus(@, -1)]

ReadHook(h, c) ==
  CASE h = "at_pc"       -> [At(c, c.pc) EXCEPT !.pc = Plus(@, 1)]
    [] h = "at_pop"      -> [At(c, c.sp) EXCEPT !.sp = Plus(@, 1)]
    [] h = "at_hl"       -> At(c, c.hl)
    [] h = "at_bc"       -> At(c, c.bc)
    [] h = "at_de"       -> At(c, c.de)
    [] h = "at_wz"       -> At(c, c.wz)
    [] h = "at_tmp"      -> At(c, c.tmp)
    [] h = "at_tmp_high" -> At(c, Plus(c.tmp, 1))
    [] h = "at_sp"       -> At(c, c.sp)
    [] h = "at_sp_high"  -> At(c, Plus(c.sp, 1))
    [] h = "at_interrupt_table" ->
         LET table == WithHigh(c.tmp, c.i) IN [At(c, table) EXCEPT !.tmp = table]

PushHook(h, c) ==
  CASE h = "push_pc_high"   -> push_at(c, High(c.pc))
    [] h = "push_pc_low"    -> push_at(c, Low(c.pc))
    [] h = "push_pair_high" -> push_at(c, High(PairOf(c, pair_rp2(c))))
    [] h = "push_pair_low"  -> push_at(c, Low(PairOf(c, pair_rp2(c))))
    [] h = "rst_target"     -> push_at([c EXCEPT !.wz = 8 * Y(c.opcode)], High(c.pc))

WriteHook(h, c) ==
  CASE h = "reg_to_hl"       -> write_at(c, c.hl, Slot(c, Z(c.opcode)))
    [] h = "a_at_bc"         -> write_at(c, c.bc, c.a)
    [] h = "a_at_de"         -> write_at(c, c.de, c.a)
    [] h = "a_at_tmp"        -> write_at(c, c.tmp, c.a)
    [] h = "l_at_tmp"        -> write_at(c, c.tmp, Low(c[index_pair(c)]))
    [] h = "h_at_tmp"        -> write_at(c, Plus(c.tmp, 1), High(c[index_pair(c)]))
    [] h = "h_at_sp"         -> write_at(c, Plus(c.sp, 1), High(c[index_pair(c)]))
    [] h = "l_at_sp"         -> write_at(c, c.sp, Low(c[index_pair(c)]))
    [] h = "rp_low"          -> write_at(c, c.tmp, Low(c[pair_rp(c)]))
    [] h = "rp_high"         -> write_at(c, Plus(c.tmp, 1), High(c[pair_rp(c)]))
    [] h = "plain_reg_at_wz" -> write_at(c, c.wz, HalfOf(c, Z(c.opcode), "hl"))

IoHook(h, c) ==
  CASE h = "io_address" -> At(c, WithHigh(c.tmp, c.a))
    [] h = "io_write"   -> write_at(c, WithHigh(c.tmp, c.a), c.a)
    [] h = "io_at_bc"   -> At(c, c.bc)
    [] h = "out_c"      -> write_at(c, c.bc, Slot(c, Y(c.opcode)))
    [] h = "block_out"  -> LET port == WithHigh(c.bc, (High(c.bc) - 1) % 256)
                           IN [At(c, port) EXCEPT !.bc = port]

(* Enter hooks that move PC: the idle cycle of a branch that is taken, and  *)
(* that of a block instruction that goes on, back over its two bytes.       *)
JumpHook(h, c) ==
  CASE h = "jump_relative" ->
         LET target == Plus(c.pc, Signed(c.bus_data))
         IN [c EXCEPT !.pc = target, !.wz = target]
    [] h = "block_repeat" -> [c EXCEPT !.pc = Plus(@, -2), !.wz = Plus(c.pc, -1)]

ReadHooks  == {"at_pc", "at_pop", "at_hl", "at_bc", "at_de", "at_wz", "at_tmp",
               "at_tmp_high", "at_sp", "at_sp_high", "at_interrupt_table"}
PushHooks  == {"push_pc_high", "push_pc_low", "push_pair_high", "push_pair_low", "rst_target"}
WriteHooks == {"reg_to_hl", "a_at_bc", "a_at_de", "a_at_tmp", "l_at_tmp", "h_at_tmp",
               "h_at_sp", "l_at_sp", "rp_low", "rp_high", "plain_reg_at_wz"}
IoHooks    == {"io_address", "io_write", "io_at_bc", "out_c", "block_out"}
JumpHooks  == {"jump_relative", "block_repeat"}

Enter(h, c) ==
  CASE h = "none"         -> c
    [] h \in ReadHooks    -> ReadHook(h, c)
    [] h \in PushHooks    -> PushHook(h, c)
    [] h \in WriteHooks   -> WriteHook(h, c)
    [] h \in IoHooks      -> IoHook(h, c)
    [] h \in JumpHooks    -> JumpHook(h, c)

-----------------------------------------------------------------------------
(***************************************************************************)
(* Exit hooks: what becomes of the byte, and whether the instruction ends. *)
(***************************************************************************)
CollectHook(h, c) ==
  CASE h = "to_tmp_low"  -> [c EXCEPT !.tmp = WithLow(@, c.bus_data)]
    [] h = "to_tmp_high" -> [c EXCEPT !.tmp = WithHigh(@, c.bus_data)]
    [] h = "to_wz_low"   -> [c EXCEPT !.wz = WithLow(@, c.bus_data)]
    [] h = "to_wz_high"  -> [c EXCEPT !.wz = WithHigh(@, c.bus_data)]
    [] h = "to_l"        -> [c EXCEPT ![index_pair(c)] = WithLow(@, c.bus_data)]
    [] h = "to_rp_low"   -> [c EXCEPT ![pair_rp(c)] = WithLow(@, c.bus_data)]
    [] h = "to_displacement" ->
         [c EXCEPT !.wz = Plus(c[index_pair(c)], Signed(c.bus_data))]
    [] h = "latch_operation" -> [c EXCEPT !.opcode = c.bus_data]

BranchHook(h, c) ==
  CASE h = "jr_condition"     -> EndUnless(Alu!condition_met(c.f, Y(c.opcode) % 4), c)
    [] h = "djnz_condition"   -> EndUnless(High(c.bc) # 1,
                                   [c EXCEPT !.bc = WithHigh(@, (High(@) - 1) % 256)])
    [] h = "call_condition"   -> EndUnless(Alu!condition_met(c.f, Y(c.opcode)),
                                   [c EXCEPT !.wz = WithHigh(@, c.bus_data)])
    [] h = "return_condition" -> EndUnless(Alu!condition_met(c.f, Y(c.opcode)), c)

GoTo(c, target) == [c EXCEPT !.pc = target, !.wz = target]

(* Where calls, returns and interrupts go.  Of a mode 0 device's byte only  *)
(* the RST in it is honoured.                                              *)
VectorHook(h, c) ==
  CASE h = "return_to_wz_high" -> GoTo(c, WithHigh(c.wz, c.bus_data))
    [] h = "return_from_interrupt" ->
         [GoTo(c, WithHigh(c.wz, c.bus_data)) EXCEPT !.iff1 = c.iff2]
    [] h = "take_wz"    -> [c EXCEPT !.pc = c.wz]
    [] h = "nmi_vector" -> GoTo(c, 102)
    [] h = "interrupt_vector" ->
         GoTo(c, IF c.im = 0 THEN 8 * Y(Low(c.tmp)) ELSE 56)

(* INC (HL) and its like change the byte between the read and the write.    *)
Modified(c, out) == [WriteFlags(c, out.flags) EXCEPT !.bus_data = out.value]

Mask(c) == Alu!BitMask(Y(c.opcode))

(* The CB groups that keep a result: shifts, RES and SET. *)
CbResult(c, byte) ==
  CASE X(c.opcode) = 0 -> Alu!alu_shift(Y(c.opcode), c.f, byte)
    [] X(c.opcode) = 2 -> Alu!Out(IF Alu!Has(byte, Mask(c)) THEN byte - Mask(c) ELSE byte, c.f)
    [] X(c.opcode) = 3 -> Alu!Out(Alu!OrByte(byte, Mask(c)), c.f)

(* Only a shift writes flags. *)
CbFlags(c, byte) == IF X(c.opcode) = 0 THEN WriteFlags(c, CbResult(c, byte).flags) ELSE c

CbBit(c, byte, undocumented) ==
  WriteFlags(c, Alu!alu_bit(Mask(c), c.f, byte, undocumented).flags)

(* RRD and RLD. *)
DigitHook(right, c) ==
  LET a == Alu!DigitRotated(right, c.a, c.bus_data)
  IN [WriteFlags(c, Alu!digit_rotate_flags(c.f, a)) EXCEPT
        !.a = a, !.bus_data = Alu!DigitStored(right, c.a, c.bus_data),
        !.wz = Plus(c.hl, 1)]

(* DD CB: BIT ends here; the others also copy the result to the register    *)
(* the low three bits name, never to an index half.                        *)
IndexCbHook(c) ==
  IF X(c.opcode) = 1 THEN end_instruction_here(CbBit(c, c.bus_data, High(c.wz)))
  ELSE LET byte == CbResult(c, c.bus_data).value
       IN WithHalf([CbFlags(c, c.bus_data) EXCEPT !.bus_data = byte], Z(c.opcode), "hl", byte)

ByteHook(h, c) ==
  CASE h = "inc_bus" -> Modified(c, Alu!alu_inc(c.f, c.bus_data))
    [] h = "dec_bus" -> Modified(c, Alu!alu_dec(c.f, c.bus_data))
    [] h = "cb_bus"  -> [CbFlags(c, c.bus_data) EXCEPT
                           !.bus_data = CbResult(c, c.bus_data).value]
    [] h = "rrd"     -> DigitHook(TRUE, c)
    [] h = "rld"     -> DigitHook(FALSE, c)
    [] h = "index_cb_apply" -> IndexCbHook(c)

(* The block instructions: bit 3 of the opcode is the direction, bit 4 says *)
(* whether they repeat, and a pass decides that after it has counted.      *)
block_delta(c)   == IF Y(c.opcode) % 2 = 1 THEN -1 ELSE 1
block_repeats(c) == (c.opcode \div 16) % 2 = 1

OnceMore(c, more) ==
  IF ~block_repeats(c) \/ ~more THEN end_instruction_here(c)
  ELSE WriteFlags(c, Alu!block_repeat_undocumented(c.f, High(Plus(c.pc, -2))))

TransferHook(c) ==
  LET delta == block_delta(c)
      count == Plus(c.bc, -1)
      moved == [c EXCEPT !.hl = Plus(@, delta), !.de = Plus(@, delta), !.bc = count]
  IN OnceMore(WriteFlags(moved, Alu!block_transfer_flags(c.a, c.f, c.bus_data, count # 0)),
              count # 0)

CompareHook(c) ==
  LET delta == block_delta(c)
      count == Plus(c.bc, -1)
      moved == [c EXCEPT !.hl = Plus(@, delta), !.wz = Plus(@, delta), !.bc = count]
      flags == Alu!block_compare_flags(c.a, c.f, c.bus_data, count # 0)
  IN OnceMore(WriteFlags(moved, flags), count # 0 /\ "Z" \notin flags)

BlockInHook(c) ==
  LET delta == block_delta(c)
      b     == (High(c.bc) - 1) % 256
      moved == [c EXCEPT !.wz = Plus(c.bc, delta), !.bc = WithHigh(@, b), !.hl = Plus(@, delta)]
  IN OnceMore(WriteFlags(moved,
                Alu!block_io_flags(b, c.bus_data, (Low(c.bc) + delta) % 256)), b # 0)

BlockOutHook(c) ==
  LET delta == block_delta(c)
      moved == [c EXCEPT !.hl = Plus(@, delta), !.wz = Plus(c.bc, delta)]
  IN OnceMore(WriteFlags(moved,
                Alu!block_io_flags(High(c.bc), c.bus_data, Low(moved.hl))), High(c.bc) # 0)

BlockHook(h, c) ==
  CASE h = "block_transfer" -> TransferHook(c)
    [] h = "block_compare"  -> CompareHook(c)
    [] h = "block_in"       -> BlockInHook(c)
    [] h = "block_exit_out" -> BlockOutHook(c)

CollectHooks == {"to_tmp_low", "to_tmp_high", "to_wz_low", "to_wz_high", "to_l",
                 "to_rp_low", "to_displacement", "latch_operation"}
BranchHooks  == {"jr_condition", "djnz_condition", "call_condition", "return_condition"}
VectorHooks  == {"return_to_wz_high", "return_from_interrupt", "take_wz", "nmi_vector",
                 "interrupt_vector"}
ByteHooks    == {"inc_bus", "dec_bus", "cb_bus", "rrd", "rld", "index_cb_apply"}
BlockHooks   == {"block_transfer", "block_compare", "block_in", "block_exit_out"}

Exit(h, c) ==
  CASE h = "none"          -> c
    [] h \in CollectHooks  -> CollectHook(h, c)
    [] h \in BranchHooks   -> BranchHook(h, c)
    [] h \in VectorHooks   -> VectorHook(h, c)
    [] h \in ByteHooks     -> ByteHook(h, c)
    [] h \in BlockHooks    -> BlockHook(h, c)

-----------------------------------------------------------------------------
(***************************************************************************)
(* The hooks of each instruction's cycles, as <<enter, exit>>, in the      *)
(* order of CyclesOf.                                                      *)
(***************************************************************************)
Idle     == <<"none", "none">>
On(h)    == <<h, "none">>
AtPcTo(x)  == <<"at_pc", x>>
AtPopTo(x) == <<"at_pop", x>>

Operand == <<AtPcTo("to_tmp_low"), AtPcTo("to_tmp_high")>>

IndexedHooks(n) ==
  CASE n \in {"index_ld_reg_mem", "index_alu_mem"} ->
         <<AtPcTo("to_displacement"), Idle, On("at_wz")>>
    [] n = "index_ld_mem_reg" -> <<AtPcTo("to_displacement"), Idle, On("plain_reg_at_wz")>>
    [] n = "index_ld_mem_n"   -> <<AtPcTo("to_displacement"), On("at_pc"), Idle, On("at_wz")>>
    [] n = "index_inc_mem"    ->
         <<AtPcTo("to_displacement"), Idle, <<"at_wz", "inc_bus">>, Idle, On("at_wz")>>
    [] n = "index_dec_mem"    ->
         <<AtPcTo("to_displacement"), Idle, <<"at_wz", "dec_bus">>, Idle, On("at_wz")>>
    [] n = "index_cb"         ->
         <<AtPcTo("to_displacement"), AtPcTo("latch_operation"), Idle, On("at_wz"),
           <<"none", "index_cb_apply">>, On("at_wz")>>

EdHooks(n) ==
  CASE n \in {"ed_adc_hl", "ed_sbc_hl", "ed_ld_i_a", "ed_ld_r_a",
              "ed_ld_a_i", "ed_ld_a_r"} -> <<Idle>>
    [] n = "ed_retn"     -> <<AtPopTo("to_wz_low"), AtPopTo("return_from_interrupt")>>
    [] n = "ed_in_c"     -> <<On("io_at_bc")>>
    [] n = "ed_out_c"    -> <<On("out_c")>>
    [] n = "ed_ld_nn_rp" -> Operand \o <<On("rp_low"), On("rp_high")>>
    [] n = "ed_ld_rp_nn" -> Operand \o <<<<"at_tmp", "to_rp_low">>, On("at_tmp_high")>>
    [] n = "ed_rrd"      -> <<<<"at_hl", "rrd">>, Idle, On("at_hl")>>
    [] n = "ed_rld"      -> <<<<"at_hl", "rld">>, Idle, On("at_hl")>>

(* Mutant: LDIR's destination is where it reads. *)
BlockHooksInPlace(n) ==
  CASE n = "ed_block_transfer" ->
         <<On("at_hl"), On("at_hl"), <<"none", "block_transfer">>, On("block_repeat")>>
    [] n = "ed_block_compare"  ->
         <<On("at_hl"), <<"none", "block_compare">>, On("block_repeat")>>
    [] n = "ed_block_in"       ->
         <<Idle, On("io_at_bc"), <<"at_hl", "block_in">>, On("block_repeat")>>
    [] n = "ed_block_out"      ->
         <<Idle, On("at_hl"), <<"block_out", "block_exit_out">>, On("block_repeat")>>

BlockCycleHooks(n) ==
  CASE n = "ed_block_transfer" ->
         <<On("at_hl"), On("at_de"), <<"none", "block_transfer">>, On("block_repeat")>>
    [] n = "ed_block_compare"  ->
         <<On("at_hl"), <<"none", "block_compare">>, On("block_repeat")>>
    [] n = "ed_block_in"       ->
         <<Idle, On("io_at_bc"), <<"at_hl", "block_in">>, On("block_repeat")>>
    [] n = "ed_block_out"      ->
         <<Idle, On("at_hl"), <<"block_out", "block_exit_out">>, On("block_repeat")>>

LoadHooks(n) ==
  CASE n = "ld_reg_immediate" -> <<On("at_pc")>>
    [] n = "ld_reg_from_hl"   -> <<On("at_hl")>>
    [] n = "ld_hl_from_reg"   -> <<On("reg_to_hl")>>
    [] n = "ld_hl_n"          -> <<On("at_pc"), On("at_hl")>>
    [] n = "ld_a_bc"          -> <<On("at_bc")>>
    [] n = "ld_a_de"          -> <<On("at_de")>>
    [] n = "ld_bc_a"          -> <<On("a_at_bc")>>
    [] n = "ld_de_a"          -> <<On("a_at_de")>>
    [] n = "ld_a_nn"          -> Operand \o <<On("at_tmp")>>
    [] n = "ld_nn_a"          -> Operand \o <<On("a_at_tmp")>>
    [] n = "ld_rp_nn"         -> Operand
    [] n = "ld_nn_hl"         -> Operand \o <<On("l_at_tmp"), On("h_at_tmp")>>
    [] n = "ld_hl_nn"         -> Operand \o <<<<"at_tmp", "to_l">>, On("at_tmp_high")>>
    [] n = "ld_sp_hl"         -> <<Idle>>
    [] n = "push"             -> <<Idle, On("push_pair_high"), On("push_pair_low")>>
    [] n = "pop"              -> <<AtPopTo("to_tmp_low"), On("at_pop")>>
    [] n = "ex_sp_hl"         -> <<<<"at_sp", "to_tmp_low">>, <<"at_sp_high", "to_tmp_high">>,
                                   Idle, On("h_at_sp"), On("l_at_sp"), Idle>>

ArithmeticHooks(n) ==
  CASE n = "alu_mem"    -> <<On("at_hl")>>
    [] n = "alu_n"      -> <<On("at_pc")>>
    [] n = "inc_mem"    -> <<<<"at_hl", "inc_bus">>, Idle, On("at_hl")>>
    [] n = "dec_mem"    -> <<<<"at_hl", "dec_bus">>, Idle, On("at_hl")>>
    [] n = "cb_mem"     -> <<<<"at_hl", "cb_bus">>, Idle, On("at_hl")>>
    [] n = "cb_bit_mem" -> <<On("at_hl"), Idle>>
    [] n \in {"inc_rp", "dec_rp", "add_hl_rp"} -> <<Idle>>

Called == <<On("push_pc_high"), <<"push_pc_low", "take_wz">>>>

ControlHooks(n) ==
  CASE n \in {"jump", "jp_cc"} -> <<AtPcTo("to_wz_low"), On("at_pc")>>
    [] n = "jr"      -> <<On("at_pc"), On("jump_relative")>>
    [] n = "jr_cc"   -> <<AtPcTo("jr_condition"), On("jump_relative")>>
    [] n = "djnz"    -> <<Idle, AtPcTo("djnz_condition"), On("jump_relative")>>
    [] n = "call"    -> <<AtPcTo("to_wz_low"), AtPcTo("to_wz_high"), Idle>> \o Called
    [] n = "call_cc" -> <<AtPcTo("to_wz_low"), AtPcTo("call_condition"), Idle>> \o Called
    [] n = "ret"     -> <<AtPopTo("to_wz_low"), AtPopTo("return_to_wz_high")>>
    [] n = "ret_cc"  -> <<<<"none", "return_condition">>, AtPopTo("to_wz_low"),
                          AtPopTo("return_to_wz_high")>>
    [] n = "rst"     -> <<Idle, On("rst_target"), <<"push_pc_low", "take_wz">>>>
    [] n = "in_a_n"  -> <<AtPcTo("to_tmp_low"), On("io_address")>>
    [] n = "out_n_a" -> <<AtPcTo("to_tmp_low"), On("io_write")>>

InterruptHooks(n) ==
  CASE n = "nmi" -> <<Idle, On("push_pc_high"), <<"push_pc_low", "nmi_vector">>>>
    [] n = "interrupt" ->
         <<<<"none", "to_tmp_low">>, On("push_pc_high"), <<"push_pc_low", "interrupt_vector">>>>
    [] n = "interrupt_mode2" ->
         <<<<"none", "to_tmp_low">>, On("push_pc_high"), On("push_pc_low"),
           <<"at_interrupt_table", "to_wz_low">>, <<"at_tmp_high", "return_to_wz_high">>>>

HooksOf ==
  [n \in Instrs |->
     CASE n \in FetchOnly          -> << >>
       [] n \in IndexedInstrs      -> IndexedHooks(n)
       [] n \in EdInstrs           -> EdHooks(n)
       [] n \in BlockInstrs        -> BlockCycleHooks(n)
       [] n \in LoadInstrs         -> LoadHooks(n)
       [] n \in ArithmeticInstrs   -> ArithmeticHooks(n)
       [] n \in ControlInstrs      -> ControlHooks(n)
       [] n \in InterruptSequences -> InterruptHooks(n)]

(* A descriptor names one pair of hooks for each of its cycles.             *)
ASSUME HooksAssumption == \A n \in Instrs : Len(HooksOf[n]) = Len(CyclesOf[n])

-----------------------------------------------------------------------------
(***************************************************************************)
(* The effect of an instruction, after its last cycle.                     *)
(***************************************************************************)
WithOut(c, out) == [WriteFlags(c, out.flags) EXCEPT !.a = out.value]
AluOperation(c, byte) == WithOut(c, Alu!alu_operation(Y(c.opcode), c.a, c.f, byte))
SlotOut(c, which, out) == WithSlot(WriteFlags(c, out.flags), which, out.value)

(* Storing A leaves WZ half formed: low from the address, high from A.      *)
StoredA(c) == [c EXCEPT !.wz = 256 * c.a + ((Low(c.bus_addr) + 1) % 256)]
MemptrAfterTmp(c) == [c EXCEPT !.wz = Plus(c.tmp, 1)]

LoadEffect(n, c) ==
  CASE n = "ld_reg_reg"                            -> WithSlot(c, Y(c.opcode), Slot(c, Z(c.opcode)))
    [] n \in {"ld_reg_immediate", "ld_reg_from_hl"} -> WithSlot(c, Y(c.opcode), c.bus_data)
    [] n \in {"ld_a_bc", "ld_a_de", "ld_a_nn", "in_a_n"} ->
         [c EXCEPT !.a = c.bus_data, !.wz = Plus(c.bus_addr, 1)]
    [] n \in {"ld_bc_a", "ld_de_a", "ld_nn_a", "out_n_a"} -> StoredA(c)
    [] n = "ld_rp_nn"                 -> [c EXCEPT ![pair_rp(c)] = c.tmp]
    [] n \in {"ld_nn_hl", "ed_ld_nn_rp"} -> MemptrAfterTmp(c)
    [] n = "ld_hl_nn" ->
         [MemptrAfterTmp(c) EXCEPT ![index_pair(c)] = WithHigh(@, c.bus_data)]
    [] n = "ed_ld_rp_nn" ->
         [MemptrAfterTmp(c) EXCEPT ![pair_rp(c)] = WithHigh(@, c.bus_data)]
    [] n = "ld_sp_hl"                 -> [c EXCEPT !.sp = c[index_pair(c)]]
    [] n = "pop" ->
         LET word == WithHigh(c.tmp, c.bus_data)
         IN WithPair([c EXCEPT !.tmp = word], pair_rp2(c), word)
    [] n = "index_ld_reg_mem"         -> WithHalf(c, Y(c.opcode), "hl", c.bus_data)

ExchangeEffect(n, c) ==
  CASE n = "ex_de_hl" -> [c EXCEPT !.de = c.hl, !.hl = c.de]
    [] n = "ex_af"    -> [c EXCEPT !.a = c.af_alt.a, !.f = c.af_alt.f,
                                   !.af_alt = [a |-> c.a, f |-> c.f]]
    [] n = "exx"      -> [c EXCEPT !.bc = c.bc_alt, !.bc_alt = c.bc, !.de = c.de_alt,
                                   !.de_alt = c.de, !.hl = c.hl_alt, !.hl_alt = c.hl]
    [] n = "ex_sp_hl" -> [c EXCEPT ![index_pair(c)] = c.tmp, !.wz = c.tmp]

(* 16-bit sums leave WZ one past their left operand. *)
WideOut(c, pair, out) ==
  [WriteFlags(c, out.flags) EXCEPT !.wz = Plus(c[pair], 1), ![pair] = out.value]

ArithmeticEffect(n, c) ==
  CASE n = "alu_reg"   -> AluOperation(c, Slot(c, Z(c.opcode)))
    [] n \in {"alu_mem", "alu_n", "index_alu_mem"} -> AluOperation(c, c.bus_data)
    [] n = "inc_reg"   -> SlotOut(c, Y(c.opcode), Alu!alu_inc(c.f, Slot(c, Y(c.opcode))))
    [] n = "dec_reg"   -> SlotOut(c, Y(c.opcode), Alu!alu_dec(c.f, Slot(c, Y(c.opcode))))
    [] n = "inc_rp"    -> [c EXCEPT ![pair_rp(c)] = Plus(@, 1)]
    [] n = "dec_rp"    -> [c EXCEPT ![pair_rp(c)] = Plus(@, -1)]
    [] n = "add_hl_rp" -> WideOut(c, index_pair(c),
                            Alu!alu_add16(c[index_pair(c)], c.f, c[pair_rp(c)]))
    [] n = "ed_adc_hl" -> WideOut(c, "hl", Alu!alu_adc16(c.hl, c.f, c[pair_rp(c)]))
    [] n = "ed_sbc_hl" -> WideOut(c, "hl", Alu!alu_sbc16(c.hl, c.f, c[pair_rp(c)]))
    [] n = "rotate_a"  -> WithOut(c, Alu!alu_rotate_a(Y(c.opcode), c.a, c.f))
    [] n = "daa"       -> WithOut(c, Alu!alu_daa(c.a, c.f))
    [] n = "cpl"       -> LET out == Alu!execute_cpl(c.a, c.f)
                          IN [c EXCEPT !.a = out.value, !.f = out.flags]
    [] n = "scf"       -> WriteFlags(c, Alu!execute_scf(c.a, c.f, c.q))
    [] n = "ccf"       -> WriteFlags(c, Alu!execute_ccf(c.a, c.f, c.q))
    [] n = "ed_neg"    -> WithOut(c, Alu!execute_neg(c.a))

CbEffect(n, c) ==
  CASE n = "cb_bit_mem" -> CbBit(c, c.bus_data, High(c.wz))
    [] n = "cb_reg" ->
         LET byte == Slot(c, Z(c.opcode))
         IN IF X(c.opcode) = 1 THEN CbBit(c, byte, byte)
            ELSE WithSlot(CbFlags(c, byte), Z(c.opcode), CbResult(c, byte).value)

(* HALT winds PC back onto itself: the next fetch reads it again. *)
execute_halt(c) == [c EXCEPT !.halted = TRUE, !.pc = Plus(@, -1)]

(* Mutant: EI leaves no grace to the instruction after it. *)
execute_ei_hasty(c) == [c EXCEPT !.iff1 = TRUE, !.iff2 = TRUE]

execute_ei(c) == [c EXCEPT !.iff1 = TRUE, !.iff2 = TRUE, !.int_inhibit = TRUE]

(* IM is encoded twice, and its mode 0 four times. *)
execute_im(c) == [c EXCEPT !.im = <<0, 0, 1, 2, 0, 0, 1, 2>>[Y(c.opcode) + 1]]

ControlEffect(n, c) ==
  CASE n = "halt"    -> execute_halt(c)
    [] n = "ei"      -> execute_ei(c)
    [] n = "di"      -> [c EXCEPT !.iff1 = FALSE, !.iff2 = FALSE]
    [] n = "ed_im"   -> execute_im(c)
    [] n = "jump"    -> GoTo(c, WithHigh(c.wz, c.bus_data))
    [] n = "jp_cc"   -> LET target == WithHigh(c.wz, c.bus_data)
                        IN IF Alu!condition_met(c.f, Y(c.opcode)) THEN GoTo(c, target)
                           ELSE [c EXCEPT !.wz = target]
    [] n = "jp_hl"   -> [c EXCEPT !.pc = c[index_pair(c)]]

(* LD A,I and LD A,R read IFF2 as cleared when an interrupt is about to be  *)
(* accepted.                                                               *)
load_a_from_control_register(c, value, int) ==
  LET imminent == ~c.int_inhibit /\ (c.nmi_latched \/ (c.iff1 /\ int))
  IN [WriteFlags(c, Alu!load_a_flags(c.f, value, c.iff2 /\ ~imminent)) EXCEPT !.a = value]

RefreshEffect(n, c, int) ==
  CASE n = "ed_ld_i_a" -> [c EXCEPT !.i = c.a]
    [] n = "ed_ld_r_a" -> [c EXCEPT !.r = c.a]
    [] n = "ed_ld_a_i" -> load_a_from_control_register(c, c.i, int)
    [] n = "ed_ld_a_r" -> load_a_from_control_register(c, c.r, int)

(* IN r,(C) and OUT (C),r: WZ follows BC as the instruction leaves it.      *)
PortEffect(n, c) ==
  CASE n = "ed_in_c" ->
         LET taken == WithSlot(WriteFlags(c, Alu!digit_rotate_flags(c.f, c.bus_data)),
                               Y(c.opcode), c.bus_data)
         IN [taken EXCEPT !.wz = Plus(taken.bc, 1)]
    [] n = "ed_out_c" -> [c EXCEPT !.wz = Plus(c.bc, 1)]

(* DD and FD replace each other, ED drops them, CB keeps them.              *)
execute_prefix(c) ==
  CASE c.opcode \in {DD, FD} -> [c EXCEPT !.index = c.opcode, !.prefix = 0]
    [] c.opcode = ED         -> [c EXCEPT !.index = 0, !.prefix = ED]
    [] c.opcode = CB         -> [c EXCEPT !.prefix = CB]

Loads == {"ld_reg_reg", "ld_reg_immediate", "ld_reg_from_hl", "ld_a_bc", "ld_a_de",
  "ld_a_nn", "in_a_n", "ld_bc_a", "ld_de_a", "ld_nn_a", "out_n_a", "ld_rp_nn", "ld_nn_hl",
  "ed_ld_nn_rp", "ld_hl_nn", "ed_ld_rp_nn", "ld_sp_hl", "pop", "index_ld_reg_mem"}
Exchanges   == {"ex_de_hl", "ex_af", "exx", "ex_sp_hl"}
Arithmetics == {"alu_reg", "alu_mem", "alu_n", "index_alu_mem", "inc_reg", "dec_reg",
  "inc_rp", "dec_rp", "add_hl_rp", "ed_adc_hl", "ed_sbc_hl", "rotate_a", "daa", "cpl",
  "scf", "ccf", "ed_neg"}
Controls    == {"halt", "ei", "di", "ed_im", "jump", "jp_cc", "jp_hl"}
Refreshes   == {"ed_ld_i_a", "ed_ld_r_a", "ed_ld_a_i", "ed_ld_a_r"}

(* The rest have done everything in their hooks. *)
Execute(n, c, int) ==
  CASE n \in Loads                     -> LoadEffect(n, c)
    [] n \in Exchanges                 -> ExchangeEffect(n, c)
    [] n \in Arithmetics               -> ArithmeticEffect(n, c)
    [] n \in {"cb_reg", "cb_bit_mem"}  -> CbEffect(n, c)
    [] n \in Controls                  -> ControlEffect(n, c)
    [] n \in Refreshes                 -> RefreshEffect(n, c, int)
    [] n \in {"ed_in_c", "ed_out_c"}   -> PortEffect(n, c)
    [] n = "prefix"                    -> execute_prefix(c)
    [] OTHER                           -> c

-----------------------------------------------------------------------------
(***************************************************************************)
(* One machine cycle.                                                      *)
(***************************************************************************)
NoInstr == "none"
Fetching(c) == c.instr = NoInstr
Kind(c)     == IF Fetching(c) THEN "m1_fetch" ELSE CyclesOf[c.instr][c.cycle + 1]
Address(c)  == IF Fetching(c) THEN c.pc ELSE c.bus_addr

ByteAt(address) ==
  IF address \in DOMAIN memory THEN memory[address] ELSE Background(address)

(* What the bus answers. *)
BusBytes ==
  CASE Kind(cpu) \in {"m1_fetch", "mem_read"} -> {ByteAt(Address(cpu))}
    [] Kind(cpu) = "io_read" -> PortBytes
    [] Kind(cpu) = "int_ack" -> Vectors
    [] OTHER                 -> {cpu.bus_data}

(* A write reaches memory; a byte that is read is only read. *)
Stores ==
  IF Kind(cpu) = "mem_write"
  THEN memory' = [address \in DOMAIN memory \union {Address(cpu)} |->
                    IF address = Address(cpu) THEN cpu.bus_data ELSE memory[address]]
  ELSE UNCHANGED memory

(* Bit 7 of R is not part of the counter. *)
Refreshed(c) == [c EXCEPT !.r = 128 * (@ \div 128) + ((@ + 1) % 128)]

(* The sampling step of the cycle. *)
Sampled(c, byte) ==
  CASE Kind(c) = "m1_fetch" -> [Refreshed(c) EXCEPT !.opcode = byte, !.pc = Plus(@, 1)]
    [] Kind(c) \in {"mem_read", "io_read"} -> [c EXCEPT !.bus_data = byte]
    [] Kind(c) = "int_ack"  -> [Refreshed(c) EXCEPT !.bus_data = byte]
    [] Kind(c) = "nmi_ack"  -> Refreshed(c)
    [] OTHER                -> c

HooksAt(c) == HooksOf[c.instr][c.cycle + 1]

(* The cycle has ended: its exit hook has run, or the fetch is decoded.     *)
Ended(c, byte) ==
  LET sampled == Sampled(c, byte)
      n       == Decode(byte, c.prefix, c.index)
  IN IF Fetching(c)
     THEN [sampled EXCEPT !.instr = n, !.cycle = 0, !.cycle_limit = Len(CyclesOf[n])]
     ELSE [Exit(HooksAt(c)[2], sampled) EXCEPT !.cycle = @ + 1]

GoesOn(c) == c.cycle < c.cycle_limit
Begun(c)  == Enter(HooksAt(c)[1], c)
BackToFetch(c) == [c EXCEPT !.instr = NoInstr, !.cycle = 0, !.cycle_limit = 0]

(* The next cycle of the same instruction. *)
NextCycle ==
  \E byte \in BusBytes :
    /\ events.left > 0
    /\ GoesOn(Ended(cpu, byte))
    /\ cpu' = Begun(Ended(cpu, byte))
    /\ Stores
    /\ UNCHANGED events

(* A prefix decides what the next fetch means; it is no boundary.           *)
EndPrefix ==
  \E byte \in BusBytes :
    /\ events.left > 0
    /\ ~GoesOn(Ended(cpu, byte))
    /\ Ended(cpu, byte).instr = "prefix"
    /\ cpu' = BackToFetch(execute_prefix(Ended(cpu, byte)))
    /\ Stores
    /\ UNCHANGED events

-----------------------------------------------------------------------------
(***************************************************************************)
(* The instruction boundary.  nmi: the NMI pin has risen since the last    *)
(* boundary; int: the INT pin is up on this edge.                          *)
(***************************************************************************)
Pinned(c, nmi) == [c EXCEPT !.nmi_latched = @ \/ nmi]

(* The effect is in, prefixes are forgotten, and Q is what it wrote.        *)
Finished(c, int) ==
  LET done == Execute(c.instr, c, int)
  IN [BackToFetch(done) EXCEPT !.prefix = 0, !.index = 0, !.q = done.pending, !.pending = {}]

Raises(nmi, int) ==
  /\ nmi => events.nmi > 0
  /\ int => events.int > 0
  /\ events' = [events EXCEPT !.nmi = IF nmi THEN @ - 1 ELSE @,
                              !.int = IF int THEN @ - 1 ELSE @, !.left = @ - 1]

(* The last cycle of an instruction, with the host's pins. *)
Completes(byte, nmi, int) ==
  /\ events.left > 0
  /\ ~GoesOn(Ended(cpu, byte))
  /\ Ended(cpu, byte).instr # "prefix"
  /\ Raises(nmi, int)
  /\ Stores

(* What the core is when it looks for an interrupt. *)
Settled(byte, nmi, int) == Finished(Pinned(Ended(cpu, byte), nmi), int)

AcceptsNmi(c)      == ~c.int_inhibit /\ c.nmi_latched
AcceptsInt(c, int) == ~c.int_inhibit /\ ~c.nmi_latched /\ c.iff1 /\ int

(* Mutant: PC stays on the HALT the core wakes from. *)
wake_from_halt_on(c) == [c EXCEPT !.halted = FALSE]

(* Leaving HALT, PC moves past it: what the acknowledge will push.          *)
wake_from_halt(c) ==
  IF c.halted THEN [c EXCEPT !.halted = FALSE, !.pc = Plus(@, 1)] ELSE c

(* begin_interrupt: neither acknowledge has an enter hook. *)
begin_interrupt(c, n) ==
  [c EXCEPT !.instr = n, !.cycle = 0, !.cycle_limit = Len(CyclesOf[n]), !.int_inhibit = FALSE]

EndPlain ==
  \E byte \in BusBytes, nmi \in BOOLEAN, int \in BOOLEAN :
    LET c == Settled(byte, nmi, int)
    IN /\ Completes(byte, nmi, int)
       /\ ~AcceptsNmi(c)
       /\ ~AcceptsInt(c, int)
       /\ cpu' = [c EXCEPT !.int_inhibit = FALSE]

AcceptNmi ==
  \E byte \in BusBytes, nmi \in BOOLEAN, int \in BOOLEAN :
    LET c == Settled(byte, nmi, int)
    IN /\ Completes(byte, nmi, int)
       /\ AcceptsNmi(c)
       /\ cpu' = begin_interrupt([wake_from_halt(c) EXCEPT
                   !.nmi_latched = FALSE, !.iff2 = c.iff1, !.iff1 = FALSE], "nmi")

AcceptInt ==
  \E byte \in BusBytes, nmi \in BOOLEAN, int \in BOOLEAN :
    LET c == Settled(byte, nmi, int)
    IN /\ Completes(byte, nmi, int)
       /\ AcceptsInt(c, int)
       /\ cpu' = begin_interrupt([wake_from_halt(c) EXCEPT !.iff1 = FALSE, !.iff2 = FALSE],
                                 IF c.im = 2 THEN "interrupt_mode2" ELSE "interrupt")

-----------------------------------------------------------------------------
(***************************************************************************)
(* The host: a RESET between two machine cycles, and the debug interface.  *)
(***************************************************************************)
(* apply_reset: AF, SP, Q and the other pairs stay as they are.             *)
apply_reset(c) ==
  [c EXCEPT !.pc = 0, !.i = 0, !.r = 0, !.im = 0, !.iff1 = FALSE, !.iff2 = FALSE,
            !.halted = FALSE, !.nmi_latched = FALSE, !.int_inhibit = FALSE,
            !.prefix = 0, !.index = 0, !.instr = NoInstr, !.cycle = 0, !.cycle_limit = 0]

HostResets ==
  /\ events.resets > 0
  /\ cpu' = apply_reset(cpu)
  /\ events' = [events EXCEPT !.resets = @ - 1]
  /\ UNCHANGED memory

(* pair_of: the registers a debugger can name, IR apart. *)
Named == {"af", "bc", "de", "hl", "af_alt", "bc_alt", "de_alt", "hl_alt",
          "ix", "iy", "sp", "pc", "wz"}

z80_get(c, which) ==
  CASE which = "ir"     -> 256 * c.i + c.r
    [] which = "af"     -> PairOf(c, "af")
    [] which = "af_alt" -> PairOf(c.af_alt, "af")
    [] OTHER            -> c[which]

z80_set(c, which, word) ==
  CASE which = "ir"     -> [c EXCEPT !.i = High(word), !.r = Low(word)]
    [] which = "af"     -> WithPair(c, "af", word)
    [] which = "af_alt" -> [c EXCEPT !.af_alt = WithPair(@, "af", word)]
    [] OTHER            -> [c EXCEPT ![which] = word]

(* What z80_state reports besides the pairs. *)
Reported == {"i", "r", "im", "iff1", "iff2", "halted", "q"}

z80_state(c) ==
  [pairs |-> [which \in Named |-> z80_get(c, which)], rest |-> [field \in Reported |-> c[field]]]

(* Mutant: Q is left as it is. *)
z80_set_state_stale(c, state) ==
  [field \in DOMAIN c |->
     CASE field \in {"a", "f"}  -> WithPair(c, "af", state.pairs["af"])[field]
       [] field = "af_alt"      -> WithPair(c.af_alt, "af", state.pairs["af_alt"])
       [] field \in Named \ {"af_alt"} -> state.pairs[field]
       [] field = "pending"     -> {}
       [] field \in Reported \ {"q"} -> state.rest[field]
       [] OTHER                 -> c[field]]

z80_set_state(c, state) ==
  [field \in DOMAIN c |->
     CASE field \in {"a", "f"}  -> WithPair(c, "af", state.pairs["af"])[field]
       [] field = "af_alt"      -> WithPair(c.af_alt, "af", state.pairs["af_alt"])
       [] field \in Named \ {"af_alt"} -> state.pairs[field]
       [] field = "pending"     -> {}
       [] field \in Reported    -> state.rest[field]
       [] OTHER                 -> c[field]]

(* A debugger writes between two instructions, and moves PC only while the  *)
(* core is awake: nothing in z80_set looks at halted.                      *)
HostSets ==
  /\ events.debug > 0
  /\ Fetching(cpu) /\ cpu.index = 0 /\ cpu.prefix = 0
  /\ \E which \in Named \union {"ir"}, word \in DebugWords :
       /\ which = "pc" => ~cpu.halted
       /\ cpu' = z80_set(cpu, which, word)
  /\ events' = [events EXCEPT !.debug = @ - 1]
  /\ UNCHANGED memory

-----------------------------------------------------------------------------
(* What z80_new and z80_reset leave in the fields. *)
NewRegisters ==
  [a |-> 255, f |-> Alu!Flags, bc |-> 0, de |-> 0, hl |-> 0, ix |-> 0, iy |-> 0,
   sp |-> 65535, pc |-> 0, wz |-> 0, tmp |-> 0,
   af_alt |-> [a |-> 0, f |-> {}], bc_alt |-> 0, de_alt |-> 0, hl_alt |-> 0,
   i |-> 0, r |-> 0, im |-> 0, iff1 |-> FALSE, iff2 |-> FALSE, halted |-> FALSE,
   nmi_latched |-> FALSE, int_inhibit |-> FALSE, opcode |-> 0, prefix |-> 0, index |-> 0,
   instr |-> NoInstr, cycle |-> 0, cycle_limit |-> 0, bus_addr |-> 0, bus_data |-> 0,
   q |-> {}, pending |-> {}]

(* A core that has run: some of its registers, as they stand between two    *)
(* instructions.                                                           *)
AtFetch(registers) ==
  [field \in DOMAIN NewRegisters |->
     IF field \in DOMAIN registers THEN registers[field] ELSE NewRegisters[field]]

(* The fields of struct z80_t have these types.  The cursor stays in the    *)
(* cycles of its instruction while there are any left.                     *)
ByteFields == {"a", "i", "r", "opcode", "bus_data"}
WordFields == {"bc", "de", "hl", "ix", "iy", "sp", "pc", "wz", "tmp", "bus_addr",
               "bc_alt", "de_alt", "hl_alt"}
FlagFields == {"f", "q", "pending"}
BoolFields == {"iff1", "iff2", "halted", "nmi_latched", "int_inhibit"}
CpuFields  == ByteFields \union WordFields \union FlagFields \union BoolFields
                \union {"im", "af_alt", "prefix", "index", "instr", "cycle", "cycle_limit"}

Typed(c) ==
  /\ c = [field \in CpuFields |-> c[field]]
  /\ \A field \in ByteFields : c[field] \in Byte
  /\ \A field \in WordFields : c[field] \in Alu!Word
  /\ \A field \in FlagFields : c[field] \subseteq Alu!Flags
  /\ \A field \in BoolFields : c[field] \in BOOLEAN
  /\ c.im \in 0 .. 2
  /\ c.af_alt \in [a : Byte, f : SUBSET Alu!Flags]
  /\ c.prefix \in {0, CB, ED} /\ c.index \in {0, DD, FD}
  /\ c.instr \in Instrs \union {NoInstr}
  /\ c.cycle \in Nat /\ c.cycle_limit \in Nat

ByteMemory(m) == DOMAIN m \subseteq Alu!Word /\ \A address \in DOMAIN m : m[address] \in Byte

TypeOK ==
  /\ Typed(cpu)
  /\ ~Fetching(cpu) => cpu.cycle < cpu.cycle_limit /\ cpu.cycle_limit <= Len(CyclesOf[cpu.instr])
  /\ ByteMemory(memory)
  /\ events \in [left : Nat, nmi : Nat, int : Nat, resets : Nat, debug : Nat]

(* A start: the registers, the program in memory, and the bounds within     *)
(* which the model follows it.                                             *)
Starts(worlds) ==
  \E world \in worlds :
    /\ cpu = AtFetch(world.registers)
    /\ memory = world.program
    /\ events = world.bounds

Cycles == NextCycle \/ EndPrefix \/ EndPlain \/ AcceptNmi \/ AcceptInt
Hosts  == HostResets \/ HostSets

(* The bound: the instructions the model follows are over. *)
Rests == events.left = 0 /\ UNCHANGED <<cpu, memory, events>>
=============================================================================
