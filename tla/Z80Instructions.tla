--------------------------- MODULE Z80Instructions ---------------------------
(***************************************************************************)
(* The instruction table and the decoder of the Z80 core (z80core.c).      *)
(*                                                                         *)
(* An instruction (struct z80_instr) is the list of machine cycles that    *)
(* follow its opcode fetch, and an effect.  Its name here is the name of   *)
(* its descriptor without the instr_ prefix; several opcodes share one     *)
(* descriptor.  The effects that the engine's properties tell apart        *)
(* (HALT, DI, EI, IM, RETN, LD A,I, the prefixes) are in Z80Engine.        *)
(***************************************************************************)
EXTENDS Z80Cycles

Byte == 0 .. 255

(* Short names for the cycles, so that a descriptor reads like a line of   *)
(* the manual's timing tables.                                             *)
Read  == "mem_read"
Write == "mem_write"
IoIn  == "io_read"
IoOut == "io_write"
Idle1 == "idle1"
Idle2 == "idle2"
Idle4 == "idle4"
Idle5 == "idle5"
Idle7 == "idle7"

(***************************************************************************)
(* The instructions, grouped as the source groups them.                    *)
(***************************************************************************)
FetchOnly ==     \* the instructions that are over when their fetch is
  {"nop", "halt", "ld_reg_reg", "alu_reg", "inc_reg", "dec_reg", "rotate_a",
   "daa", "cpl", "scf", "ccf", "ex_de_hl", "ex_af", "exx", "jp_hl", "di", "ei",
   "prefix", "cb_reg", "ed_neg", "ed_im", "ed_nop"}

IndexedInstrs == {"index_ld_reg_mem", "index_ld_mem_reg", "index_alu_mem",
   "index_ld_mem_n", "index_inc_mem", "index_dec_mem", "index_cb"}

EdInstrs == {"ed_adc_hl", "ed_sbc_hl", "ed_ld_i_a", "ed_ld_r_a", "ed_ld_a_i",
   "ed_ld_a_r", "ed_retn", "ed_in_c", "ed_out_c", "ed_ld_nn_rp", "ed_ld_rp_nn",
   "ed_rrd", "ed_rld"}

BlockInstrs == {"ed_block_transfer", "ed_block_compare", "ed_block_in",
   "ed_block_out"}

LoadInstrs == {"ld_reg_immediate", "ld_reg_from_hl", "ld_hl_from_reg",
   "ld_hl_n", "ld_a_bc", "ld_a_de", "ld_bc_a", "ld_de_a", "ld_a_nn", "ld_nn_a",
   "ld_rp_nn", "ld_nn_hl", "ld_hl_nn", "ld_sp_hl", "push", "pop", "ex_sp_hl"}

ArithmeticInstrs == {"alu_mem", "alu_n", "inc_mem", "dec_mem", "inc_rp",
   "dec_rp", "add_hl_rp", "cb_mem", "cb_bit_mem"}

ControlInstrs == {"jump", "jp_cc", "jr", "jr_cc", "djnz", "call", "call_cc",
   "ret", "ret_cc", "rst", "in_a_n", "out_n_a"}

InterruptSequences == {"nmi", "interrupt", "interrupt_mode2"}

Instrs == FetchOnly \union IndexedInstrs \union EdInstrs \union BlockInstrs
          \union LoadInstrs \union ArithmeticInstrs \union ControlInstrs
          \union InterruptSequences

(***************************************************************************)
(* The machine cycles of each instruction after its fetch.                 *)
(***************************************************************************)
IndexedCycles(n) ==
  CASE n \in {"index_ld_reg_mem", "index_alu_mem"} -> <<Read, Idle5, Read>>
    [] n = "index_ld_mem_reg"                      -> <<Read, Idle5, Write>>
    [] n = "index_ld_mem_n"                        -> <<Read, Read, Idle2, Write>>
    [] n \in {"index_inc_mem", "index_dec_mem"}    -> <<Read, Idle5, Read, Idle1, Write>>
    [] n = "index_cb"                              -> <<Read, Read, Idle2, Read, Idle1, Write>>

EdCycles(n) ==
  CASE n \in {"ed_adc_hl", "ed_sbc_hl"}                           -> <<Idle7>>
    [] n \in {"ed_ld_i_a", "ed_ld_r_a", "ed_ld_a_i", "ed_ld_a_r"} -> <<Idle1>>
    [] n = "ed_retn"                                              -> <<Read, Read>>
    [] n = "ed_in_c"                                              -> <<IoIn>>
    [] n = "ed_out_c"                                             -> <<IoOut>>
    [] n = "ed_ld_nn_rp"                              -> <<Read, Read, Write, Write>>
    [] n = "ed_ld_rp_nn"                              -> <<Read, Read, Read, Read>>
    [] n \in {"ed_rrd", "ed_rld"}                     -> <<Read, Idle4, Write>>

(* The last cycle of a block instruction is its repeat: the five T-states  *)
(* an LDIR pays on every pass but its last.                                *)
BlockCycles(n) ==
  CASE n = "ed_block_transfer" -> <<Read, Write, Idle2, Idle5>>
    [] n = "ed_block_compare"  -> <<Read, Idle5, Idle5>>
    [] n = "ed_block_in"       -> <<Idle1, IoIn, Write, Idle5>>
    [] n = "ed_block_out"      -> <<Idle1, Read, IoOut, Idle5>>

LoadCycles(n) ==
  CASE n \in {"ld_reg_immediate", "ld_reg_from_hl", "ld_a_bc", "ld_a_de"} -> <<Read>>
    [] n \in {"ld_hl_from_reg", "ld_bc_a", "ld_de_a"} -> <<Write>>
    [] n = "ld_hl_n"                                  -> <<Read, Write>>
    [] n = "ld_a_nn"                                  -> <<Read, Read, Read>>
    [] n = "ld_nn_a"                                  -> <<Read, Read, Write>>
    [] n \in {"ld_rp_nn", "pop"}                      -> <<Read, Read>>
    [] n = "ld_nn_hl"                                 -> <<Read, Read, Write, Write>>
    [] n = "ld_hl_nn"                                 -> <<Read, Read, Read, Read>>
    [] n = "ld_sp_hl"                                 -> <<Idle2>>
    [] n = "push"                                     -> <<Idle1, Write, Write>>
    [] n = "ex_sp_hl"                         -> <<Read, Read, Idle1, Write, Write, Idle2>>

ArithmeticCycles(n) ==
  CASE n \in {"alu_mem", "alu_n"}             -> <<Read>>
    [] n \in {"inc_mem", "dec_mem", "cb_mem"} -> <<Read, Idle1, Write>>
    [] n = "cb_bit_mem"                       -> <<Read, Idle1>>
    [] n \in {"inc_rp", "dec_rp"}             -> <<Idle2>>
    [] n = "add_hl_rp"                        -> <<Idle7>>

ControlCycles(n) ==
  CASE n \in {"jump", "jp_cc", "ret"} -> <<Read, Read>>
    [] n \in {"jr", "jr_cc"}          -> <<Read, Idle5>>
    [] n = "djnz"                     -> <<Idle1, Read, Idle5>>
    [] n \in {"call", "call_cc"}      -> <<Read, Read, Idle1, Write, Write>>
    [] n = "ret_cc"                   -> <<Idle1, Read, Read>>
    [] n = "rst"                      -> <<Idle1, Write, Write>>
    [] n = "in_a_n"                   -> <<Read, IoIn>>
    [] n = "out_n_a"                  -> <<Read, IoOut>>

InterruptCycles(n) ==
  CASE n = "nmi"             -> <<"nmi_ack", Write, Write>>
    [] n = "interrupt"       -> <<"int_ack", Write, Write>>
    [] n = "interrupt_mode2" -> <<"int_ack", Write, Write, Read, Read>>

CyclesOf ==
  [n \in Instrs |->
     CASE n \in FetchOnly          -> << >>
       [] n \in IndexedInstrs      -> IndexedCycles(n)
       [] n \in EdInstrs           -> EdCycles(n)
       [] n \in BlockInstrs        -> BlockCycles(n)
       [] n \in LoadInstrs         -> LoadCycles(n)
       [] n \in ArithmeticInstrs   -> ArithmeticCycles(n)
       [] n \in ControlInstrs      -> ControlCycles(n)
       [] n \in InterruptSequences -> InterruptCycles(n)]

(***************************************************************************)
(* The decoder.  x is bits 7-6 of the opcode, y bits 5-3, z bits 2-0.      *)
(***************************************************************************)
X(opcode) == opcode \div 64
Y(opcode) == (opcode \div 8) % 8
Z(opcode) == opcode % 8

DecodeX0(y, z) ==
  CASE z = 0 -> <<"nop", "ex_af", "djnz", "jr", "jr_cc", "jr_cc", "jr_cc", "jr_cc">>[y + 1]
    [] z = 1 -> IF y % 2 = 1 THEN "add_hl_rp" ELSE "ld_rp_nn"
    [] z = 2 -> <<"ld_bc_a", "ld_a_bc", "ld_de_a", "ld_a_de",
                  "ld_nn_hl", "ld_hl_nn", "ld_nn_a", "ld_a_nn">>[y + 1]
    [] z = 3 -> IF y % 2 = 1 THEN "dec_rp" ELSE "inc_rp"
    [] z = 4 -> IF y = 6 THEN "inc_mem" ELSE "inc_reg"
    [] z = 5 -> IF y = 6 THEN "dec_mem" ELSE "dec_reg"
    [] z = 6 -> IF y = 6 THEN "ld_hl_n" ELSE "ld_reg_immediate"
    [] z = 7 -> <<"rotate_a", "rotate_a", "rotate_a", "rotate_a",
                  "daa", "cpl", "scf", "ccf">>[y + 1]

DecodeX1(y, z) ==
  CASE y = 6 /\ z = 6 -> "halt"
    [] y # 6 /\ z = 6 -> "ld_reg_from_hl"
    [] y = 6 /\ z # 6 -> "ld_hl_from_reg"
    [] y # 6 /\ z # 6 -> "ld_reg_reg"

DecodeX3(y, z) ==
  CASE z = 0 -> "ret_cc"
    [] z = 1 -> <<"pop", "ret", "pop", "exx", "pop", "jp_hl", "pop", "ld_sp_hl">>[y + 1]
    [] z = 2 -> "jp_cc"
    [] z = 3 -> <<"jump", "prefix", "out_n_a", "in_a_n",
                  "ex_sp_hl", "ex_de_hl", "di", "ei">>[y + 1]
    [] z = 4 -> "call_cc"
    [] z = 5 -> IF y % 2 = 0 THEN "push" ELSE IF y = 1 THEN "call" ELSE "prefix"
    [] z = 6 -> "alu_n"
    [] z = 7 -> "rst"

DecodeBase(opcode) ==
  LET y == Y(opcode)
      z == Z(opcode)
  IN CASE X(opcode) = 0 -> DecodeX0(y, z)
       [] X(opcode) = 1 -> DecodeX1(y, z)
       [] X(opcode) = 2 -> IF z = 6 THEN "alu_mem" ELSE "alu_reg"
       [] X(opcode) = 3 -> DecodeX3(y, z)

DecodeCb(opcode) ==
  IF Z(opcode) # 6 THEN "cb_reg"
  ELSE IF X(opcode) = 1 THEN "cb_bit_mem" ELSE "cb_mem"

DecodeEdX1(y, z) ==
  CASE z = 0 -> "ed_in_c"
    [] z = 1 -> "ed_out_c"
    [] z = 2 -> IF y % 2 = 1 THEN "ed_adc_hl" ELSE "ed_sbc_hl"
    [] z = 3 -> IF y % 2 = 1 THEN "ed_ld_rp_nn" ELSE "ed_ld_nn_rp"
    [] z = 4 -> "ed_neg"
    [] z = 5 -> "ed_retn"
    [] z = 6 -> "ed_im"
    [] z = 7 -> <<"ed_ld_i_a", "ed_ld_r_a", "ed_ld_a_i", "ed_ld_a_r",
                  "ed_rrd", "ed_rld", "ed_nop", "ed_nop">>[y + 1]

DecodeEd(opcode) ==
  LET y == Y(opcode)
      z == Z(opcode)
  IN IF X(opcode) = 2 /\ z <= 3 /\ y >= 4
     THEN <<"ed_block_transfer", "ed_block_compare",
            "ed_block_in", "ed_block_out">>[z + 1]
     ELSE IF X(opcode) = 1 THEN DecodeEdX1(y, z) ELSE "ed_nop"

(* Under DD or FD only the encodings that name (HL) as memory change shape; *)
(* 76 stays HALT, and another prefix byte is a prefix again.                *)
DecodeIndexed(opcode) ==
  LET x == X(opcode)
      y == Y(opcode)
      z == Z(opcode)
  IN CASE opcode = 203                       -> "index_cb"
       [] opcode \in {221, 237, 253}         -> "prefix"
       [] x = 0 /\ y = 6 /\ z = 4            -> "index_inc_mem"
       [] x = 0 /\ y = 6 /\ z = 5            -> "index_dec_mem"
       [] x = 0 /\ y = 6 /\ z = 6            -> "index_ld_mem_n"
       [] x = 1 /\ y # 6 /\ z = 6            -> "index_ld_reg_mem"
       [] x = 1 /\ y = 6 /\ z # 6            -> "index_ld_mem_reg"
       [] x = 2 /\ z = 6                     -> "index_alu_mem"
       [] OTHER                              -> DecodeBase(opcode)

(* Which table the byte just fetched is read against. *)
CB == 203
DD == 221
ED == 237
FD == 253

Decode(opcode, prefix, index) ==
  IF prefix = ED THEN DecodeEd(opcode)
  ELSE IF prefix = CB THEN DecodeCb(opcode)
  ELSE IF index # 0 THEN DecodeIndexed(opcode)
  ELSE DecodeBase(opcode)

(***************************************************************************)
(* end_instruction_here: what the exit hook of cycle c of instruction n    *)
(* may answer to "does the instruction end after this cycle?".  A          *)
(* condition depends on flags and counters the model leaves out, so it may *)
(* answer either way; a block instruction that does not repeat (bit 4 of   *)
(* the opcode clear) always ends, and BIT b,(IX+d) never writes back.      *)
(***************************************************************************)
ConditionCycle ==
  {<<"jr_cc", 0>>, <<"djnz", 1>>, <<"call_cc", 1>>, <<"ret_cc", 0>>}

BlockDecisionCycle ==
  {<<"ed_block_transfer", 2>>, <<"ed_block_compare", 1>>,
   <<"ed_block_in", 2>>, <<"ed_block_out", 2>>}

EndsHere(n, c, opcode) ==
  CASE <<n, c>> \in ConditionCycle     -> BOOLEAN
    [] <<n, c>> \in BlockDecisionCycle -> IF (opcode \div 16) % 2 = 0
                                          THEN {TRUE} ELSE BOOLEAN
    [] <<n, c>> = <<"index_cb", 4>>    -> {X(opcode) = 1}
    [] OTHER                           -> {FALSE}
=============================================================================
