---------------------------- MODULE Z80Assembler ----------------------------
(***************************************************************************)
(* The assembler (src/asmdasm/assembler.c, src/grammar/z80.y): two passes   *)
(* over a source, one statement a step, and what zasm_assemble hands back.  *)
(*                                                                         *)
(* A statement is what the grammar hands to a semantic action, a label     *)
(* before an instruction a statement of its own.  An instruction has the    *)
(* text of its mnemonic and registers (mnemo) and up to three expressions:  *)
(* select goes into the text by which its row is looked up (the bit of BIT, *)
(* the mode of IM, the target of RST), index is what is added to or, with   *)
(* minus, taken from IX or IY, and expr is the operand.  The grammar's      *)
(* number for one that is absent is 0.                                     *)
(*                                                                         *)
(* A byte has ByteSize values and a word ByteSize squared of them, 256 and  *)
(* 65536 in the program: the address space keeps its proportions while TLC  *)
(* can fill it.                                                            *)
(***************************************************************************)
EXTENDS Integers, Sequences, SequencesExt, FiniteSets

CONSTANTS
  ByteSize,     \* how many values a byte has
  OpcodeTable,  \* opcode_tab: one record for each mnemonic with its operands
  Capped,       \* the mnemonics whose rule in the grammar has UNSIGN8 or UNSIGN16
  Reserved      \* the names the scanner reads as a register or a mnemonic

ASSUME AssemblerAssumption ==
  /\ ByteSize \in Nat /\ ByteSize >= 4 /\ ByteSize % 2 = 0
  /\ \A row \in OpcodeTable :
       /\ row.opcode \in Seq(0 .. ByteSize - 1) /\ row.opcode # << >>
       /\ row.data \in 0 .. 2
       /\ row.selector \in Int
       /\ row.displaced => row.indexed /\ row.data = 1
       /\ row.reljmp => row.data = 1 /\ ~row.indexed

VARIABLES
  asm,      \* the assembler's globals: PC, prog[], the labels and the rest
  source,   \* the statements of the source
  line      \* the statement the parser is at

assembler == <<asm, source, line>>

Bytes    == 0 .. ByteSize - 1
WordSize == ByteSize * ByteSize
Words    == 0 .. WordSize - 1
Top      == WordSize - 1

(* INTMAX_MIN, which no expression comes to: an EQU not evaluated yet. *)
Unresolved == -WordSize * WordSize
NoLabels   == [name \in {} |-> 0]
Known(a, name) == name \in DOMAIN a.labels /\ a.labels[name].address # Unresolved

-----------------------------------------------------------------------------
(* Pass 1 knows too little to complain; what it finds is found again. *)
error_print(a)       == [a EXCEPT !.semantic_errors = @ \/ a.run_pass = 2]
error_print_early(a) == [a EXCEPT !.semantic_errors = @ \/ a.run_pass = 1]
Complain(a, wrong)   == IF wrong THEN error_print(a) ELSE a

(* A byte at the top of the address space is legal, but the cursor stays on *)
(* it, and the next byte has nowhere to go.                                *)
emit_byte(a, byte) ==
  IF a.address_overflow THEN error_print(a)
  ELSE [a EXCEPT !.prog[a.PC] = byte,
                 !.prog_end = IF a.PC + 1 > @ THEN a.PC + 1 ELSE @,
                 !.address_overflow = a.PC = Top,
                 !.PC = IF a.PC = Top THEN @ ELSE @ + 1]

Emitted(a, bytes) == FoldLeft(emit_byte, a, bytes)

Low(value)  == value % ByteSize
High(value) == (value \div ByteSize) % ByteSize
Parts(value, size) ==
  CASE size = 0 -> << >> [] size = 1 -> <<Low(value)>> [] size = 2 -> <<Low(value), High(value)>>

(* The signed and the unsigned reading of a field are both taken. *)
Fits(value, size) ==
  CASE size = 1 -> value \in -(ByteSize \div 2) .. ByteSize - 1
    [] size = 2 -> value \in -(WordSize \div 2) .. Top
diagnose_operand_range(a, value, size) == Complain(a, ~Fits(value, size))

-----------------------------------------------------------------------------
(* Expressions: a number, $ or $$, or a name, and something added to it.   *)
get_label_address(a, name) == IF Known(a, name) THEN a.labels[name].address ELSE 0

Named(expr) == expr.base \notin {"number", "here", "origin"}
Value(a, expr) ==
  expr.plus + CASE expr.base = "number" -> 0
                [] expr.base = "here"   -> a.PC
                [] expr.base = "origin" -> a.CURRENT_ORG
                [] OTHER                -> get_label_address(a, expr.base)

(* label_unresolved, which in pass 2 is an error. *)
Undefined(a, expr)  == Named(expr) /\ ~Known(a, expr.base)
Evaluated(a, exprs) == Complain(a, \E k \in DOMAIN exprs : Undefined(a, exprs[k]))

set_origin(a, address) ==
  IF address \notin Words THEN error_print(a)
  ELSE [a EXCEPT !.CURRENT_ORG = address, !.PC = address, !.address_overflow = FALSE,
                 !.PROG_START = IF address < @ THEN address ELSE @]

(* A name is defined once in each pass; the second time settles what the    *)
(* first could not evaluate.                                               *)
add_label(a, name, address) ==
  IF name \in Reserved THEN error_print_early(a)
  ELSE IF name \in DOMAIN a.labels
  THEN IF a.labels[name].pass_defined = a.run_pass THEN error_print(a)
       ELSE [a EXCEPT !.labels[name] =
               [address |-> IF address = Unresolved THEN @.address ELSE address,
                pass_defined |-> a.run_pass]]
  ELSE [a EXCEPT !.labels = [known \in DOMAIN @ \union {name} |->
          IF known = name THEN [address |-> address, pass_defined |-> a.run_pass]
          ELSE @[known]]]

define_constant(a, name, expr) ==
  add_label(Evaluated(a, <<expr>>), name,
            IF Undefined(a, expr) THEN Unresolved ELSE Value(a, expr))

(* DEFB, DEFW and DEFM: $ stays where the directive began. *)
define_data(a, size, exprs) ==
  LET cursor(b, expr) == Emitted(diagnose_operand_range(b, Value(a, expr), size),
                                 Parts(Value(a, expr), size))
  IN FoldLeft(cursor, Evaluated(a, exprs), exprs)

-----------------------------------------------------------------------------
(* UNSIGN8 and UNSIGN16 cut off at the top what is too large; a negative    *)
(* number they let pass.                                                   *)
Cut(value, size) ==
  LET most == IF size = 1 THEN ByteSize - 1 ELSE Top
  IN IF value > most THEN most ELSE value

(* The number in the text that is looked up, of RST as two digits.          *)
Selector(a, statement) ==
  LET value == Value(a, statement.select)
  IN IF statement.mnemo \in Capped THEN Cut(value, 1) % ByteSize ELSE value

find_opcode(a, statement) ==
  {row \in OpcodeTable : /\ row.mnemo = statement.mnemo
                         /\ row.selector = Selector(a, statement)
                         /\ ~row.duplicate}

Displacement(a, statement) ==
  IF statement.minus THEN -Value(a, statement.index) ELSE Value(a, statement.index)

(* LD (IX+d), n: both in one word.  DD36 and FD36 are the only such rows.   *)
Packed(row) == row.indexed /\ row.data = 2

(* What the grammar makes of the operand: a jump is relative to the byte    *)
(* after its two.                                                          *)
Operand(a, row, statement) ==
  LET value == Value(a, statement.expr)
  IN CASE row.reljmp  -> value - a.PC - 2
       [] Packed(row) -> ByteSize * (Cut(value, 1) % WordSize) + Low(Displacement(a, statement))
       [] row.indexed /\ ~Packed(row) -> Displacement(a, statement)
       [] OTHER -> IF statement.mnemo \in Capped THEN Cut(value, row.data) ELSE value

OutOfReach(data) == data \notin -(ByteSize \div 2) .. (ByteSize \div 2) - 1

(* DD CB d op has its displacement in front of its last byte. *)
Encoding(row, data) ==
  IF row.displaced
  THEN Front(row.opcode) \o <<Low(data)>> \o <<Last(row.opcode)>>
  ELSE row.opcode \o Parts(data, row.data)

(* Either pass gives up at an index out of range, which is looked at before *)
(* its sign is; pass 2 at a text that has no row, and at a relative jump    *)
(* that does not reach.                                                    *)
Refused(a, statement) ==
  \/ ~Fits(Value(a, statement.index), 1)
  \/ /\ a.run_pass = 2
     /\ \/ find_opcode(a, statement) = {}
        \/ \E row \in find_opcode(a, statement) :
             row.reljmp /\ OutOfReach(Operand(a, row, statement))

Expressions(statement) == <<statement.select, statement.index, statement.expr>>

(* Mutant: pass 1 leaves out an operand it cannot evaluate. *)
handle_instruction_short(a, row, statement) ==
  IF a.run_pass = 1 /\ Undefined(a, statement.expr) THEN Emitted(a, row.opcode)
  ELSE LET data  == IF a.run_pass = 1 THEN 0 ELSE Operand(a, row, statement)
           wrong == row.data > 0 /\ ~row.reljmp /\ ~Fits(data, row.data)
       IN Emitted(Complain(a, wrong), Encoding(row, data))

(* An operand that does not fit is complained about and emitted all the     *)
(* same: dropping its bytes would move every later label.                  *)
handle_instruction(a, row, statement) ==
  LET data  == IF a.run_pass = 1 THEN 0 ELSE Operand(a, row, statement)
      wrong == row.data > 0 /\ ~row.reljmp /\ ~Fits(data, row.data)
  IN Emitted(Complain(a, wrong), Encoding(row, data))

-----------------------------------------------------------------------------
(***************************************************************************)
(* run_passes.                                                             *)
(***************************************************************************)
Parsing   == asm.run_pass \in {1, 2} /\ line <= Len(source)
Statement == source[line]

Advance == line' = line + 1 /\ UNCHANGED source
Give_up == /\ asm' = [asm EXCEPT !.run_pass = 0, !.assembled = FALSE]
           /\ UNCHANGED <<source, line>>

SetOrigin ==
  /\ Parsing /\ Statement.kind = "org"
  /\ asm' = set_origin(Evaluated(asm, <<Statement.expr>>), Value(asm, Statement.expr))
  /\ Advance

Define ==
  /\ Parsing /\ Statement.kind = "label"
  /\ asm' = add_label(asm, Statement.name, asm.PC)
  /\ Advance

Equate ==
  /\ Parsing /\ Statement.kind = "equ"
  /\ asm' = define_constant(asm, Statement.name, Statement.expr)
  /\ Advance

EmitData ==
  /\ Parsing /\ Statement.kind = "data"
  /\ asm' = define_data(asm, Statement.size, Statement.exprs)
  /\ Advance

EmitInstruction ==
  /\ Parsing /\ Statement.kind = "instr" /\ ~Refused(asm, Statement)
  /\ \E row \in find_opcode(asm, Statement) :
       asm' = handle_instruction(Evaluated(asm, Expressions(Statement)), row, Statement)
  /\ Advance

(* Pass 1 passes over a text it does not find, and leaves no room for it;   *)
(* the number in the text may be another one in pass 2.                    *)
PassOver ==
  /\ Parsing /\ Statement.kind = "instr" /\ ~Refused(asm, Statement)
  /\ find_opcode(asm, Statement) = {}
  /\ asm' = Evaluated(asm, Expressions(Statement))
  /\ Advance

(* .end: nothing behind it is read. *)
EndOfSource ==
  /\ Parsing /\ Statement.kind = "end"
  /\ line' = Len(source) + 1
  /\ UNCHANGED <<asm, source>>

(* YYABORT, or a line the grammar does not know. *)
Abort ==
  /\ Parsing
  /\ \/ Statement.kind = "instr" /\ Refused(asm, Statement)
     \/ Statement.kind = "syntax error"
  /\ Give_up

(* The second pass starts at 0 again; the origin, the labels and prog[] are *)
(* what the first one left.                                                *)
SecondPass ==
  /\ asm.run_pass = 1 /\ line > Len(source)
  /\ asm' = [asm EXCEPT !.run_pass = 2, !.PC = 0, !.prog_end = 0, !.address_overflow = FALSE]
  /\ line' = 1
  /\ UNCHANGED source

(* The image is good if nobody has complained.  Top marks that no origin    *)
(* was given.                                                              *)
Finish ==
  /\ asm.run_pass = 2 /\ line > Len(source)
  /\ asm' = [asm EXCEPT !.run_pass = 0, !.assembled = ~asm.semantic_errors,
                        !.PROG_START = IF @ = Top /\ ~asm.semantic_errors THEN 0 ELSE @]
  /\ UNCHANGED <<source, line>>

Assembles ==
  \/ SetOrigin \/ Define \/ Equate \/ EmitData \/ EmitInstruction \/ PassOver
  \/ EndOfSource \/ Abort \/ SecondPass \/ Finish

(* Entry: everything but prog[] starts anew. *)
Started(a) ==
  [a EXCEPT !.run_pass = 1, !.PC = 0, !.CURRENT_ORG = 0, !.PROG_START = Top,
            !.prog_end = 0, !.address_overflow = FALSE, !.semantic_errors = FALSE,
            !.labels = NoLabels, !.assembled = FALSE]

(* Static storage: prog[] is all zeroes when the program starts. *)
Unused ==
  [run_pass |-> 0, PC |-> 0, CURRENT_ORG |-> 0, PROG_START |-> Top,
   prog |-> [address \in Words |-> 0], prog_end |-> 0, address_overflow |-> FALSE,
   semantic_errors |-> FALSE, labels |-> NoLabels, assembled |-> FALSE]

BeginAssembly(statements) ==
  /\ asm' = Started(asm)
  /\ source' = statements
  /\ line' = 1

(* What the formats are given: BIN is prog[] from 0 to prog_end, TAP and    *)
(* IHEX what lies between PROG_START and prog_end.                         *)
Image(a)   == [k \in 1 .. a.prog_end |-> a.prog[k - 1]]
Payload(a) == IF a.prog_end > a.PROG_START
              THEN [k \in 1 .. a.prog_end - a.PROG_START |-> a.prog[a.PROG_START + k - 1]]
              ELSE << >>
=============================================================================
