----------------------------- MODULE MCToolchain -----------------------------
(***************************************************************************)
(* A byte of eight values, an address space of 64 bytes, and an instruction *)
(* of each kind there is: with no operand; with a byte and a word, cut by   *)
(* the grammar and not; a relative and an absolute jump, a call, a return;  *)
(* a second encoding; a restart and a bit, chosen by a number in the text;  *)
(* an index, an index and a byte, and an index in the middle of the opcode, *)
(* with a number in the text and without.                                   *)
(***************************************************************************)
EXTENDS Z80Toolchain

Plain_row(mnemo, opcode) ==
  [mnemo |-> mnemo, opcode |-> opcode, data |-> 0, selector |-> 0, reljmp |-> FALSE,
   indexed |-> FALSE, displaced |-> FALSE, duplicate |-> FALSE, branches |-> FALSE, stops |-> FALSE, vector |-> 0]

NOP   == Plain_row("NOP", <<0>>)
LoadA == [Plain_row("LD A, n", <<1>>) EXCEPT !.data = 1]
RET   == [Plain_row("RET", <<2>>) EXCEPT !.stops = TRUE]
JR    == [Plain_row("JR e", <<3>>) EXCEPT !.data = 1, !.reljmp = TRUE, !.branches = TRUE]
JP    == [Plain_row("JP nn", <<4>>) EXCEPT !.data = 2, !.branches = TRUE, !.stops = TRUE]
CALL  == [Plain_row("CALL nn", <<5>>) EXCEPT !.data = 2, !.branches = TRUE]
NEG   == Plain_row("NEG", <<6, 1>>)
NEG2  == [Plain_row("NEG", <<6, 2>>) EXCEPT !.duplicate = TRUE]
CP    == [Plain_row("CP n", <<6, 6>>) EXCEPT !.data = 1]
LoadHL == [Plain_row("LD HL, nn", <<6, 7>>) EXCEPT !.data = 2]
RST(target, byte) ==
  [Plain_row("RST", <<6, byte>>) EXCEPT !.selector = target, !.branches = TRUE, !.vector = target]
BIT(bit) == [Plain_row("BIT b, A", <<6, 4 + bit>>) EXCEPT !.selector = bit]
Indexed(mnemo, opcode) == [Plain_row(mnemo, opcode) EXCEPT !.data = 1, !.indexed = TRUE]
Displaced(mnemo, byte) == [Indexed(mnemo, <<7, 6, byte>>) EXCEPT !.displaced = TRUE]
LoadIX  == Indexed("LD A, [IX + d]", <<7, 2>>)
StoreIX == [Indexed("LD [IX + d], n", <<7, 1>>) EXCEPT !.data = 2]
RLC     == Displaced("RLC [IX + d]", 1)
BITIX(bit) == [Displaced("BIT b, [IX + d]", 2 + bit) EXCEPT !.selector = bit]

Table ==
  {NOP, LoadA, RET, JR, JP, CALL, NEG, NEG2, CP, LoadHL, LoadIX, StoreIX, RLC,
   RST(0, 0), RST(4, 3), BIT(0), BIT(1), BITIX(0), BITIX(1)}
Cut_ones == {"CP n", "JP nn", "CALL nn", "RST", "LD [IX + d], n"}

Plus(base, n) == [base |-> base, plus |-> n]
N(n) == Number(n)
Org(expr)        == [kind |-> "org", expr |-> expr]
Label(name)      == [kind |-> "label", name |-> name]
Equ(name, expr)  == [kind |-> "equ", name |-> name, expr |-> expr]
Db(exprs)        == [kind |-> "data", size |-> 1, exprs |-> exprs]
Dw(expr)         == [kind |-> "data", size |-> 2, exprs |-> <<expr>>]
Instruction(mnemo, select, sign, index, expr) ==
  [kind |-> "instr", mnemo |-> mnemo, select |-> select, minus |-> sign = "-", index |-> index,
   expr |-> expr]
Do(row, expr)    == Instruction(row.mnemo, N(0), "+", N(0), expr)
Choose(mnemo, select)     == Instruction(mnemo, select, "+", N(0), N(0))
At(row, sign, index, n)   == Instruction(row.mnemo, N(0), sign, index, n)
BitAt(select, index)      == Instruction("BIT b, [IX + d]", select, "+", index, N(0))

Here == Plus("here", 0)

Statements ==
  { Org(N(61)), Org(N(3)), Org(Plus("x", 2)), Org(N(64)), Label("x"), Label("y"), Label("a"),
    Equ("x", Plus("y", 1)), Equ("y", Here), Equ("y", Plus("origin", 2)), Db(<<N(1), Here>>),
    Db(<<N(8)>>), Dw(Plus("x", 0)), Do(LoadA, Plus("y", 0)), Do(JR, Plus("x", 0)),
    Do(JP, Plus("x", 1)), Do(CP, Plus("y", 7)), Choose("BIT b, A", Plus("x", -1)),
    BitAt(Plus("x", 0), Plus("y", -5)), Choose("RST", Plus("y", 2)), Choose("???", N(0)),
    At(StoreIX, "-", Plus("x", 1), Plus("y", 6)), [kind |-> "end"], [kind |-> "syntax error"] }

Filling(n) == Db([k \in 1 .. n |-> N(k % 8)])
Filled_to(n) == [k \in 1 .. n \div 8 |-> Filling(8)] \o <<Filling(n % 8)>>
Sources ==
  UNION {[1 .. n -> Statements] : n \in 0 .. 3}
  \union {<<Org(N(64 - n))>> \o Filled_to(n) : n \in 60 .. 64}
  \union {<<Org(N(60))>> \o Filled_to(5)}
  \union {<<Org(N(5)), Filling(m), Org(N(2)), Filling(n)>> : m, n \in {2, 5}}
  \union {<<Db(<<N(7)>>), Org(N(4)), Label("x"), Do(JR, Plus("x", 0)), Org(N(60)), Filling(4)>>,
          <<Equ("x", Plus("y", 0)), Equ("y", Plus("z", 0)), Label("z"), Dw(Plus("x", 0))>>,
          <<Equ("x", Plus("y", 0)), Label("y"), Do(JP, Plus("x", 0)), Label("z"), Do(CALL, Plus("z", 70))>>,
          <<Choose("RST", N(12)), Do(LoadHL, N(70))>>, <<Choose("RST", N(-4)), Choose("BIT b, A", N(8))>>}
  \union {<<At(row, sign, N(by), N(n))>> :
            row \in {LoadIX, StoreIX, RLC}, sign \in {"+", "-"}, by \in {-5, -4, 0, 4, 5, 7, 8},
            n \in {-64, -1, 0, 5, 8}}
  \union {<<Choose(mnemo, N(n))>> : mnemo \in {"RST", "BIT b, A"}, n \in {-4, 0, 1, 4, 7, 8, 12}}
  \union {<<Do(row, N(n))>> :
            row \in {LoadA, CP, LoadHL, JP}, n \in {-33, -32, -5, -4, 7, 8, 9, 63, 64, 65}}

(* Images put together from pieces of code, text and data. *)
Chunks ==
  { <<0>>, <<1, 2>>, <<2>>, <<3, 1>>, <<3, 4>>, <<4, 0, 0>>, <<4, 7, 0>>, <<5, 5, 0>>, <<6, 1>>,
    <<6, 2>>, <<6, 3>>, <<7, 6, 3, 1>>, <<7, 6, 6, 3>>, <<7, 1, 6, 2>>,
    <<7, 2, 7>>, <<6, 5>>, <<1, 2, 1>>, <<2, 1, 5>>, <<7>>, <<4, 3>> }
Pieced ==
  {Concat(chunks) : chunks \in UNION {[1 .. n -> Chunks] : n \in 0 .. 3}}

Filled_with(code, byte, n) == code \o [k \in 1 .. n |-> byte]
LongImages ==
  { Filled_with(<<2>>, 0, 60), Filled_with(<<2>>, 1, 63), Filled_with(<< >>, 0, 64),
    Filled_with(<<3, 6>>, 7, 30) }

Assemble(text) == [call |-> "assemble", source |-> text]
List(image, analyse) == [call |-> "list", image |-> image, analyse |-> analyse]
ListIt == [call |-> "list built", analyse |-> TRUE]
Again  == [call |-> "rebuild"]

Pairs ==
  { <<Org(N(2)), Label("x"), Do(JR, Plus("x", 0)), Db(<<N(1), N(2), N(1)>>)>>,
    <<Label("x"), Do(CALL, Plus("y", 0)), Do(RET, N(0)), Label("y"), Do(NEG, N(0)),
      Do(JP, Plus("x", 0)), Filling(3)>>,
    <<Label("y"), Equ("x", Plus("origin", 1)), Do(JP, Plus("x", 0))>>,
    <<Org(N(6)), Equ("x", Plus("y", 0)), [kind |-> "syntax error"]>>,
    <<Org(N(62)), Filling(2)>> }

ManySessions ==
  {<<Assemble(text)>> : text \in Sources}
  \union {<<List(image, analyse), Again>> : image \in Pieced \union LongImages, analyse \in BOOLEAN}
  \union {<<Assemble(one), Assemble(other), ListIt, Again>> : one, other \in Pairs}

(* A return and data up to the top of the address space. *)
LongSessions ==
  {<<List(Filled_with(<<2>>, byte, n), TRUE), Again>> : byte \in {0, 7}, n \in 50 .. 63}

(* A name that the number in an instruction's text refers to, defined       *)
(* behind it.                                                              *)
ForwardSessions ==
  {<<Assemble(<<Do(JP, Plus("x", 0)), Choose("BIT b, A", Plus("x", -by)), Do(NOP, N(0)), Label("x")>>)>> :
     by \in 0 .. 7}
=============================================================================
