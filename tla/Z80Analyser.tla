----------------------------- MODULE Z80Analyser -----------------------------
(***************************************************************************)
(* From bytes to source: one instruction decoded (src/asmdasm/zdasm.c), the *)
(* code of an image found by following control flow and the rest divided    *)
(* into text and data (src/asmdasm/zdasm_analyse.c), and the listing that   *)
(* zasm -d prints (src/asmdasm/dassembler.c).                               *)
(*                                                                         *)
(* An image is a sequence of bytes, the first of them at address 0.  What   *)
(* is printed is the statement that the assembler reads, so that a listing  *)
(* is a source.  The rows of OpcodeTable carry, besides what the assembler  *)
(* reads, branches, stops and vector, where RST goes.                       *)
(***************************************************************************)
EXTENDS Z80Assembler, TLC

CONSTANTS
  Printable,     \* the bytes that can be text
  Escaped,       \* those that the listing prints as two characters
  StringMinimum, \* ZDASM_STRING_MINIMUM, 6 in the program
  StringChunk,   \* STRING_CHUNK, 48 in the program
  DataChunk,     \* the bytes of one defb line, 8 in the program
  Rooms,         \* the rooms that callers of zdasm_analyse have for the regions
  MaxLines       \* bound: a listing is recorded no further

ASSUME AnalyserAssumption ==
  /\ Printable \subseteq 1 .. ByteSize \div 2 - 1 /\ Escaped \subseteq Printable
  /\ StringMinimum \in Nat \ {0, 1} /\ StringChunk \in Nat \ {0}
  /\ DataChunk \in Nat \ {0} /\ WordSize % DataChunk = 0
  /\ Rooms \subseteq Nat
  /\ \A row \in OpcodeTable :
       /\ \A flag \in {row.branches, row.stops, row.reljmp, row.indexed, row.displaced} :
            flag \in BOOLEAN
       /\ row.branches /\ ~row.reljmp => row.data # 1
       /\ row.vector \in Nat

VARIABLE dis   \* the disassembler: its image, the tracer's and the printer's state

Size(image) == Len(image)
Byte(image, address) == image[address + 1]
Signed(byte) == IF byte >= ByteSize \div 2 THEN byte - ByteSize ELSE byte

-----------------------------------------------------------------------------
(***************************************************************************)
(* zdasm_decode: the row whose bytes are here, if all of them are.          *)
(***************************************************************************)
Length(row) == Len(row.opcode) + row.data

(* Where the k-th byte of the opcode is: a displacement is before the last. *)
Place(row, k) == IF row.displaced /\ k = Len(row.opcode) THEN k ELSE k - 1

Matches(row, image, pc) ==
  /\ pc + Length(row) <= Size(image)
  /\ \A k \in DOMAIN row.opcode : Byte(image, pc + Place(row, k)) = row.opcode[k]

OperandAt(row, image, pc) ==
  LET first == pc + Length(row) - row.data - (IF row.displaced THEN 1 ELSE 0)
  IN CASE row.data = 0 -> 0
       [] row.data = 1 -> Byte(image, first)
       [] row.data = 2 -> Byte(image, first) + ByteSize * Byte(image, first + 1)

TargetAt(row, image, pc) ==
  IF ~row.branches THEN 0
  ELSE CASE row.reljmp   -> (pc + Length(row) + Signed(OperandAt(row, image, pc))) % WordSize
         [] row.data = 2 -> OperandAt(row, image, pc)
         [] OTHER        -> row.vector

Number(value) == [base |-> "number", plus |-> value]
DefByte(bytes) ==
  [kind |-> "data", size |-> 1, exprs |-> [k \in DOMAIN bytes |-> Number(bytes[k])]]

emit_defb(pc, byte) ==
  [address |-> pc, length |-> 1, known |-> FALSE, branches |-> FALSE, target |-> 0,
   continues |-> FALSE, text |-> DefByte(<<byte>>)]

(* Mutant: a relative jump prints its displacement. *)
Shown_raw(row, image, pc) == OperandAt(row, image, pc)

(* A relative jump prints where it lands. *)
Shown(row, image, pc) ==
  IF row.reljmp THEN TargetAt(row, image, pc) ELSE OperandAt(row, image, pc)

(* The text of a row with its operand, as the assembler reads it.          *)
Listed(row, operand) ==
  [kind |-> "instr", mnemo |-> row.mnemo, select |-> Number(row.selector), minus |-> FALSE,
   index |-> Number(IF row.indexed THEN Low(operand) ELSE 0),
   expr  |-> Number(IF Packed(row) THEN High(operand) ELSE IF row.indexed THEN 0 ELSE operand)]

zdasm_decode(image, pc) ==
  LET found == {[address |-> pc, length |-> Length(row), known |-> TRUE,
                 branches |-> row.branches, target |-> TargetAt(row, image, pc),
                 continues |-> ~row.stops,
                 text |-> Listed(row, Shown(row, image, pc))] :
                  row \in {r \in OpcodeTable : Matches(r, image, pc)}}
  IN IF found = {} THEN emit_defb(pc, Byte(image, pc)) ELSE CHOOSE insn \in found : TRUE

-----------------------------------------------------------------------------
(***************************************************************************)
(* trace: what control flow reaches from the entries.  pc is Nowhere        *)
(* between two items of the work list.                                     *)
(***************************************************************************)
Nowhere == -1
Inside(image, address) == address < Size(image)

Tracing == dis.stage = "trace"
Running == Tracing /\ dis.pc # Nowhere

(* Mutant: what has been seen is followed again. *)
Traceable_again(d, pc) == Inside(d.image, pc) /\ zdasm_decode(d.image, pc).known

(* Only what has not been seen, and decodes, is followed. *)
Traceable(d, pc) ==
  /\ Inside(d.image, pc)
  /\ pc \notin d.code
  /\ zdasm_decode(d.image, pc).known

Pop ==
  /\ Tracing /\ dis.pc = Nowhere /\ dis.work # << >>
  /\ dis' = [dis EXCEPT !.pc = Last(dis.work), !.work = Front(@)]

Marked(d, insn) == d.code \union (insn.address .. insn.address + insn.length - 1)

(* Mutant: a conditional jump is taken to be the end of its stretch. *)
Onward_not(insn) ==
  IF insn.continues /\ ~insn.branches THEN (insn.address + insn.length) % WordSize ELSE Nowhere

Onward(insn) == IF insn.continues THEN (insn.address + insn.length) % WordSize ELSE Nowhere

Follow ==
  /\ Running /\ Traceable(dis, dis.pc)
  /\ \E insn \in {zdasm_decode(dis.image, dis.pc)} :
       LET code == Marked(dis, insn)
           away == insn.branches /\ Inside(dis.image, insn.target) /\ insn.target \notin code
       IN dis' = [dis EXCEPT !.code = code, !.pc = Onward(insn),
                    !.work = IF away THEN Append(@, insn.target) ELSE @]

LoseTrace ==
  /\ Running /\ ~Traceable(dis, dis.pc)
  /\ dis' = [dis EXCEPT !.pc = Nowhere]

-----------------------------------------------------------------------------
(***************************************************************************)
(* zdasm_analyse: the image divided into code, strings and data.            *)
(***************************************************************************)
(* A byte that a string may reach: it goes no further than the stretch that *)
(* is not code.                                                            *)
Loose(image, code, at) == Inside(image, at) /\ at \notin code

(* The printable bytes from start on; and whether a byte with its top bit   *)
(* set ends them, which counts as one of them.                             *)
Letters(image, code, start) ==
  LET text(at) == Loose(image, code, at) /\ Byte(image, at) \in Printable
  IN CHOOSE n \in 0 .. Size(image) :
       ~text(start + n) /\ \A k \in 0 .. n - 1 : text(start + k)
Terminates(image, code, at) ==
  /\ Loose(image, code, at)
  /\ Byte(image, at) >= ByteSize \div 2
  /\ Byte(image, at) - ByteSize \div 2 \in Printable

string_run(image, code, start) ==
  LET n     == Letters(image, code, start)
      extra == IF Terminates(image, code, start + n) THEN 1 ELSE 0
  IN IF n = 0 \/ n < StringMinimum - extra THEN 0 ELSE n + extra

CodeRun(image, code, start) ==
  CHOOSE n \in 1 .. Size(image) :
    /\ start .. start + n - 1 \subseteq code
    /\ start + n \notin code

(* One turn of the loop; the cursor moves by span, which is not cut. *)
Piece(image, code, at) ==
  LET text == string_run(image, code, at)
  IN CASE at \in code -> [start |-> at, span |-> CodeRun(image, code, at), kind |-> "code"]
       [] at \notin code /\ text > 0 -> [start |-> at, span |-> text, kind |-> "string"]
       [] OTHER -> [start |-> at, span |-> 1, kind |-> "data"]

(* The last region is kept apart from the caller's array, so that merging   *)
(* goes on when that is full.                                              *)
Plenty   == WordSize
NoRegion == [start |-> 0, length |-> 0, kind |-> "none"]
Builder(capacity) == [out |-> << >>, capacity |-> capacity, count |-> 0, last |-> NoRegion]

flush(b) ==
  IF b.last.kind = "none" THEN b
  ELSE [b EXCEPT !.out = IF b.count < b.capacity THEN Append(@, b.last) ELSE @,
                 !.count = @ + 1, !.last = NoRegion]

(* Like regions that touch are one, but for strings; a length is a word. *)
append(b, piece) ==
  IF /\ piece.kind # "string"
     /\ b.last.kind = piece.kind
     /\ b.last.start + b.last.length = piece.start
  THEN [b EXCEPT !.last.length = (@ + piece.span) % WordSize]
  ELSE [flush(b) EXCEPT !.last =
         [start |-> piece.start, length |-> piece.span % WordSize, kind |-> piece.kind]]

BeginDivision ==
  /\ Tracing /\ dis.pc = Nowhere /\ dis.work = << >>
  /\ dis' = [dis EXCEPT !.stage = "divide"]

Dividing == dis.stage = "divide"

Divide ==
  /\ Dividing /\ Inside(dis.image, dis.at)
  /\ \E piece \in {Piece(dis.image, dis.code, dis.at)} :
       dis' = [dis EXCEPT !.regions = [room \in DOMAIN @ |-> append(@[room], piece)],
                          !.at = @ + piece.span]

EndDivision ==
  /\ Dividing /\ ~Inside(dis.image, dis.at)
  /\ dis' = [dis EXCEPT !.stage = "label", !.at = 0,
                        !.regions = [room \in DOMAIN @ |-> flush(@[room])]]

-----------------------------------------------------------------------------
(***************************************************************************)
(* disassembly_listing: one line, or one label and its line, a step.        *)
(***************************************************************************)
(* Pass 1: an even walk, whatever has been found to be code. *)
NoteLabel ==
  /\ dis.stage = "label" /\ Inside(dis.image, dis.at)
  /\ \E insn \in {zdasm_decode(dis.image, dis.at)} :
       dis' = [dis EXCEPT !.at = @ + insn.length,
                    !.labels = IF insn.branches THEN @ \union {insn.target} ELSE @]

BeginPrinting ==
  /\ dis.stage = "label" /\ ~Inside(dis.image, dis.at)
  /\ dis' = [dis EXCEPT !.stage = "print", !.at = 0]

LabelLine(d, address) ==
  IF address \in d.labels THEN <<[kind |-> "label", name |-> "L" \o ToString(address)]>> ELSE << >>

Printed(d, lines) ==
  IF Len(d.listing) + Len(lines) > MaxLines THEN d ELSE [d EXCEPT !.listing = @ \o lines]

(* The first region that does not end before the cursor. *)
Regions(d)   == d.regions[Plenty].out
Behind(d, k) == Regions(d)[k].start + Regions(d)[k].length <= d.at
Region(d) ==
  IF \A k \in DOMAIN Regions(d) : Behind(d, k) THEN NoRegion
  ELSE Regions(d)[CHOOSE k \in DOMAIN Regions(d) :
                    ~Behind(d, k) /\ \A j \in 1 .. k - 1 : Behind(d, j)]
Data(d)   == Region(d).kind \in {"string", "data"} /\ d.at = Region(d).start

Printing == dis.stage = "print" /\ Inside(dis.image, dis.at)

(* Both kinds print a label and then their lines; i is where in the region  *)
(* they are, a word, and Idle outside of the loop.                         *)
Idle == -1
Within(kind) == Printing /\ dis.i # Idle /\ Region(dis).kind = kind

EnterRegion ==
  /\ Printing /\ Data(dis) /\ dis.i = Idle
  /\ dis' = [Printed(dis, LabelLine(dis, dis.at)) EXCEPT !.i = 0]

(* A string ends in front of its terminator, which goes behind the last of  *)
(* the letters.                                                            *)
Ending(region) ==
  IF Byte(dis.image, region.start + region.length - 1) >= ByteSize \div 2 THEN 1 ELSE 0
LastLine(region) == IF region.kind = "string" THEN region.length - Ending(region) ELSE region.length

(* The bytes of a directive: it is full with StringChunk characters.       *)
Full(bytes) ==
  Len(bytes) + Cardinality({k \in DOMAIN bytes : bytes[k] \in Escaped}) >= StringChunk

PrintStringLine ==
  /\ Within("string")
  /\ \E region \in {Region(dis)} :
       LET here    == region.start + dis.i
           left    == LastLine(region) - dis.i
           part(n) == SubSeq(dis.image, here + 1, here + n)
       IN /\ left > 0
          /\ \E n \in 1 .. left :
               /\ ~Full(part(n - 1))
               /\ n = left \/ Full(part(n))
               /\ dis' = [Printed(dis, <<DefByte(IF n = left THEN part(n + Ending(region))
                                               ELSE part(n))>>) EXCEPT !.i = @ + n]

PrintDataLine ==
  /\ Within("data")
  /\ \E region \in {Region(dis)} :
       LET here == region.start + dis.i
           left == region.length - dis.i
           run  == IF left < DataChunk THEN left ELSE DataChunk
       IN /\ left > 0
          /\ dis' = [Printed(dis, <<DefByte(SubSeq(dis.image, here + 1, here + run))>>)
                        EXCEPT !.i = (@ + DataChunk) % WordSize]

LeaveRegion ==
  /\ Printing /\ dis.i # Idle /\ dis.i >= LastLine(Region(dis))
  /\ dis' = [dis EXCEPT !.i = Idle, !.at = @ + Region(dis).length]

PrintInstruction ==
  /\ Printing /\ dis.i = Idle /\ ~Data(dis)
  /\ \E insn \in {zdasm_decode(dis.image, dis.at)} :
       dis' = [Printed(dis, Append(LabelLine(dis, dis.at), insn.text))
                 EXCEPT !.at = @ + insn.length]

EndListing ==
  /\ dis.stage = "print" /\ ~Inside(dis.image, dis.at)
  /\ dis' = [dis EXCEPT !.stage = "done"]

Disassembles ==
  \/ Pop \/ Follow \/ LoseTrace \/ BeginDivision \/ Divide \/ EndDivision
  \/ NoteLabel \/ BeginPrinting
  \/ EnterRegion \/ PrintStringLine \/ PrintDataLine \/ LeaveRegion \/ PrintInstruction \/ EndListing

(* zasm -d, with -a or without; control flow is followed from address 0.    *)
(* The calls of zdasm_analyse differ in the room they have, and are told    *)
(* side by side; the listing has room for all, having asked before with     *)
(* none.                                                                   *)
Disassembly(image, analyse) ==
  LET analysed == analyse /\ image # << >>
  IN [stage |-> IF analysed THEN "trace" ELSE "label", image |-> image,
      code |-> {}, work |-> IF analysed THEN <<0>> ELSE << >>, pc |-> Nowhere,
      regions |-> [room \in Rooms \union {Plenty} |-> Builder(room)], labels |-> {}, at |-> 0,
      i |-> Idle, listing |-> << >>]

NotStarted == [Disassembly(<< >>, FALSE) EXCEPT !.stage = "idle"]

(* A call of the disassembler, once an earlier one has ended. *)
Lists(image, analyse) ==
  /\ dis.stage \in {"idle", "done"}
  /\ dis' = Disassembly(image, analyse)

(* The disassembler alone, called with any images. *)
Images == {image \in Seq(Bytes) : Len(image) <= WordSize}
DisassemblerSpec ==
  /\ dis = NotStarted
  /\ [][Disassembles \/ \E image \in Images, analyse \in BOOLEAN : Lists(image, analyse)]_dis

-----------------------------------------------------------------------------
(***************************************************************************)
(* What is reached: every instruction that control can come to from 0.      *)
(***************************************************************************)
Divided == dis.stage = "label" /\ dis.at = 0 /\ Regions(dis) # << >>

Successors(image, pc) ==
  LET insn == zdasm_decode(image, pc)
  IN {to \in (IF insn.branches THEN {insn.target} ELSE {})
               \union (IF insn.continues THEN {(pc + insn.length) % WordSize} ELSE {}) :
        Inside(image, to) /\ zdasm_decode(image, to).known}

(* After so many instructions, and after as many as there can be. *)
Reached(image) ==
  LET reached[n \in 0 .. Size(image)] ==
        IF n = 0 THEN {0}
        ELSE LET before == reached[n - 1]
             IN before \union UNION {Successors(image, pc) : pc \in before}
  IN reached
Reachable(image) ==
  IF image # << >> /\ zdasm_decode(image, 0).known THEN Reached(image)[Size(image)] ELSE {}

Bytes_of(image, pc) == pc .. pc + zdasm_decode(image, pc).length - 1
Apart(image, reached) ==
  \A p, q \in reached : p # q => Bytes_of(image, p) \cap Bytes_of(image, q) = {}

(* What the trace marks is what control can reach: never more, and all of   *)
(* it unless instructions overlap (trace; its work list and its map).       *)
CodeIsReachable ==
  Divided =>
    LET reached == Reachable(dis.image)
        bytes   == UNION {Bytes_of(dis.image, pc) : pc \in reached}
    IN /\ dis.code \subseteq bytes
       /\ Apart(dis.image, reached) => dis.code = bytes

Stretch(region) == region.start .. region.start + region.length - 1

(* The regions tile the image in order; like ones do not touch, but         *)
(* strings; a string is text up to its last byte; no text that is long      *)
(* enough is left among data; and a caller with less room has the first of  *)
(* them, and is told how many there are (zdasm_analyse).                    *)
RegionsTile ==
  Divided /\ Size(dis.image) < WordSize =>
    LET regions == Regions(dis)
    IN /\ regions[1].start = 0
       /\ Last(regions).start + Last(regions).length = Size(dis.image)
       /\ \A k \in 2 .. Len(regions) :
            /\ regions[k].start = regions[k - 1].start + regions[k - 1].length
            /\ regions[k].kind = regions[k - 1].kind => regions[k].kind = "string"
       /\ \A k \in DOMAIN regions :
            /\ regions[k].length > 0
            /\ regions[k].kind = "code" <=> Stretch(regions[k]) \subseteq dis.code
            /\ regions[k].kind = "string" =>
                 \A address \in Stretch(regions[k]) \ {regions[k].start + regions[k].length - 1} :
                   Byte(dis.image, address) \in Printable
            /\ regions[k].kind = "data" =>
                 \A from \in Stretch(regions[k]) :
                   ~ \A address \in from .. from + StringMinimum - 1 :
                       address \in Stretch(regions[k]) /\ Byte(dis.image, address) \in Printable
       /\ \A room \in Rooms :
            LET short == dis.regions[room]
            IN /\ short.count = Len(regions)
               /\ short.out = SubSeq(regions, 1, IF room < Len(regions) THEN room ELSE Len(regions))
=============================================================================
