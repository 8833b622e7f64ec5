----------------------------- MODULE Z80Toolchain -----------------------------
(***************************************************************************)
(* The tools together: a session of calls in one process.  A source is      *)
(* assembled; an image, or what was just assembled, is listed; a listing is *)
(* assembled again, as tests/round_trip.py does.  The assembler's globals   *)
(* live from one call to the next.                                         *)
(***************************************************************************)
EXTENDS Z80Analyser, Z80Formats

CONSTANTS
  Sessions,   \* the sequences of calls that are tried
  MaxRecords  \* bound: files of so many records are damaged, byte by byte

VARIABLE session    \* the calls that are still to come

vars == <<asm, source, line, dis, session>>

Idle_process == asm.run_pass = 0 /\ dis.stage \in {"idle", "done"}
Calls(kind)  == Idle_process /\ session # << >> /\ Head(session).call = kind
Called       == session' = Tail(session)

Rebuild(listing) == <<[kind |-> "org", expr |-> Number(0)]>> \o listing

AssembleSource ==
  /\ Calls("assemble") /\ Called
  /\ BeginAssembly(Head(session).source)
  /\ UNCHANGED dis

ListImage ==
  /\ Calls("list") /\ Called
  /\ Lists(Head(session).image, Head(session).analyse)
  /\ UNCHANGED assembler

ListBuilt ==
  /\ Calls("list built") /\ asm.assembled /\ Called
  /\ Lists(Image(asm), Head(session).analyse)
  /\ UNCHANGED assembler

AssembleListing ==
  /\ Calls("rebuild") /\ dis.stage = "done" /\ Called
  /\ BeginAssembly(Rebuild(dis.listing))
  /\ UNCHANGED dis

Init ==
  /\ asm = Unused /\ source = << >> /\ line = 1
  /\ dis = NotStarted
  /\ session \in Sessions

Next ==
  \/ AssembleSource \/ ListImage \/ ListBuilt \/ AssembleListing
  \/ Assembles /\ UNCHANGED <<dis, session>>
  \/ Disassembles /\ UNCHANGED <<assembler, session>>

(* A disassembly, once called, runs on: nothing else takes its turn. *)
Fairness == WF_dis(Disassembles /\ UNCHANGED <<assembler, session>>)
Spec == Init /\ [][Next]_vars /\ Fairness

-----------------------------------------------------------------------------
(***************************************************************************)
(* What a source means: one environment of names and one place for each     *)
(* statement, without passes.                                              *)
(***************************************************************************)
Read_part == {k \in DOMAIN source : \A j \in 1 .. k : source[j].kind # "end"}

Meant(expr, at) ==
  expr.plus + CASE expr.base = "number" -> 0
                [] expr.base = "here"   -> at.pc
                [] expr.base = "origin" -> at.org
                [] OTHER                -> asm.labels[expr.base].address

(* The rows of an instruction whose text holds this number; RST knows its   *)
(* target by the low byte, and there is none above a byte.                 *)
Rows(statement, number) ==
  {row \in OpcodeTable :
     /\ row.mnemo = statement.mnemo /\ ~row.duplicate
     /\ IF statement.mnemo \in Capped THEN row.selector = Low(number) /\ number < ByteSize
        ELSE row.selector = number}

Room(rows) == IF rows = {} THEN 0 ELSE Length(CHOOSE row \in rows : TRUE)

Extent(statement, at) ==
  CASE statement.kind = "data"  -> statement.size * Len(statement.exprs)
    [] statement.kind = "instr" -> Room(Rows(statement, Meant(statement.select, at)))
    [] OTHER                    -> 0

(* Where each statement is, and the origin it is under. *)
Places ==
  LET place[k \in 1 .. Len(source) + 1] ==
        IF k = 1 THEN [pc |-> 0, org |-> 0]
        ELSE IF source[k - 1].kind = "org"
        THEN LET to == Meant(source[k - 1].expr, place[k - 1]) IN [pc |-> to, org |-> to]
        ELSE [place[k - 1] EXCEPT !.pc = @ + Extent(source[k - 1], place[k - 1])]
  IN place

Moved(statement, at) ==
  LET value == Meant(statement.index, at) IN IF statement.minus THEN -value ELSE value

(* The bytes are those of its row and its operands, which fit their fields  *)
(* but where the grammar cuts them.                                        *)
InstructionMeans(statement, at, bytes) ==
  \E row \in Rows(statement, Meant(statement.select, at)) :
    LET value == Meant(statement.expr, at)
        found == OperandAt(row, bytes, 0)
        moved == Moved(statement, at)
        cut   == Cut(value, IF Packed(row) THEN 1 ELSE row.data)
    IN /\ Matches(row, bytes, 0)
       /\ row.reljmp => at.pc + Length(row) + Signed(found) = value
       /\ row.indexed => Low(found) = Low(moved)
       /\ Packed(row) => High(found) = Low(cut)
       /\ row.indexed /\ ~Packed(row) => Fits(moved, 1)
       /\ row.data > 0 /\ ~row.reljmp /\ ~row.indexed =>
            LET named == IF statement.mnemo \in Capped THEN cut ELSE value
            IN Fits(named, row.data) /\ found = named % (IF row.data = 1 THEN ByteSize ELSE WordSize)

DataMeans(statement, at, bytes) ==
  \A k \in DOMAIN statement.exprs :
    LET value == Meant(statement.exprs[k], at)
    IN IF statement.size = 1 THEN bytes[k] = value % ByteSize
       ELSE bytes[2 * k - 1] + ByteSize * bytes[2 * k] = value % WordSize

(* The addresses a later statement writes again are that statement's. *)
Written(places, k) == places[k].pc .. places[k].pc + Extent(source[k], places[k]) - 1
Whole(places, k) ==
  \A j \in Read_part : j > k => Written(places, j) \cap Written(places, k) = {}

StatementMeans(places, k) ==
  LET statement == source[k]
      at        == places[k]
      bytes     == [j \in 1 .. Extent(statement, at) |-> asm.prog[at.pc + j - 1]]
  IN CASE statement.kind = "label" -> asm.labels[statement.name].address = at.pc
       [] statement.kind = "equ"   -> asm.labels[statement.name].address = Meant(statement.expr, at)
       [] statement.kind = "instr" -> Whole(places, k) => InstructionMeans(statement, at, bytes)
       [] statement.kind = "data"  -> Whole(places, k) => DataMeans(statement, at, bytes)
       [] OTHER                    -> TRUE

(* Whether the first pass knows an expression when it meets it. *)
Settled(k, expr) ==
  LET known[j \in 0 .. Len(source)] ==
        IF j = 0 THEN {}
        ELSE CASE source[j].kind = "label" -> known[j - 1] \union {source[j].name}
               [] source[j].kind = "equ" /\ (Named(source[j].expr) => source[j].expr.base \in known[j - 1])
                                           -> known[j - 1] \union {source[j].name}
               [] OTHER -> known[j - 1]
  IN Named(expr) => expr.base \in known[k - 1]

Exprs(statement) ==
  CASE statement.kind \in {"org", "equ"} -> {statement.expr}
    [] statement.kind = "instr" -> Range(Expressions(statement))
    [] statement.kind = "data"  -> Range(statement.exprs)
    [] OTHER -> {}

OriginsKnown == \A k \in Read_part : source[k].kind = "org" => Settled(k, source[k].expr)

(* A number in the text of an instruction is known, or what pass 1 takes it *)
(* for is in a row's text as well: rows that differ in nothing but that     *)
(* number are of one length.                                               *)
SizesKnown ==
  \A k \in Read_part :
    source[k].kind = "instr" =>
      \/ Settled(k, source[k].select)
      \/ Rows(source[k], source[k].select.plus) # {}

(* $$ is not asked for before there is an origin, and no address is taken   *)
(* behind the last byte of the address space, where the cursor stays.       *)
AddressesReal ==
  \A k \in Read_part :
    /\ (\E expr \in Exprs(source[k]) : expr.base = "origin")
         => \E j \in 1 .. k - 1 : source[j].kind = "org"
    /\ source[k].kind = "label" \/ (\E expr \in Exprs(source[k]) : expr.base = "here")
         => Places[k].pc \in Words

Orderly == OriginsKnown /\ SizesKnown /\ AddressesReal

Assembled == asm.run_pass = 0 /\ asm.assembled

Meaningful ==
  LET places == Places
  IN \A k \in Read_part :
       /\ Written(places, k) # {} => places[k].pc + Extent(source[k], places[k]) <= asm.prog_end
       /\ StatementMeans(places, k)

(* What assembles means what its source says: with the addresses its names  *)
(* have in the end, every statement is where the ones before it put it, and *)
(* its bytes are its own and its operand's -- after any earlier assembly,   *)
(* with forward references, names settled in the second pass, origins that  *)
(* go back and a program that ends at the top (run_passes, emit_byte).      *)
AssemblesToMeaning == Assembled /\ Orderly => Meaningful

(* Labels do not move between the passes, whatever expressions refer to     *)
(* what comes later: "dropping those bytes would move every later label"    *)
(* (assembler.c:157), "forward references are expected" (816).             *)
ForwardReferencesMean == Assembled /\ OriginsKnown /\ AddressesReal => Meaningful

-----------------------------------------------------------------------------
Payloads == Payload(asm)

(* A tape of the program loads exactly if its block's length has room for   *)
(* the two bytes around the data; and then every byte of a statement behind *)
(* the lowest origin is where the statement is (tap_create, process_source).*)
TapeLoads ==
  LET tape == tap_create(asm.PROG_START, Payloads)
      from == tape.header.param1
  IN /\ Loads(tape) <=> Len(Payloads) + 2 < WordSize
     /\ Loads(tape) /\ Orderly =>
          /\ tape.loader.usr = from
          /\ \A k \in Read_part :
               \A address \in Written(Places, k) :
                 address >= asm.PROG_START =>
                   tape.data.body[address - from + 1] = asm.prog[address]

Damaged(text, k, j, byte) ==
  [text EXCEPT ![k].bytes[j] = byte]

(* The Intel HEX that is written reads back as the program at its origin,   *)
(* and with any one byte of it changed it is refused, not misread           *)
(* (save_array_to_ihex, create_array_from_ihex).                           *)
HexSurvives ==
  LET text == save_array_to_ihex(asm.PROG_START, Payloads)
      back == create_array_from_ihex(text)
  IN /\ back.err = 0
     /\ Payloads # << >> =>
          back.mem = [k \in 1 .. asm.PROG_START |-> ByteSize - 1] \o Payloads
     /\ Len(text) <= MaxRecords =>
          \A k \in DOMAIN text : \A j \in DOMAIN text[k].bytes : \A byte \in {0, text[k].bytes[j] + 1, ByteSize - 1} \cap Bytes :
            byte # text[k].bytes[j]
              => create_array_from_ihex(Damaged(text, k, j, byte)).err # 0

(* What the assembler writes to a file, whoever reads it finds again: the    *)
(* two halves above, of every program that was assembled (process_source).  *)
FilesReadBack == Assembled => TapeLoads /\ HexSurvives

(* A jump across the end of the address space prints an address that the    *)
(* assembler finds out of reach, and rows with the same text are one row to *)
(* it: no listing brings those back.                                       *)
Plain(image) ==
  \A pc \in 0 .. Size(image) - 1 : \A row \in OpcodeTable :
    Matches(row, image, pc) =>
      /\ ~row.duplicate
      /\ row.reljmp => pc + Length(row) + Signed(OperandAt(row, image, pc)) \in Words

(* A listing assembles to the bytes it was made from, code, text and data,  *)
(* analysed or not (disassembly_listing; tests/round_trip.py).              *)
ListingReassembles ==
  /\ dis.stage = "done" /\ asm.run_pass = 0 /\ source = Rebuild(dis.listing)
  /\ Plain(dis.image)
  => asm.assembled /\ Image(asm) = dis.image

-----------------------------------------------------------------------------
LongData ==
  \E k \in DOMAIN Regions(dis) :
    Regions(dis)[k].kind = "data" /\ Regions(dis)[k].length > WordSize - DataChunk

(* The trace comes to an end however the jumps go round, and so does the    *)
(* listing, unless one data region nearly fills the address space.          *)
DisassemblyEnds == dis.stage = "trace" ~> (dis.stage = "done" \/ LongData)

(* Every listing ends: print_data_region prints "A data region, as defb     *)
(* lines of eight bytes" (dassembler.c:155), of any region.                 *)
ListingEnds == dis.stage = "trace" ~> dis.stage = "done"
=============================================================================
