------------------------------ MODULE Z80Formats ------------------------------
(***************************************************************************)
(* The files the assembler writes: a ZX Spectrum tape (src/asmdasm/tap.c)   *)
(* and Intel HEX (src/asmdasm/ihex.c), and the reader of the latter.        *)
(*                                                                         *)
(* A file is a sequence of blocks or records.  A number that fits a field   *)
(* of one or two bytes in the program is reduced to a byte or a word here   *)
(* as well.  The BASIC loader is what its four lines say, and a tape is     *)
(* what the Spectrum's ROM makes of it.                                    *)
(***************************************************************************)
EXTENDS Z80Assembler, Bitwise

CONSTANTS
  BlockSize,   \* the bytes in a full Intel HEX record, 16 in the program
  LoaderSize   \* the length of the tokenised BASIC loader

ASSUME FormatsAssumption ==
  BlockSize \in 1 .. ByteSize - 1 /\ LoaderSize \in 0 .. WordSize - 3

Word(value) == value % WordSize
Concat(parts) == FoldLeft(\o, << >>, parts)

-----------------------------------------------------------------------------
(***************************************************************************)
(* The tape.  A block is [length, flag, body, check], where body is the     *)
(* bytes that are written and length the word in front of them.             *)
(***************************************************************************)
Parity(flag, bytes) == FoldLeft(^^, flag, bytes)

create_zx_basic_loader(start, entry) ==
  [clear |-> Word(start - 1), usr |-> entry]

HeaderFlag == 0
DataFlag   == ByteSize - 1

(* 18 bytes and the flag's check; their parity is right by construction.   *)
tap_write_header(type, size, param1) ==
  [flag |-> HeaderFlag, type |-> type, size |-> Word(size), param1 |-> Word(param1)]

(* Mutant: the checksum leaves out the flag. *)
tap_data_block_unflagged(bytes) ==
  LET data_size == Word(Len(bytes))
  IN [flag |-> DataFlag, length |-> Word(data_size + 2), body |-> bytes,
      check |-> Parity(0, SubSeq(bytes, 1, data_size))]

(* data_size has reached the block as a word, and its length is a word.    *)
tap_data_block(bytes) ==
  LET data_size == Word(Len(bytes))
  IN [flag |-> DataFlag, length |-> Word(data_size + 2), body |-> bytes,
      check |-> Parity(DataFlag, SubSeq(bytes, 1, data_size))]

tap_create(start, bytes) ==
  [program |-> tap_write_header("program", LoaderSize, 10),
   loader  |-> create_zx_basic_loader(start, start),
   header  |-> tap_write_header("code", Len(bytes), start),
   data    |-> tap_data_block(bytes)]

(* LOAD "" CODE: the block must be as long as the header says and as its    *)
(* own length says, and the parity of flag, bytes and check must be zero.   *)
Loads(tape) ==
  /\ tape.data.length = Len(tape.data.body) + 2
  /\ tape.header.size = Len(tape.data.body)
  /\ Parity(tape.data.flag, Append(tape.data.body, tape.data.check)) = 0

-----------------------------------------------------------------------------
(***************************************************************************)
(* Intel HEX.  A line is [mark, bytes]: mark says whether it begins with a  *)
(* colon, and bytes are what its digits spell: size, address, type, data    *)
(* and the byte that makes the sum zero.                                   *)
(***************************************************************************)
DataRecord    == 0
EofRecord     == 1
SegmentRecord == 2
ExtendedRecord == 4
AssertedRecords == {3, 5}

Total(bytes) == FoldLeft(LAMBDA sum, byte : (sum + byte) % ByteSize, 0, bytes)
Summed(bytes) == Append(bytes, (ByteSize - Total(bytes)) % ByteSize)
Record(base, type, data) ==
  [mark |-> TRUE,
   bytes |-> Summed(<<Len(data), High(base), Low(base), type>> \o data)]

Smaller(m, n) == IF m < n THEN m ELSE n

(* Full records, and the rest in one more; the base is cut to a word.      *)
save_array_to_ihex(base, bytes) ==
  LET count == (Len(bytes) + BlockSize - 1) \div BlockSize
      chunk(k) == SubSeq(bytes, BlockSize * (k - 1) + 1, Smaller(BlockSize * k, Len(bytes)))
  IN [k \in 1 .. count |-> Record(Word(base + BlockSize * (k - 1)), DataRecord, chunk(k))]
       \o <<Record(0, EofRecord, << >>)>>

(* The reader.  err is 0 or the code of the first fault that ended it; mem   *)
(* grows to the end of the furthest record, erased bytes all ones.          *)
Reading == [err |-> 0, mem |-> << >>, ex_addr |-> 0, reading |-> TRUE]
Stopped(r, err) == [r EXCEPT !.err = err, !.reading = FALSE]

Stored(r, address, data) ==
  LET end == address + Len(data)
  IN [r EXCEPT !.mem = [k \in 1 .. (IF end > Len(@) THEN end ELSE Len(@)) |->
        IF k > address /\ k <= end THEN data[k - address]
        ELSE IF k <= Len(@) THEN @[k] ELSE ByteSize - 1]]

WellFormed(bytes) ==
  IF Total(bytes) # 0 THEN -4 ELSE IF Len(bytes) # bytes[1] + 5 THEN -5 ELSE 0

(* A record that the reader asserts it never meets ends the program. *)
Aborted == -7

read_record(r, bytes) ==
  LET address == ByteSize * bytes[2] + bytes[3]
      type    == bytes[4]
      data    == SubSeq(bytes, 5, Len(bytes) - 1)
      extends == type \in {SegmentRecord, ExtendedRecord}
  IN CASE type = DataRecord -> Stored(r, r.ex_addr + address, data)
       [] type = EofRecord  -> Stopped(r, 0)
       [] extends /\ Len(data) = 2 ->
            [r EXCEPT !.ex_addr = (ByteSize * data[1] + data[2])
                                    * (IF type = SegmentRecord THEN 16 ELSE WordSize)]
       [] (extends /\ Len(data) # 2) \/ type \in AssertedRecords -> Stopped(r, Aborted)
       [] OTHER -> r

(* A fault that was met before ends it behind the record, unless that is    *)
(* the last one, which forgets it.                                         *)
Read(r, bytes) ==
  LET after == read_record(r, bytes)
  IN IF after.err # 0 THEN Stopped(after, after.err) ELSE after

(* A line without a colon is a fault, but not the end. *)
read_line(r, text) ==
  CASE ~r.reading  -> r
    [] r.reading /\ ~text.mark  -> [r EXCEPT !.err = -6]
    [] OTHER       -> IF WellFormed(text.bytes) # 0 THEN Stopped(r, WellFormed(text.bytes))
                      ELSE Read(r, text.bytes)

(* Without an end record the file ends where it ends. *)
create_array_from_ihex(lines) == FoldLeft(read_line, Reading, lines)
=============================================================================
