-------------------------- MODULE Z80AnalyserProofs --------------------------
(***************************************************************************)
(* What the code analyser finds, for every image, table of instructions and *)
(* room for the answer.  The loops of the code compute with data of any     *)
(* length: what they find exists because the naturals are well-founded     *)
(* (Least), and what recursion computes is shown with SetInduction.         *)
(***************************************************************************)
EXTENDS Z80Analyser, WellFoundedInduction, FiniteSetTheorems, SequenceTheorems, TLAPS

-----------------------------------------------------------------------------
(* A set of naturals has a least element. *)
LEMMA Least ==
  ASSUME NEW T, T \subseteq Nat, T # {}
  PROVE  \E x \in T : \A y \in T : x <= y
<1>1. PICK x \in T : \A y \in T : ~ (<<y, x>> \in OpToRel(<, Nat))
  BY NatLessThanWellFounded, WFMin
<1>2. \A y \in T : ~(y < x)
  BY <1>1 DEF OpToRel
<1> QED BY <1>2

(* A set with 0 and the successor of each of its naturals has them all. *)
LEMMA SetInduction ==
  ASSUME NEW S, 0 \in S, \A n \in Nat : n \in S => n + 1 \in S
  PROVE  Nat \subseteq S
<1> SUFFICES ASSUME Nat \ S # {} PROVE FALSE
  OBVIOUS
<1>1. PICK x \in Nat \ S : \A y \in Nat \ S : x <= y
  BY Least
<1>2. x - 1 \in Nat
  BY <1>1
<1> QED BY <1>1, <1>2

LEMMA WordSizeType == WordSize \in Nat \ {0} /\ ByteSize \in Nat \ {0}
<1>1. \A m \in Nat : m >= 4 => m * m \in Nat /\ m * m > 0
  OBVIOUS
<1> QED BY <1>1, AssemblerAssumption DEF WordSize

-----------------------------------------------------------------------------
(* One instruction decoded: it is here, it is inside the image if it is      *)
(* known, and it goes on to addresses (zdasm_decode).                      *)
Decoded(image, pc, insn) ==
  /\ insn.address = pc
  /\ insn.length \in Nat \ {0}
  /\ insn.known \in BOOLEAN /\ insn.branches \in BOOLEAN /\ insn.continues \in BOOLEAN
  /\ insn.known => pc + insn.length <= Size(image)
  /\ insn.target \in Nat

LEMMA DecodeType ==
  ASSUME NEW image \in Images, NEW pc \in Nat
  PROVE  Decoded(image, pc, zdasm_decode(image, pc))
<1> DEFINE rows == {r \in OpcodeTable : Matches(r, image, pc)}
           Found(row) == [address |-> pc, length |-> Length(row), known |-> TRUE,
                          branches |-> row.branches, target |-> TargetAt(row, image, pc),
                          continues |-> ~row.stops,
                          text |-> Listed(row, Shown(row, image, pc))]
           found == {Found(row) : row \in rows}
<1>1. zdasm_decode(image, pc) =
        IF found = {} THEN emit_defb(pc, Byte(image, pc)) ELSE CHOOSE insn \in found : TRUE
  BY DEF zdasm_decode
<1>2. CASE found = {}
  BY <1>1, <1>2 DEF Decoded, emit_defb
<1>3. CASE found # {}
  <2>1. PICK row \in rows : zdasm_decode(image, pc) = Found(row)
    BY <1>1, <1>3
  <2>2. /\ row.opcode \in Seq(Bytes) /\ row.opcode # << >> /\ row.data \in 0 .. 2
        /\ row.branches \in BOOLEAN /\ row.stops \in BOOLEAN /\ row.reljmp \in BOOLEAN
        /\ row.displaced \in BOOLEAN
        /\ row.displaced => row.data = 1
        /\ row.reljmp => row.data = 1
        /\ row.branches /\ ~row.reljmp => row.data # 1
        /\ row.vector \in Nat
    BY <2>1, AssemblerAssumption, AnalyserAssumption DEF Bytes
  <2>3. Len(row.opcode) \in Nat \ {0}
    BY <2>2
  <2>4. Length(row) \in Nat \ {0} /\ pc + Length(row) <= Size(image)
    BY <2>1, <2>2, <2>3 DEF Length, Matches
  <2>5. TargetAt(row, image, pc) \in Nat
    <3>1. ASSUME NEW at \in Nat, at < Size(image) PROVE Byte(image, at) \in Nat
      BY <3>1, AssemblerAssumption DEF Byte, Size, Images, Bytes
    <3>2. CASE ~row.branches
      BY <3>2 DEF TargetAt
    <3>3. CASE row.branches /\ row.reljmp
      <4>1. /\ row.data = 1
            /\ ~row.displaced \/ row.displaced
        BY <2>2, <3>3
      <4> DEFINE first == pc + Length(row) - row.data - (IF row.displaced THEN 1 ELSE 0)
      <4>2. first \in Nat /\ first < Size(image)
        <5> DEFINE m == Len(row.opcode)
        <5>1. Length(row) = m + 1
          BY <4>1 DEF Length
        <5>2. m \in Nat \ {0} /\ pc + (m + 1) <= Size(image) /\ Size(image) \in Nat
          BY <5>1, <2>3, <2>4 DEF Size, Images
        <5> HIDE DEF m
        <5> QED BY <5>1, <5>2, <4>1
      <4>3. OperandAt(row, image, pc) = Byte(image, first)
        BY <4>1 DEF OperandAt
      <4>4. Signed(OperandAt(row, image, pc)) \in Int
        BY <4>2, <4>3, <3>1, WordSizeType DEF Signed
      <4>5. TargetAt(row, image, pc) = (pc + Length(row) + Signed(OperandAt(row, image, pc))) % WordSize
        BY <3>3, <4>1 DEF TargetAt
      <4> QED BY <4>4, <4>5, <2>4, WordSizeType
    <3>4. CASE row.branches /\ ~row.reljmp /\ row.data = 2
      <4> DEFINE first == pc + Length(row) - row.data - (IF row.displaced THEN 1 ELSE 0)
      <4>2. first \in Nat /\ first + 1 < Size(image)
        <5> DEFINE m == Len(row.opcode)
        <5>1. Length(row) = m + 2 /\ ~row.displaced
          BY <2>2, <3>4 DEF Length
        <5>2. m \in Nat \ {0} /\ pc + (m + 2) <= Size(image) /\ Size(image) \in Nat
          BY <5>1, <2>3, <2>4 DEF Size, Images
        <5> HIDE DEF m
        <5> QED BY <5>1, <5>2, <3>4
      <4>3. OperandAt(row, image, pc) = Byte(image, first) + ByteSize * Byte(image, first + 1)
        BY <3>4 DEF OperandAt
      <4>4. \A x, y \in Nat : x + ByteSize * y \in Nat
        BY WordSizeType
      <4>5. TargetAt(row, image, pc) = OperandAt(row, image, pc)
        BY <3>4 DEF TargetAt
      <4>6. Byte(image, first) \in Nat /\ Byte(image, first + 1) \in Nat
        BY <4>2, <3>1 DEF Size
      <4> QED BY <4>3, <4>4, <4>5, <4>6
    <3>5. CASE row.branches /\ ~row.reljmp /\ row.data = 0
      BY <3>5, <2>2 DEF TargetAt
    <3> QED BY <2>2, <3>2, <3>3, <3>4, <3>5
  <2> QED BY <2>1, <2>2, <2>4, <2>5 DEF Decoded
<1> QED BY <1>2, <1>3

-----------------------------------------------------------------------------
(* The printable bytes from an address on: as many as there are, no more.   *)
LEMMA LettersFound ==
  ASSUME NEW image \in Images, NEW code, NEW start \in Nat,
         NEW n, n = Letters(image, code, start)
  PROVE  /\ n \in 0 .. Size(image)
         /\ ~(Loose(image, code, start + n) /\ Byte(image, start + n) \in Printable)
         /\ \A k \in 0 .. n - 1 : /\ Loose(image, code, start + k)
                                  /\ Byte(image, start + k) \in Printable
<1> DEFINE text(at) == Loose(image, code, at) /\ Byte(image, at) \in Printable
           Ends == {k \in Nat : ~text(start + k)}
<1>1. Size(image) \in Nat
  BY DEF Size, Images
<1>2. Size(image) \in Ends
  BY <1>1 DEF Loose, Inside
<1>3. PICK m \in Ends : \A k \in Ends : m <= k
  BY <1>2, Least
<1>4. m \in 0 .. Size(image) /\ ~text(start + m) /\ \A k \in 0 .. m - 1 : text(start + k)
  BY <1>1, <1>2, <1>3
<1>5. n = CHOOSE k \in 0 .. Size(image) :
            ~text(start + k) /\ \A j \in 0 .. k - 1 : text(start + j)
  BY DEF Letters
<1> HIDE DEF text
<1>6. n \in 0 .. Size(image) /\ ~text(start + n) /\ \A k \in 0 .. n - 1 : text(start + k)
  BY <1>4, <1>5
<1> QED BY <1>6 DEF text

(* A run of code: it goes on to the first byte that is none. *)
LEMMA CodeRunFound ==
  ASSUME NEW image \in Images, NEW code \in SUBSET (0 .. Size(image) - 1), NEW start \in code,
         NEW n, n = CodeRun(image, code, start)
  PROVE  /\ n \in 1 .. Size(image) /\ start + n <= Size(image)
         /\ start .. start + n - 1 \subseteq code
         /\ start + n \notin code
<1> DEFINE Ends == {k \in Nat : start + k \notin code}
<1>1. Size(image) \in Nat
  BY DEF Size, Images
<1>2. Size(image) - start \in Ends /\ start \in Nat
  BY <1>1
<1>3. PICK m \in Ends : \A k \in Ends : m <= k
  BY <1>2, Least
<1>4. m # 0 /\ m <= Size(image) - start
  BY <1>2, <1>3
<1>5. \A j \in start .. start + m - 1 : j \in code
  <2> SUFFICES ASSUME NEW j \in start .. start + m - 1, j \notin code PROVE FALSE
    OBVIOUS
  <2>1. j - start \in Ends
    BY <1>2
  <2> QED BY <1>2, <1>3, <2>1
<1>6. /\ m \in 1 .. Size(image)
      /\ start .. start + m - 1 \subseteq code
      /\ start + m \notin code
  BY <1>1, <1>2, <1>3, <1>4, <1>5
<1>7. /\ n \in 1 .. Size(image)
      /\ start .. start + n - 1 \subseteq code
      /\ start + n \notin code
  BY <1>6 DEF CodeRun
<1>8. start + n - 1 \in code
  BY <1>1, <1>2, <1>7
<1> QED BY <1>1, <1>2, <1>7, <1>8

(* A string: text up to its last byte, none of it code.  And where there is *)
(* none, what is printable from here on is short.                          *)
LEMMA StringFound ==
  ASSUME NEW image \in Images, NEW code, NEW start \in Nat,
         NEW n, n = string_run(image, code, start)
  PROVE  /\ n \in Nat /\ (n # 0 => start + n <= Size(image))
         /\ \A k \in 0 .. n - 1 : start + k \notin code
         /\ \A k \in 0 .. n - 2 : Byte(image, start + k) \in Printable
         /\ n = 0 => ~ \A k \in 0 .. StringMinimum - 1 :
                         /\ Loose(image, code, start + k)
                         /\ Byte(image, start + k) \in Printable
<1> DEFINE m     == Letters(image, code, start)
           extra == IF Terminates(image, code, start + m) THEN 1 ELSE 0
<1>1. Size(image) \in Nat
  BY DEF Size, Images
<1>2. /\ m \in 0 .. Size(image)
      /\ ~(Loose(image, code, start + m) /\ Byte(image, start + m) \in Printable)
      /\ \A k \in 0 .. m - 1 : Loose(image, code, start + k) /\ Byte(image, start + k) \in Printable
  BY LettersFound
<1>3. n = IF m = 0 \/ m < StringMinimum - extra THEN 0 ELSE m + extra
  BY DEF string_run
<1>4. extra \in {0, 1} /\ (extra = 1 => Loose(image, code, start + m))
  BY DEF Terminates
<1> HIDE DEF m, extra
<1>5. StringMinimum \in Nat /\ StringMinimum > 1
  BY AnalyserAssumption
<1>6. CASE m = 0 \/ m < StringMinimum - extra
  <2>1. n = 0
    BY <1>3, <1>6
  <2>2. m \in 0 .. StringMinimum - 1
    BY <1>1, <1>2, <1>4, <1>5, <1>6
  <2> QED BY <1>2, <2>1, <2>2
<1>7. CASE ~(m = 0 \/ m < StringMinimum - extra)
  <2>1. n = m + extra /\ n # 0
    BY <1>1, <1>2, <1>3, <1>4, <1>7
  <2>2. \A k \in 0 .. n - 1 : Loose(image, code, start + k)
    BY <1>1, <1>2, <1>4, <2>1
  <2>3. \A k \in 0 .. n - 2 : Byte(image, start + k) \in Printable
    BY <1>1, <1>2, <1>4, <2>1
  <2>4. Loose(image, code, start + (n - 1))
    BY <1>1, <1>2, <1>4, <2>1, <2>2
  <2> QED BY <1>1, <1>2, <1>4, <2>1, <2>2, <2>3, <2>4 DEF Loose, Inside
<1> QED BY <1>6, <1>7

-----------------------------------------------------------------------------
(* One region as zdasm_analyse promises it. *)
Kinds      == {"code", "string", "data", "none"}
RegionType == [start : Nat, length : Nat, kind : Kinds]

Good(image, code, r) ==
  /\ r \in RegionType /\ r.length > 0 /\ r.kind # "none"
  /\ r.kind = "code" => \A at \in Stretch(r) : at \in code
  /\ r.kind # "code" => \A at \in Stretch(r) : at \notin code
  /\ r.kind = "string" =>
       \A at \in Stretch(r) : at < r.start + r.length - 1 => Byte(image, at) \in Printable
  /\ r.kind = "data" => \A at \in Stretch(r) : string_run(image, code, at) = 0

RegionOf(piece) == [start |-> piece.start, length |-> piece.span, kind |-> piece.kind]

(* One turn of the loop finds such a region, inside the image. *)
LEMMA PieceFound ==
  ASSUME NEW image \in Images, NEW code \in SUBSET (0 .. Size(image) - 1),
         NEW at \in Nat, at < Size(image),
         NEW piece, piece = Piece(image, code, at)
  PROVE  /\ piece.start = at /\ piece.span \in Nat \ {0} /\ at + piece.span <= Size(image)
         /\ piece.kind \in {"code", "string", "data"}
         /\ Good(image, code, RegionOf(piece))
<1> DEFINE text == string_run(image, code, at)
<1>1. Size(image) \in Nat
  BY DEF Size, Images
<1>2. CASE at \in code
  <2> DEFINE n == CodeRun(image, code, at)
  <2>1. /\ n \in 1 .. Size(image) /\ at + n <= Size(image)
        /\ at .. at + n - 1 \subseteq code
    BY <1>2, CodeRunFound
  <2>2. piece = [start |-> at, span |-> n, kind |-> "code"]
    BY <1>2 DEF Piece
  <2> HIDE DEF n
  <2>3. LET r == RegionOf(piece)
         IN r \in RegionType /\ r.start = at /\ r.length = n /\ r.kind = "code"
    BY <1>1, <2>1, <2>2 DEF RegionOf, RegionType, Kinds
  <2>4. Stretch(RegionOf(piece)) = at .. at + n - 1
    BY <2>3 DEF Stretch
  <2> QED BY <1>1, <2>1, <2>2, <2>3, <2>4 DEF Good
<1>3. CASE at \notin code /\ text > 0
  <2>1. /\ text \in Nat /\ at + text <= Size(image)
        /\ \A k \in 0 .. text - 1 : at + k \notin code
        /\ \A k \in 0 .. text - 2 : Byte(image, at + k) \in Printable
    BY <1>3, StringFound
  <2>2. piece = [start |-> at, span |-> text, kind |-> "string"]
    BY <1>3 DEF Piece
  <2> HIDE DEF text
  <2>3. \A a \in at .. at + text - 1 : a \notin code
    <3> SUFFICES ASSUME NEW a \in at .. at + text - 1 PROVE a \notin code
      OBVIOUS
    <3>1. a - at \in 0 .. text - 1 /\ a = at + (a - at)
      BY <2>1
    <3> QED BY <2>1, <3>1
  <2>4. \A a \in at .. at + text - 1 : a < at + text - 1 => Byte(image, a) \in Printable
    <3> SUFFICES ASSUME NEW a \in at .. at + text - 1, a < at + text - 1
                 PROVE  Byte(image, a) \in Printable
      OBVIOUS
    <3>1. a - at \in 0 .. text - 2 /\ a = at + (a - at)
      BY <2>1
    <3> QED BY <2>1, <3>1
  <2>5. LET r == RegionOf(piece)
         IN r \in RegionType /\ r.start = at /\ r.length = text /\ r.kind = "string"
    BY <1>1, <2>1, <2>2 DEF RegionOf, RegionType, Kinds
  <2>6. Stretch(RegionOf(piece)) = at .. at + text - 1
    BY <2>5 DEF Stretch
  <2> QED BY <1>1, <1>3, <2>1, <2>2, <2>3, <2>4, <2>5, <2>6 DEF Good
<1>4. CASE at \notin code /\ ~(text > 0)
  <2>1. text = 0
    BY <1>4, StringFound
  <2>2. piece = [start |-> at, span |-> 1, kind |-> "data"]
    BY <1>4 DEF Piece
  <2>3. \A a \in at .. at + 1 - 1 : a = at
    OBVIOUS
  <2>4. LET r == RegionOf(piece)
         IN r \in RegionType /\ r.start = at /\ r.length = 1 /\ r.kind = "data"
    BY <1>1, <2>1, <2>2 DEF RegionOf, RegionType, Kinds
  <2>5. Stretch(RegionOf(piece)) = at .. at + 1 - 1
    BY <2>4 DEF Stretch
  <2> QED BY <1>1, <1>4, <2>1, <2>2, <2>3, <2>4, <2>5 DEF Good
<1> QED BY <1>2, <1>3, <1>4

(* Regions that follow each other from 0 to an end, no more of them than     *)
(* there are bytes.                                                        *)
Tiled(image, code, s, end) ==
  /\ s \in Seq(RegionType) /\ Len(s) <= end
  /\ IF s = << >> THEN end = 0
     ELSE s[1].start = 0 /\ s[Len(s)].start + s[Len(s)].length = end
  /\ \A k \in 2 .. Len(s) : /\ s[k].start = s[k - 1].start + s[k - 1].length
                            /\ s[k].kind = s[k - 1].kind => s[k].kind = "string"
  /\ \A k \in 1 .. Len(s) : Good(image, code, s[k])

Unlike(s, r) == s # << >> => (s[Len(s)].kind = r.kind => r.kind = "string")

LEMMA TiledFurther ==
  ASSUME NEW image, NEW code, NEW s, NEW r,
         Good(image, code, r), Tiled(image, code, s, r.start), Unlike(s, r)
  PROVE  Tiled(image, code, Append(s, r), r.start + r.length)
<1> DEFINE t == Append(s, r)
<1>1. s \in Seq(RegionType) /\ r \in RegionType /\ r.start \in Nat /\ r.length \in Nat \ {0}
  BY DEF Tiled, Good, RegionType
<1>2. /\ t \in Seq(RegionType) /\ Len(t) = Len(s) + 1 /\ t # << >>
      /\ \A k \in 1 .. Len(s) : t[k] = s[k]
      /\ t[Len(s) + 1] = r /\ Len(s) \in Nat
  BY <1>1
<1> HIDE DEF t
<1>3. t[1].start = 0
  <2>1. CASE s = << >>
    BY <1>1, <1>2, <2>1 DEF Tiled
  <2>2. CASE s # << >>
    <3>1. 1 \in 1 .. Len(s)
      BY <1>1, <2>2
    <3> QED BY <1>2, <2>2, <3>1 DEF Tiled
  <2> QED BY <2>1, <2>2
<1>4. ASSUME NEW k \in 2 .. Len(t)
      PROVE  /\ t[k].start = t[k - 1].start + t[k - 1].length
             /\ t[k].kind = t[k - 1].kind => t[k].kind = "string"
  <2>1. CASE k \in 2 .. Len(s)
    <3>1. t[k] = s[k] /\ t[k - 1] = s[k - 1]
      BY <1>2, <2>1
    <3> QED BY <2>1, <3>1 DEF Tiled
  <2>2. CASE k = Len(s) + 1
    <3>1. s # << >> /\ k - 1 = Len(s) /\ t[k - 1] = s[Len(s)] /\ t[k] = r
      BY <1>1, <1>2, <2>2
    <3> QED BY <3>1 DEF Tiled, Unlike
  <2> QED BY <1>2, <2>1, <2>2
<1>5. \A k \in 1 .. Len(t) : Good(image, code, t[k])
  BY <1>2 DEF Tiled
<1>6. Len(t) <= r.start + r.length
  BY <1>1, <1>2 DEF Tiled
<1> QED BY <1>2, <1>3, <1>4, <1>5, <1>6 DEF Tiled, t

-----------------------------------------------------------------------------
(* The builder with room for all: what it has put out and its last region    *)
(* tile the image up to the cursor.                                        *)
BuilderType == [out : Seq(RegionType), capacity : Nat, count : Nat, last : RegionType]

Building(image, code, b, at) ==
  /\ b \in BuilderType /\ b.capacity = WordSize /\ b.count = Len(b.out)
  /\ b.last.kind = "none" => b.out = << >> /\ at = 0
  /\ b.last.kind # "none" =>
       /\ Good(image, code, b.last) /\ b.last.start + b.last.length = at
       /\ Tiled(image, code, b.out, b.last.start) /\ Unlike(b.out, b.last)

(* Another one has put out as many of the same as it has room for. *)
Follows(b, f) ==
  /\ b \in BuilderType /\ b.last = f.last /\ b.count = Len(f.out)
  /\ Len(b.out) = IF b.capacity < Len(f.out) THEN b.capacity ELSE Len(f.out)
  /\ \A k \in 1 .. Len(b.out) : b.out[k] = f.out[k]

LEMMA NoRegionType == NoRegion \in RegionType /\ NoRegion.kind = "none"
  BY DEF NoRegion, RegionType, Kinds

LEMMA Flushed ==
  ASSUME NEW b \in BuilderType
  PROVE  /\ flush(b) \in BuilderType /\ flush(b).capacity = b.capacity
         /\ b.last.kind = "none" => flush(b) = b
         /\ b.last.kind # "none" =>
              /\ flush(b).last = NoRegion /\ flush(b).count = b.count + 1
              /\ b.count < b.capacity => flush(b).out = Append(b.out, b.last)
              /\ ~(b.count < b.capacity) => flush(b).out = b.out
<1>1. /\ b.out \in Seq(RegionType) /\ b.last \in RegionType
      /\ b.count \in Nat /\ b.capacity \in Nat
      /\ b = [out |-> b.out, capacity |-> b.capacity, count |-> b.count, last |-> b.last]
  BY DEF BuilderType
<1>2. Append(b.out, b.last) \in Seq(RegionType)
  BY <1>1
<1>3. CASE b.last.kind = "none"
  BY <1>3 DEF flush
<1>4. CASE b.last.kind # "none"
  <2> DEFINE more == IF b.count < b.capacity THEN Append(b.out, b.last) ELSE b.out
  <2>1. flush(b) = [out |-> more, capacity |-> b.capacity, count |-> b.count + 1, last |-> NoRegion]
    BY <1>1, <1>4 DEF flush
  <2>2. more \in Seq(RegionType)
    BY <1>1, <1>2
  <2>3. flush(b) \in BuilderType
    <3> HIDE DEF more
    <3> QED BY <1>1, <2>1, <2>2, NoRegionType DEF BuilderType
  <2> QED BY <1>4, <2>1, <2>3
<1> QED BY <1>3, <1>4

LEMMA BuildingFlushed ==
  ASSUME NEW image, NEW code, NEW b, NEW at \in Nat, at < WordSize, Building(image, code, b, at)
  PROVE  flush(b).count = Len(flush(b).out) /\ Tiled(image, code, flush(b).out, at)
<1>1. b \in BuilderType /\ b.out \in Seq(RegionType)
  BY DEF Building, BuilderType
<1>2. CASE b.last.kind = "none"
  <2>1. flush(b) = b /\ b.out = << >> /\ at = 0 /\ b.count = Len(b.out)
    BY <1>1, <1>2, Flushed DEF Building
  <2>2. Tiled(image, code, << >>, 0)
    BY DEF Tiled
  <2> QED BY <2>1, <2>2
<1>3. CASE b.last.kind # "none"
  <2>1. /\ Good(image, code, b.last) /\ b.last.start + b.last.length = at
        /\ Tiled(image, code, b.out, b.last.start) /\ Unlike(b.out, b.last)
        /\ b.capacity = WordSize /\ b.count = Len(b.out)
    BY <1>3 DEF Building
  <2>2. Len(b.out) <= b.last.start /\ b.last.start \in Nat /\ b.last.length \in Nat /\ Len(b.out) \in Nat
    BY <1>1, <2>1 DEF Tiled, Good, RegionType
  <2>3. b.count < b.capacity
    BY <2>1, <2>2, WordSizeType
  <2>4. Tiled(image, code, Append(b.out, b.last), at)
    BY <2>1, TiledFurther
  <2>5. /\ flush(b).out = Append(b.out, b.last) /\ flush(b).last = NoRegion
        /\ flush(b) \in BuilderType /\ flush(b).capacity = b.capacity
        /\ flush(b).count = b.count + 1
    BY <1>1, <1>3, <2>3, Flushed
  <2>6. Len(Append(b.out, b.last)) = Len(b.out) + 1
    BY <1>1
  <2> QED BY <2>1, <2>4, <2>5, <2>6, NoRegionType DEF Building
<1> QED BY <1>2, <1>3

LEMMA FollowsFlushed ==
  ASSUME NEW b, NEW f \in BuilderType, Follows(b, f),
         f.count = Len(f.out), f.last.kind # "none" => Len(f.out) < f.capacity
  PROVE  Follows(flush(b), flush(f))
<1>1. b \in BuilderType /\ b.out \in Seq(RegionType) /\ f.out \in Seq(RegionType)
      /\ b.capacity \in Nat
  BY DEF Follows, BuilderType
<1>2. CASE f.last.kind = "none"
  BY <1>1, <1>2, Flushed DEF Follows
<1>3. CASE f.last.kind # "none"
  <2>1. /\ flush(f).out = Append(f.out, f.last) /\ flush(f).last = NoRegion
    BY <1>3, Flushed
  <2>2. /\ flush(b) \in BuilderType /\ flush(b).capacity = b.capacity
        /\ flush(b).last = NoRegion /\ flush(b).count = b.count + 1
        /\ b.count < b.capacity => flush(b).out = Append(b.out, f.last)
        /\ ~(b.count < b.capacity) => flush(b).out = b.out
    BY <1>1, <1>3, Flushed DEF Follows
  <2>3. /\ b.count = Len(f.out) /\ Len(f.out) \in Nat /\ Len(b.out) \in Nat
        /\ Len(b.out) = IF b.capacity < Len(f.out) THEN b.capacity ELSE Len(f.out)
        /\ \A k \in 1 .. Len(b.out) : b.out[k] = f.out[k]
    BY <1>1 DEF Follows
  <2> DEFINE g == Append(f.out, f.last)
  <2>4. /\ Len(g) = Len(f.out) + 1 /\ g[Len(f.out) + 1] = f.last
        /\ \A k \in 1 .. Len(f.out) : g[k] = f.out[k]
    BY <1>1
  <2>5. CASE b.count < b.capacity
    <3> DEFINE h == Append(b.out, f.last)
    <3>1. /\ Len(h) = Len(b.out) + 1 /\ h[Len(b.out) + 1] = f.last
          /\ \A k \in 1 .. Len(b.out) : h[k] = b.out[k]
      BY <1>1
    <3>2. Len(b.out) = Len(f.out)
      BY <1>1, <2>3, <2>5
    <3> HIDE DEF h, g
    <3>3. \A k \in 1 .. Len(h) : h[k] = g[k]
      BY <2>3, <2>4, <3>1, <3>2
    <3>4. flush(b).out = h /\ flush(f).out = g
      BY <2>1, <2>2, <2>5 DEF g, h
    <3> QED BY <1>1, <2>1, <2>2, <2>3, <2>4, <2>5, <3>1, <3>2, <3>3, <3>4 DEF Follows
  <2>6. CASE ~(b.count < b.capacity)
    <3> HIDE DEF g
    <3>1. flush(b).out = b.out /\ flush(f).out = g
      BY <2>1, <2>2, <2>6 DEF g
    <3>2. Len(b.out) = b.capacity
      BY <1>1, <2>3, <2>6
    <3>3. \A k \in 1 .. Len(b.out) : b.out[k] = g[k]
      BY <1>1, <2>3, <2>4, <2>6, <3>2
    <3> QED BY <1>1, <2>1, <2>2, <2>3, <2>4, <2>6, <3>1, <3>2, <3>3 DEF Follows
  <2> QED BY <2>5, <2>6
<1> QED BY <1>2, <1>3

Merges(b, piece) ==
  /\ piece.kind # "string" /\ b.last.kind = piece.kind
  /\ b.last.start + b.last.length = piece.start

LEMMA Appended ==
  ASSUME NEW b \in BuilderType, NEW piece,
         RegionOf(piece) \in RegionType, piece.start + piece.span < WordSize
  PROVE  /\ append(b, piece) \in BuilderType /\ append(b, piece).capacity = b.capacity
         /\ Merges(b, piece) =>
              /\ append(b, piece).out = b.out /\ append(b, piece).count = b.count
              /\ append(b, piece).last = [start |-> b.last.start, kind |-> b.last.kind,
                                          length |-> b.last.length + piece.span]
         /\ ~Merges(b, piece) =>
              /\ append(b, piece).out = flush(b).out
              /\ append(b, piece).count = flush(b).count
              /\ append(b, piece).last = RegionOf(piece)
<1>1. /\ b.out \in Seq(RegionType) /\ b.last \in RegionType
      /\ b.count \in Nat /\ b.capacity \in Nat
      /\ b = [out |-> b.out, capacity |-> b.capacity, count |-> b.count, last |-> b.last]
  BY DEF BuilderType
<1>2. /\ b.last.start \in Nat /\ b.last.length \in Nat /\ b.last.kind \in Kinds
      /\ b.last = [start |-> b.last.start, length |-> b.last.length, kind |-> b.last.kind]
  BY <1>1 DEF RegionType
<1>3. piece.start \in Nat /\ piece.span \in Nat /\ piece.kind \in Kinds
  BY DEF RegionOf, RegionType
<1>4. piece.span % WordSize = piece.span
  BY <1>3, WordSizeType
<1>5. CASE Merges(b, piece)
  <2>1. (b.last.length + piece.span) % WordSize = b.last.length + piece.span
    BY <1>2, <1>3, <1>5, WordSizeType DEF Merges
  <2>2. append(b, piece) = [b EXCEPT !.last.length = (@ + piece.span) % WordSize]
    BY <1>5 DEF append, Merges
  <2> DEFINE last == [start |-> b.last.start, kind |-> b.last.kind,
                      length |-> b.last.length + piece.span]
  <2>3. append(b, piece) = [out |-> b.out, capacity |-> b.capacity, count |-> b.count, last |-> last]
    BY <1>1, <1>2, <2>1, <2>2
  <2>4. last \in RegionType
    BY <1>2, <1>3 DEF RegionType
  <2> HIDE DEF last
  <2>5. append(b, piece) \in BuilderType
    BY <1>1, <2>3, <2>4 DEF BuilderType
  <2> QED BY <1>5, <2>3, <2>5 DEF last
<1>6. CASE ~Merges(b, piece)
  <2>1. append(b, piece) =
          [flush(b) EXCEPT !.last = [start |-> piece.start, length |-> piece.span % WordSize,
                                     kind |-> piece.kind]]
    BY <1>6 DEF append, Merges
  <2>2. flush(b) \in BuilderType /\ flush(b).capacity = b.capacity
    BY Flushed
  <2>3. append(b, piece) = [out |-> flush(b).out, capacity |-> b.capacity,
                            count |-> flush(b).count, last |-> RegionOf(piece)]
    BY <1>4, <2>1, <2>2 DEF BuilderType, RegionOf
  <2>4. append(b, piece) \in BuilderType
    BY <2>2, <2>3 DEF BuilderType
  <2> QED BY <1>6, <2>3, <2>4
<1> QED BY <1>5, <1>6

(* A piece behind what there is: a region grows, or another begins. *)
LEMMA BuildingAppended ==
  ASSUME NEW image, NEW code, NEW b, NEW at \in Nat, at < WordSize, NEW piece,
         Building(image, code, b, at),
         piece.start = at, piece.span \in Nat \ {0}, at + piece.span < WordSize,
         Good(image, code, RegionOf(piece))
  PROVE  Building(image, code, append(b, piece), at + piece.span)
<1> DEFINE c == append(b, piece)
           r == RegionOf(piece)
<1>1. b \in BuilderType /\ b.capacity = WordSize /\ b.count = Len(b.out)
  BY DEF Building
<1>2. r \in RegionType /\ r.start = at /\ r.length = piece.span /\ r.kind = piece.kind
      /\ r.kind # "none"
  BY DEF Good, RegionOf
<1>3. CASE Merges(b, piece)
  <2> DEFINE l == b.last
             m == c.last
  <2>1. /\ c \in BuilderType /\ c.capacity = WordSize /\ c.out = b.out /\ c.count = b.count
        /\ m.start = l.start /\ m.kind = l.kind /\ m.length = l.length + piece.span
        /\ m \in RegionType
    <3>1. /\ c \in BuilderType /\ c.capacity = WordSize /\ c.out = b.out /\ c.count = b.count
          /\ m = [start |-> l.start, kind |-> l.kind, length |-> l.length + piece.span]
      BY <1>1, <1>2, <1>3, Appended
    <3>2. m \in RegionType
      BY <3>1 DEF BuilderType
    <3> QED BY <3>1, <3>2
  <2>2. /\ l.kind = r.kind /\ l.kind # "none" /\ l.kind # "string"
    BY <1>2, <1>3 DEF Merges
  <2>3. /\ Good(image, code, l) /\ l.start + l.length = at
        /\ Tiled(image, code, b.out, l.start) /\ Unlike(b.out, l)
    BY <2>2 DEF Building
  <2>4. l.start \in Nat /\ l.length \in Nat
    BY <2>3 DEF Good, RegionType
  <2> HIDE DEF l, m, r, c
  <2>5. \A a \in Stretch(m) : a \in Stretch(l) \/ a \in Stretch(r)
    BY <1>2, <2>1, <2>3, <2>4 DEF Stretch
  <2>6. Good(image, code, m)
    <3>1. m.length > 0 /\ m.kind = l.kind /\ m.kind = r.kind
      BY <2>1, <2>2, <2>4
    <3>2. Good(image, code, r)
      BY DEF r
    <3> QED BY <2>1, <2>2, <2>3, <2>5, <3>1, <3>2 DEF Good
  <2>7. m.start + m.length = at + piece.span
    BY <2>1, <2>3, <2>4
  <2>8. Unlike(c.out, m)
    BY <2>1, <2>3 DEF Unlike
  <2>9. Building(image, code, c, at + piece.span)
    BY <1>1, <2>1, <2>2, <2>3, <2>6, <2>7, <2>8 DEF Building, m
  <2> QED BY <2>9 DEF c
<1>4. CASE ~Merges(b, piece)
  <2>1. /\ c \in BuilderType /\ c.capacity = WordSize
        /\ c.out = flush(b).out /\ c.count = flush(b).count /\ c.last = r
    BY <1>1, <1>2, <1>4, Appended
  <2>2. Tiled(image, code, flush(b).out, at) /\ flush(b).count = Len(flush(b).out)
    BY BuildingFlushed
  <2>3. Unlike(flush(b).out, r)
    <3>1. CASE b.last.kind = "none"
      <4>1. flush(b) = b
        BY <1>1, <3>1, Flushed
      <4> QED BY <4>1, <3>1 DEF Unlike, Building
    <3>2. CASE b.last.kind # "none"
      <4>1. /\ b.last.start + b.last.length = at /\ Tiled(image, code, b.out, b.last.start)
            /\ Good(image, code, b.last)
        BY <3>2 DEF Building
      <4>2. Len(b.out) \in Nat /\ Len(b.out) <= b.last.start /\ b.last.start \in Nat
            /\ b.last.length \in Nat /\ b.last \in RegionType
        BY <1>1, <4>1 DEF Tiled, Good, RegionType, BuilderType
      <4>3. b.count < b.capacity
        BY <1>1, <4>1, <4>2, WordSizeType
      <4>4. flush(b).out = Append(b.out, b.last) /\ b.out \in Seq(RegionType)
        BY <1>1, <3>2, <4>3, Flushed DEF BuilderType
      <4>5. flush(b).out[Len(flush(b).out)] = b.last
        BY <4>2, <4>4
      <4>6. b.last.kind = r.kind => r.kind = "string"
        BY <1>2, <1>4, <4>1 DEF Merges
      <4> QED BY <4>5, <4>6 DEF Unlike
    <3> QED BY <3>1, <3>2
  <2> QED BY <1>2, <2>1, <2>2, <2>3 DEF Building
<1> QED BY <1>3, <1>4

LEMMA FollowsAppended ==
  ASSUME NEW b, NEW f \in BuilderType, Follows(b, f), NEW piece,
         RegionOf(piece) \in RegionType, piece.start + piece.span < WordSize,
         f.count = Len(f.out), f.last.kind # "none" => Len(f.out) < f.capacity
  PROVE  Follows(append(b, piece), append(f, piece))
<1>1. b \in BuilderType /\ b.last = f.last
  BY DEF Follows
<1>2. CASE Merges(f, piece)
  <2>1. Merges(b, piece)
    BY <1>1, <1>2 DEF Merges
  <2>2. /\ append(f, piece).out = f.out
        /\ append(f, piece).last = [start |-> f.last.start, kind |-> f.last.kind,
                                    length |-> f.last.length + piece.span]
    BY <1>2, Appended
  <2>3. /\ append(b, piece) \in BuilderType /\ append(b, piece).capacity = b.capacity
        /\ append(b, piece).out = b.out /\ append(b, piece).count = b.count
        /\ append(b, piece).last = [start |-> b.last.start, kind |-> b.last.kind,
                                    length |-> b.last.length + piece.span]
    BY <1>1, <2>1, Appended
  <2> QED BY <1>1, <2>2, <2>3 DEF Follows
<1>3. CASE ~Merges(f, piece)
  <2>1. ~Merges(b, piece)
    BY <1>1, <1>3 DEF Merges
  <2>2. Follows(flush(b), flush(f)) /\ flush(b).capacity = b.capacity
    BY <1>1, FollowsFlushed, Flushed
  <2>3. append(f, piece).out = flush(f).out /\ append(f, piece).last = RegionOf(piece)
    BY <1>3, Appended
  <2>4. /\ append(b, piece) \in BuilderType /\ append(b, piece).capacity = b.capacity
        /\ append(b, piece).out = flush(b).out /\ append(b, piece).count = flush(b).count
        /\ append(b, piece).last = RegionOf(piece)
    BY <1>1, <2>1, Appended
  <2> QED BY <2>2, <2>3, <2>4 DEF Follows
<1> QED BY <1>2, <1>3

-----------------------------------------------------------------------------
(* What control can come to.  One more instruction: *)
More(image, before) == before \union UNION {Successors(image, pc) : pc \in before}
Closed(image, S)    == \A pc \in S : Successors(image, pc) \subseteq S

(* The recursion of Reached defines a function. *)
LEMMA ReachedDefined ==
  ASSUME NEW image \in Images, NEW f, f = Reached(image)
  PROVE  /\ f[0] = {0}
         /\ \A n \in 1 .. Size(image) : f[n] = More(image, f[n - 1])
<1> DEFINE Step(g, n) == IF n = 0 THEN {0} ELSE More(image, g[n - 1])
           S == {m \in Nat : \E g : g = [n \in 0 .. m |-> Step(g, n)]}
<1>1. Size(image) \in Nat
  BY DEF Size, Images
<1>2. 0 \in S
  <2> DEFINE g == [n \in 0 .. 0 |-> {0}]
  <2>1. g = [n \in 0 .. 0 |-> Step(g, n)]
    BY \A n \in 0 .. 0 : n = 0
  <2> QED BY <2>1
<1>3. ASSUME NEW m \in Nat, m \in S PROVE m + 1 \in S
  <2>1. PICK g : g = [n \in 0 .. m |-> Step(g, n)]
    BY <1>3
  <2>4. \A n \in 0 .. m : g[n] = Step(g, n)
    <3> HIDE DEF Step
    <3> QED BY <2>1
  <2> DEFINE h == [n \in 0 .. m + 1 |-> IF n = m + 1 THEN More(image, g[m]) ELSE g[n]]
  <2>2. ASSUME NEW n \in 0 .. m + 1 PROVE h[n] = Step(h, n)
    <3>1. CASE n = m + 1
      <4>1. h[n] = More(image, g[m]) /\ h[n - 1] = g[m] /\ n # 0
        BY <3>1
      <4> QED BY <4>1, <3>1
    <3>2. CASE n \in 1 .. m
      <4>1. h[n] = g[n] /\ g[n] = Step(g, n) /\ h[n - 1] = g[n - 1] /\ n # 0
        <5>1. n \in 0 .. m /\ n \in 0 .. m + 1 /\ n - 1 \in 0 .. m + 1 /\ n # m + 1 /\ n - 1 # m + 1 /\ n # 0
          BY <3>2
        <5>2. g[n] = Step(g, n)
          BY <2>4, <5>1
        <5>3. h[n] = g[n] /\ h[n - 1] = g[n - 1]
          <6> HIDE DEF Step
          <6> QED BY <5>1
        <5> HIDE DEF Step, h
        <5> QED BY <5>1, <5>2, <5>3
      <4> QED BY <4>1
    <3>3. CASE n = 0
      <4>1. h[0] = g[0] /\ g[0] = Step(g, 0)
        BY <2>4
      <4> QED BY <4>1, <3>3
    <3> QED BY <3>1, <3>2, <3>3
  <2>3. h = [n \in 0 .. m + 1 |-> Step(h, n)]
    <3> HIDE DEF Step
    <3>1. h = [n \in 0 .. m + 1 |-> h[n]]
      OBVIOUS
    <3> HIDE DEF h
    <3> QED BY <2>2, <3>1
  <2> HIDE DEF h
  <2> QED BY <2>3
<1>4. Size(image) \in S
  <2> HIDE DEF S
  <2> QED BY <1>1, <1>2, <1>3, SetInduction
<1>5. \E g : g = [n \in 0 .. Size(image) |-> Step(g, n)]
  BY <1>4
<1>6. f = CHOOSE g : g = [n \in 0 .. Size(image) |-> Step(g, n)]
  BY DEF Reached, More
<1>7. f = [n \in 0 .. Size(image) |-> Step(f, n)]
  <2> HIDE DEF Step
  <2> QED BY <1>5, <1>6
<1>8. \A n \in 0 .. Size(image) : f[n] = Step(f, n)
  <2> HIDE DEF Step
  <2> QED BY <1>7
<1> QED BY <1>1, <1>8

Decodes(image, at)  == at \in Nat /\ Inside(image, at) /\ zdasm_decode(image, at).known
Decodable(image)    == {at \in 0 .. Size(image) - 1 : zdasm_decode(image, at).known}

LEMMA SuccessorsDecode ==
  ASSUME NEW image \in Images, NEW pc \in Decodable(image)
  PROVE  Successors(image, pc) \subseteq Decodable(image)
<1>1. Size(image) \in Nat
  BY DEF Size, Images
<1>2. pc \in Nat /\ Decoded(image, pc, zdasm_decode(image, pc))
  BY <1>1, DecodeType DEF Decodable
<1>3. \A x \in Nat : (pc + x) % WordSize \in Nat
  BY <1>2, WordSizeType
<1>4. zdasm_decode(image, pc).target \in Nat /\ zdasm_decode(image, pc).length \in Nat
  BY <1>2 DEF Decoded
<1> HIDE DEF zdasm_decode
<1>5. ASSUME NEW to \in Successors(image, pc) PROVE to \in Decodable(image)
  <2>1. /\ to = zdasm_decode(image, pc).target
           \/ to = (pc + zdasm_decode(image, pc).length) % WordSize
        /\ Inside(image, to) /\ zdasm_decode(image, to).known
    BY <1>5 DEF Successors
  <2>2. to \in Nat
    BY <1>3, <1>4, <2>1
  <2> QED BY <1>1, <2>1, <2>2 DEF Inside, Decodable
<1> QED BY <1>5

(* What is reachable: addresses that decode, the first among them, closed    *)
(* under going on, and nothing that another such set does not have.        *)
LEMMA ReachableIsLeast ==
  ASSUME NEW image \in Images, NEW R, R = Reachable(image)
  PROVE  /\ R \subseteq Decodable(image) /\ Closed(image, R)
         /\ Decodes(image, 0) => 0 \in R
         /\ \A T : (Decodes(image, 0) => 0 \in T) /\ Closed(image, T) => R \subseteq T
<1> DEFINE N == Size(image)
           D == Decodable(image)
           f == Reached(image)
<1>1. N \in Nat /\ (image # << >> <=> N > 0)
  BY DEF Size, Images
<1>2. Decodes(image, 0) <=> image # << >> /\ zdasm_decode(image, 0).known
  BY <1>1 DEF Decodes, Inside, Size
<1>3. CASE ~Decodes(image, 0)
  <2>1. R = {}
    BY <1>2, <1>3 DEF Reachable
  <2> QED BY <1>3, <2>1 DEF Closed
<1>4. CASE Decodes(image, 0)
  <2>1. R = f[N]
    BY <1>2, <1>4 DEF Reachable
  <2>2. f[0] = {0} /\ \A n \in 1 .. N : f[n] = More(image, f[n - 1])
    BY ReachedDefined
  <2> HIDE DEF f, N
  <2>3. \A S \in SUBSET D : More(image, S) \subseteq D /\ S \subseteq More(image, S)
    BY SuccessorsDecode DEF More
  <2>4. {0} \subseteq D
    BY <1>1, <1>2, <1>4 DEF Decodable, N
  <2>5. \A n \in 0 .. N : f[n] \subseteq D /\ 0 \in f[n]
    <3> DEFINE S == {n \in Nat : n <= N => f[n] \subseteq D /\ 0 \in f[n]}
    <3>1. 0 \in S
      BY <2>2, <2>4
    <3>2. ASSUME NEW n \in Nat, n \in S PROVE n + 1 \in S
      <4> SUFFICES ASSUME n + 1 <= N PROVE f[n + 1] \subseteq D /\ 0 \in f[n + 1]
        OBVIOUS
      <4>1. f[n] \subseteq D /\ 0 \in f[n]
        BY <1>1, <3>2 DEF N
      <4>2. n + 1 \in 1 .. N /\ (n + 1) - 1 = n
        BY <1>1 DEF N
      <4>3. f[n + 1] = More(image, f[n])
        BY <2>2, <4>2
      <4> QED BY <2>3, <4>1, <4>3
    <3> HIDE DEF S
    <3>3. Nat \subseteq S
      BY <3>1, <3>2, SetInduction
    <3> QED BY <1>1, <3>3 DEF S, N
  <2>6. \A T : 0 \in T /\ Closed(image, T) => f[N] \subseteq T
    <3> SUFFICES ASSUME NEW T, 0 \in T, Closed(image, T) PROVE f[N] \subseteq T
      OBVIOUS
    <3> DEFINE S == {n \in Nat : n <= N => f[n] \subseteq T}
    <3>1. 0 \in S
      BY <2>2
    <3>2. ASSUME NEW n \in Nat, n \in S PROVE n + 1 \in S
      <4> SUFFICES ASSUME n + 1 <= N PROVE f[n + 1] \subseteq T
        OBVIOUS
      <4>1. f[n] \subseteq T
        BY <1>1, <3>2 DEF N
      <4>2. n + 1 \in 1 .. N /\ (n + 1) - 1 = n
        BY <1>1 DEF N
      <4>3. f[n + 1] = More(image, f[n])
        BY <2>2, <4>2
      <4> QED BY <4>1, <4>3 DEF More, Closed
    <3> HIDE DEF S
    <3>3. Nat \subseteq S
      BY <3>1, <3>2, SetInduction
    <3> QED BY <1>1, <3>3 DEF S, N
  <2>7. IsFiniteSet(D) /\ Cardinality(D) <= N
    <3>1. IsFiniteSet(0 .. N - 1) /\ Cardinality(0 .. N - 1) = N
      BY <1>1, FS_Interval DEF N
    <3>2. D \in SUBSET (0 .. N - 1)
      BY DEF Decodable, N
    <3> QED BY <3>1, <3>2, FS_Subset
  <2>8. \A n \in 0 .. N : Closed(image, f[n]) \/ Cardinality(f[n]) >= n + 1
    <3> DEFINE S == {n \in Nat : n <= N => Closed(image, f[n]) \/ Cardinality(f[n]) >= n + 1}
    <3>1. 0 \in S
      BY <2>2, FS_Singleton
    <3>2. ASSUME NEW n \in Nat, n \in S PROVE n + 1 \in S
      <4> SUFFICES ASSUME n + 1 <= N
                   PROVE  Closed(image, f[n + 1]) \/ Cardinality(f[n + 1]) >= (n + 1) + 1
        OBVIOUS
      <4>1. n + 1 \in 1 .. N /\ (n + 1) - 1 = n /\ n \in 0 .. N /\ n + 1 \in 0 .. N
        BY <1>1 DEF N
      <4>2. f[n + 1] = More(image, f[n])
        BY <2>2, <4>1
      <4>3. CASE Closed(image, f[n])
        <5>1. f[n + 1] = f[n]
          BY <4>2, <4>3 DEF More, Closed
        <5> QED BY <4>3, <5>1
      <4>4. CASE ~Closed(image, f[n])
        <5>1. Cardinality(f[n]) >= n + 1
          BY <3>2, <4>1, <4>4
        <5>2. f[n] # f[n + 1] /\ f[n] \in SUBSET f[n + 1]
          BY <4>2, <4>4 DEF More, Closed
        <5>3. IsFiniteSet(f[n]) /\ IsFiniteSet(f[n + 1])
          BY <2>5, <2>7, <4>1, FS_Subset
        <5>4. Cardinality(f[n]) \in Nat /\ Cardinality(f[n + 1]) \in Nat
          BY <5>3, FS_CardinalityType
        <5>5. Cardinality(f[n]) <= Cardinality(f[n + 1]) /\ Cardinality(f[n]) # Cardinality(f[n + 1])
          BY <5>2, <5>3, FS_Subset
        <5> QED BY <5>1, <5>4, <5>5
      <4> QED BY <4>3, <4>4
    <3> HIDE DEF S
    <3>3. Nat \subseteq S
      BY <3>1, <3>2, SetInduction
    <3> QED BY <1>1, <3>3 DEF S, N
  <2>9. Closed(image, f[N])
    <3>1. N \in 0 .. N /\ f[N] \in SUBSET D
      BY <1>1, <2>5 DEF N
    <3>2. Cardinality(f[N]) <= Cardinality(D) /\ Cardinality(f[N]) \in Nat /\ Cardinality(D) \in Nat
      BY <2>7, <3>1, FS_Subset, FS_CardinalityType
    <3>3. ~(Cardinality(f[N]) >= N + 1)
      BY <1>1, <2>7, <3>2 DEF N
    <3> QED BY <2>8, <3>1, <3>3
  <2>10. N \in 0 .. N
    BY <1>1 DEF N
  <2> QED BY <1>4, <2>1, <2>5, <2>6, <2>9, <2>10
<1> QED BY <1>3, <1>4

-----------------------------------------------------------------------------
(***************************************************************************)
(* The inductive invariant, a part for each stage.                          *)
(***************************************************************************)
Shape ==
  dis = [stage |-> dis.stage, image |-> dis.image, code |-> dis.code, work |-> dis.work,
         pc |-> dis.pc, regions |-> dis.regions, labels |-> dis.labels, at |-> dis.at,
         i |-> dis.i, listing |-> dis.listing]

Calls == \E image \in Images, analyse \in BOOLEAN : Lists(image, analyse)

(* While control flow is followed, some instructions have been: their bytes  *)
(* are what is marked, and where they go on is marked or still to come.     *)
Pending == {dis.work[k] : k \in 1 .. Len(dis.work)} \union {dis.pc}

Followed(F) ==
  /\ F \subseteq Reachable(dis.image)
  /\ dis.code = UNION {Bytes_of(dis.image, p) : p \in F}
  /\ \A p \in F : Successors(dis.image, p) \subseteq dis.code \union Pending
  /\ Decodes(dis.image, 0) => 0 \in dis.code \union Pending

TraceInv ==
  Tracing =>
    /\ dis.image \in Images /\ dis.image # << >> /\ dis.at = 0
    /\ dis.regions = [room \in Rooms \union {Plenty} |-> Builder(room)]
    /\ dis.code \subseteq 0 .. Size(dis.image) - 1
    /\ dis.work \in Seq(Nat) /\ dis.pc \in Nat \union {Nowhere}
    /\ \A p \in Pending : Decodes(dis.image, p) => p \in Reachable(dis.image)
    /\ \E F : Followed(F)

(* What is found to be code, once all has been followed. *)
CodeFound(image, code) ==
  LET reached == Reachable(image)
      bytes   == UNION {Bytes_of(image, pc) : pc \in reached}
  IN /\ code \subseteq bytes
     /\ Apart(image, reached) => code = bytes

(* While the image is divided, what has been built tiles it so far. *)
DivideInv ==
  Dividing =>
    /\ dis.image \in Images /\ dis.code \subseteq 0 .. Size(dis.image) - 1
    /\ CodeFound(dis.image, dis.code)
    /\ dis.at \in 0 .. Size(dis.image)
    /\ DOMAIN dis.regions = Rooms \union {Plenty}
    /\ Size(dis.image) < WordSize =>
         /\ Building(dis.image, dis.code, dis.regions[Plenty], dis.at)
         /\ \A room \in Rooms : /\ dis.regions[room].capacity = room
                                /\ Follows(dis.regions[room], dis.regions[Plenty])

LabelInv ==
  dis.stage = "label" /\ Regions(dis) # << >> =>
    /\ dis.image \in Images /\ dis.code \subseteq 0 .. Size(dis.image) - 1
    /\ CodeFound(dis.image, dis.code)
    /\ Size(dis.image) < WordSize =>
         /\ Tiled(dis.image, dis.code, Regions(dis), Size(dis.image))
         /\ \A room \in Rooms : /\ dis.regions[room].capacity = room
                                /\ Follows(dis.regions[room], dis.regions[Plenty])

AnalyserInv == Shape /\ TraceInv /\ DivideInv /\ LabelInv

(* The stages in which nothing is claimed. *)
LEMMA Elsewhere ==
  ASSUME Shape', dis'.stage \notin {"trace", "divide", "label"}
  PROVE  AnalyserInv'
  BY DEF AnalyserInv, TraceInv, DivideInv, LabelInv, Tracing, Dividing

LEMMA CalledStep == ASSUME Calls PROVE AnalyserInv'
<1>1. PICK image \in Images, analyse \in BOOLEAN : dis' = Disassembly(image, analyse)
  BY DEF Calls, Lists
<1>2. Plenty \in Nat
  BY WordSizeType DEF Plenty
<1>3. Shape'
  BY <1>1 DEF Disassembly, Shape
<1>4. CASE analyse /\ image # << >>
  <2>1. /\ dis'.stage = "trace" /\ dis'.image = image /\ dis'.code = {} /\ dis'.work = <<0>>
        /\ dis'.pc = Nowhere /\ dis'.at = 0
        /\ dis'.regions = [room \in Rooms \union {Plenty} |-> Builder(room)]
    BY <1>1, <1>4 DEF Disassembly
  <2>2. /\ <<0>> \in Seq(Nat) /\ Len(<<0>>) = 1 /\ <<0>>[1] = 0
    OBVIOUS
  <2>3. Pending' = {0, Nowhere}
    BY <2>1, <2>2 DEF Pending
  <2>4. \A p \in Pending' : Decodes(image, p) => p \in Reachable(image)
    BY <2>3, ReachableIsLeast DEF Decodes, Nowhere
  <2>5. Followed({})'
    BY <2>1, <2>3 DEF Followed
  <2>6. TraceInv'
    BY <1>4, <2>1, <2>2, <2>4, <2>5 DEF TraceInv
  <2> QED BY <1>3, <2>1, <2>6 DEF AnalyserInv, DivideInv, LabelInv, Dividing
<1>5. CASE ~(analyse /\ image # << >>)
  <2>1. /\ dis'.stage = "label"
        /\ dis'.regions = [room \in Rooms \union {Plenty} |-> Builder(room)]
    BY <1>1, <1>5 DEF Disassembly
  <2>2. dis'.regions[Plenty].out = << >>
    BY <2>1 DEF Builder
  <2> QED BY <1>3, <2>1, <2>2 DEF AnalyserInv, TraceInv, DivideInv, LabelInv, Tracing, Dividing, Regions
<1> QED BY <1>4, <1>5

LEMMA FrontOf ==
  ASSUME NEW s \in Seq(Nat), s # << >>
  PROVE  /\ Front(s) \in Seq(Nat) /\ Last(s) \in Nat
         /\ {s[k] : k \in 1 .. Len(s)} = {Front(s)[k] : k \in 1 .. Len(Front(s))} \union {Last(s)}
<1>1. Len(s) \in Nat \ {0}
  OBVIOUS
<1>2. /\ Front(s) \in Seq(Nat) /\ Len(Front(s)) = Len(s) - 1
      /\ \A k \in 1 .. Len(s) - 1 : Front(s)[k] = s[k]
  <2>1. \A k \in 1 .. Len(s) - 1 : s[k] \in Nat
    BY <1>1
  <2>2. \A k \in 1 .. Len(s) - 1 : 1 + k - 1 = k /\ k \in 1 .. (Len(s) - 1) - 1 + 1
    BY <1>1
  <2>3. Len(s) - 1 \in Int /\ (1 <= Len(s) - 1 => (Len(s) - 1) - 1 + 1 = Len(s) - 1)
        /\ (~(1 <= Len(s) - 1) => Len(s) - 1 = 0)
    <3>1. \A m \in Nat \ {0} : /\ m - 1 \in Int /\ (m - 1) - 1 + 1 = m - 1
                               /\ ~(1 <= m - 1) => m - 1 = 0
      OBVIOUS
    <3> QED BY <1>1, <3>1
  <2>4. /\ SubSeq(s, 1, Len(s) - 1) \in Seq(Nat)
        /\ Len(SubSeq(s, 1, Len(s) - 1)) = IF 1 <= Len(s) - 1 THEN (Len(s) - 1) - 1 + 1 ELSE 0
        /\ \A i \in 1 .. (Len(s) - 1) - 1 + 1 : SubSeq(s, 1, Len(s) - 1)[i] = s[1 + i - 1]
    BY <2>1, <2>3, SubSeqProperties
  <2> QED BY <2>2, <2>3, <2>4 DEF Front
<1>3. \A k \in 1 .. Len(s) : k \in 1 .. Len(s) - 1 \/ k = Len(s)
  BY <1>1
<1> QED BY <1>1, <1>2, <1>3 DEF Last

LEMMA PopStep == ASSUME AnalyserInv, Pop PROVE AnalyserInv'
<1>1. /\ dis' = [dis EXCEPT !.pc = Last(dis.work), !.work = Front(@)]
      /\ dis.stage = "trace" /\ dis.pc = Nowhere /\ dis.work # << >>
      /\ Shape /\ TraceInv
  BY DEF Pop, AnalyserInv, Tracing
<1>2. /\ Shape' /\ dis'.stage = "trace" /\ dis'.image = dis.image /\ dis'.code = dis.code
      /\ dis'.work = Front(dis.work) /\ dis'.pc = Last(dis.work)
      /\ dis'.at = dis.at /\ dis'.regions = dis.regions
  BY <1>1 DEF Shape
<1>3. /\ dis.work \in Seq(Nat)
      /\ \A p \in Pending : Decodes(dis.image, p) => p \in Reachable(dis.image)
  BY <1>1 DEF TraceInv, Tracing
<1>4. /\ Front(dis.work) \in Seq(Nat) /\ Last(dis.work) \in Nat
      /\ Pending = Pending' \union {Nowhere}
  <2>1. /\ Front(dis.work) \in Seq(Nat) /\ Last(dis.work) \in Nat
        /\ {dis.work[k] : k \in 1 .. Len(dis.work)}
             = {Front(dis.work)[k] : k \in 1 .. Len(Front(dis.work))} \union {Last(dis.work)}
    BY <1>1, <1>3, FrontOf
  <2>2. Pending = {dis.work[k] : k \in 1 .. Len(dis.work)} \union {Nowhere}
    BY <1>1 DEF Pending
  <2>3. Pending' = {Front(dis.work)[k] : k \in 1 .. Len(Front(dis.work))} \union {Last(dis.work)}
    BY <1>2 DEF Pending
  <2> QED BY <2>1, <2>2, <2>3
<1>5. PICK F : Followed(F)
  BY <1>1 DEF TraceInv, Tracing
<1>6. dis.image \in Images
  BY <1>1 DEF TraceInv, Tracing
<1>7. \A p \in F : p \in Decodable(dis.image) /\ Nowhere \notin Successors(dis.image, p)
  <2>1. F \subseteq Decodable(dis.image)
    BY <1>5, <1>6, ReachableIsLeast DEF Followed
  <2>2. Nowhere \notin Decodable(dis.image)
    BY DEF Nowhere, Decodable
  <2> QED BY <1>6, <2>1, <2>2, SuccessorsDecode
<1>8. Followed(F)'
  BY <1>2, <1>4, <1>5, <1>7 DEF Followed, Nowhere
<1>9. TraceInv'
  BY <1>1, <1>2, <1>3, <1>4, <1>8 DEF TraceInv, Tracing
<1> QED BY <1>2, <1>9 DEF AnalyserInv, DivideInv, LabelInv, Dividing

LEMMA LoseTraceStep == ASSUME AnalyserInv, LoseTrace PROVE AnalyserInv'
<1>1. /\ dis' = [dis EXCEPT !.pc = Nowhere]
      /\ dis.stage = "trace" /\ dis.pc # Nowhere /\ ~Traceable(dis, dis.pc)
      /\ Shape /\ TraceInv
  BY DEF LoseTrace, Running, AnalyserInv, Tracing
<1>2. /\ Shape' /\ dis'.stage = "trace" /\ dis'.image = dis.image /\ dis'.code = dis.code
      /\ dis'.work = dis.work /\ dis'.pc = Nowhere
      /\ dis'.at = dis.at /\ dis'.regions = dis.regions
  BY <1>1 DEF Shape
<1>3. \A p \in Pending : Decodes(dis.image, p) => p \in Reachable(dis.image)
  BY <1>1 DEF TraceInv, Tracing
<1>4. \A p \in Pending : p \in Pending' \/ p = dis.pc
  BY <1>2 DEF Pending
<1>5. PICK F : Followed(F)
  BY <1>1 DEF TraceInv, Tracing
<1>6. dis.image \in Images /\ dis.pc \in Nat
  BY <1>1 DEF TraceInv, Tracing
<1>7. Decodes(dis.image, dis.pc) => dis.pc \in dis.code
  BY <1>1 DEF Traceable, Decodes
<1>8. \A p \in F : \A to \in Successors(dis.image, p) : Decodes(dis.image, to)
  <2>1. F \subseteq Decodable(dis.image)
    BY <1>5, <1>6, ReachableIsLeast DEF Followed
  <2>2. \A to \in Decodable(dis.image) : Decodes(dis.image, to)
    BY <1>6 DEF Decodes, Decodable, Inside, Size, Images
  <2> QED BY <1>6, <2>1, <2>2, SuccessorsDecode
<1>9. Followed(F)'
  BY <1>2, <1>4, <1>5, <1>7, <1>8 DEF Followed
<1>10. \A p \in Pending' : p \in Pending \/ p = Nowhere
  BY <1>2 DEF Pending
<1>11. \A p \in Pending' : Decodes(dis.image, p) => p \in Reachable(dis.image)
  BY <1>3, <1>10 DEF Decodes, Nowhere
<1>12. TraceInv'
  BY <1>1, <1>2, <1>9, <1>11 DEF TraceInv, Tracing
<1> QED BY <1>2, <1>12 DEF AnalyserInv, DivideInv, LabelInv, Dividing

LEMMA FollowStep == ASSUME AnalyserInv, Follow PROVE AnalyserInv'
<1> DEFINE image == dis.image
           pc    == dis.pc
           insn  == zdasm_decode(image, pc)
           code  == Marked(dis, insn)
           away  == insn.branches /\ Inside(image, insn.target) /\ insn.target \notin code
<1>1. /\ dis' = [dis EXCEPT !.code = code, !.pc = Onward(insn),
                    !.work = IF away THEN Append(@, insn.target) ELSE @]
      /\ dis.stage = "trace" /\ pc # Nowhere /\ Traceable(dis, pc)
      /\ Shape /\ TraceInv
  BY DEF Follow, Running, AnalyserInv, Tracing
<1>2. /\ Shape' /\ dis'.stage = "trace" /\ dis'.image = image /\ dis'.code = code
      /\ dis'.work = (IF away THEN Append(dis.work, insn.target) ELSE dis.work)
      /\ dis'.pc = Onward(insn) /\ dis'.at = dis.at /\ dis'.regions = dis.regions
  BY <1>1 DEF Shape
<1>3. /\ image \in Images /\ pc \in Nat /\ dis.work \in Seq(Nat)
      /\ dis.code \subseteq 0 .. Size(image) - 1 /\ Size(image) \in Nat
      /\ \A p \in Pending : Decodes(image, p) => p \in Reachable(image)
  BY <1>1 DEF TraceInv, Tracing, Size, Images
<1>4. Decodes(image, pc) /\ pc \in Reachable(image)
  BY <1>1, <1>3 DEF Traceable, Decodes, Pending
<1>5. Decoded(image, pc, insn)
  BY <1>3, DecodeType
<1> HIDE DEF insn, code
<1>6. code = dis.code \union Bytes_of(image, pc) /\ pc \in code /\ code \subseteq 0 .. Size(image) - 1
  <2>1. Bytes_of(image, pc) = insn.address .. insn.address + insn.length - 1
    BY <1>5 DEF Bytes_of, Decoded, insn
  <2>2. code = dis.code \union Bytes_of(image, pc)
    BY <2>1 DEF code, Marked
  <2>3. pc + insn.length <= Size(image) /\ insn.length \in Nat \ {0} /\ insn.address = pc
    BY <1>4, <1>5 DEF Decoded, Decodes, insn
  <2> QED BY <1>3, <2>1, <2>2, <2>3
<1>7. /\ insn.target \in Nat /\ insn.branches \in BOOLEAN /\ insn.continues \in BOOLEAN
      /\ (pc + insn.length) % WordSize \in Nat
      /\ insn.address = pc
  BY <1>3, <1>5, WordSizeType DEF Decoded
<1>8. dis'.work \in Seq(Nat) /\ dis'.pc \in Nat \union {Nowhere}
  BY <1>2, <1>3, <1>7 DEF Onward
<1>9. /\ \A p \in Pending : p \in Pending' \/ p = pc
      /\ \A p \in Pending' : \/ p \in Pending
                             \/ p = insn.target /\ insn.branches
                             \/ p = (pc + insn.length) % WordSize /\ insn.continues
                             \/ p = Nowhere
      /\ away => insn.target \in Pending'
      /\ insn.continues => (pc + insn.length) % WordSize \in Pending'
  <2>1. dis'.pc = IF insn.continues THEN (pc + insn.length) % WordSize ELSE Nowhere
    BY <1>2, <1>7 DEF Onward
  <2>2. CASE away
    <3>1. /\ Len(dis'.work) = Len(dis.work) + 1 /\ Len(dis.work) \in Nat
          /\ \A k \in 1 .. Len(dis.work) : dis'.work[k] = dis.work[k]
          /\ dis'.work[Len(dis.work) + 1] = insn.target
      BY <1>2, <1>3, <2>2
    <3>2. \A k \in 1 .. Len(dis.work) + 1 : k \in 1 .. Len(dis.work) \/ k = Len(dis.work) + 1
      BY <3>1
    <3>3. Len(dis.work) + 1 \in 1 .. Len(dis.work) + 1
      BY <3>1
    <3>4. \A k \in 1 .. Len(dis.work) : k \in 1 .. Len(dis.work) + 1
      BY <3>1
    <3> QED BY <1>2, <2>1, <2>2, <3>1, <3>2, <3>3, <3>4 DEF Pending
  <2>3. CASE ~away
    BY <1>2, <2>1, <2>3 DEF Pending
  <2> QED BY <2>2, <2>3
<1>10. \A to \in Successors(image, pc) :
         \/ to = insn.target /\ insn.branches
         \/ to = (pc + insn.length) % WordSize /\ insn.continues
  BY DEF Successors, insn
<1>11. Successors(image, pc) \subseteq code \union Pending'
  <2> SUFFICES ASSUME NEW to \in Successors(image, pc) PROVE to \in code \union Pending'
    OBVIOUS
  <2>1. Inside(image, to)
    BY DEF Successors
  <2> QED BY <1>9, <1>10, <2>1
<1>12. \A p \in Pending' : Decodes(image, p) => p \in Reachable(image)
  <2> SUFFICES ASSUME NEW p \in Pending', Decodes(image, p) PROVE p \in Reachable(image)
    OBVIOUS
  <2>1. CASE p \in Pending
    BY <1>3, <2>1
  <2>2. CASE p # Nowhere /\ p \notin Pending
    <3>1. p \in Successors(image, pc)
      BY <1>9, <2>2 DEF Successors, insn, Decodes
    <3> QED BY <1>3, <1>4, <3>1, ReachableIsLeast DEF Closed
  <2> QED BY <2>1, <2>2 DEF Decodes, Nowhere
<1>13. PICK F : Followed(F)
  BY <1>1 DEF TraceInv, Tracing
<1>14. PICK G : G = F \union {pc}
  OBVIOUS
<1>15. Followed(G)'
  <2>1. G \subseteq Reachable(image)
    BY <1>4, <1>13, <1>14 DEF Followed
  <2>2. code = UNION {Bytes_of(image, p) : p \in G}
    BY <1>6, <1>13, <1>14 DEF Followed
  <2>3. \A p \in G : Successors(image, p) \subseteq code \union Pending'
    BY <1>6, <1>9, <1>11, <1>13, <1>14 DEF Followed
  <2>4. Decodes(image, 0) => 0 \in code \union Pending'
    BY <1>6, <1>9, <1>13 DEF Followed
  <2> QED BY <1>2, <2>1, <2>2, <2>3, <2>4 DEF Followed
<1>16. TraceInv'
  <2>1. image # << >> /\ dis.at = 0
        /\ dis.regions = [room \in Rooms \union {Plenty} |-> Builder(room)]
    BY <1>1 DEF TraceInv, Tracing
  <2> QED BY <1>2, <1>3, <1>6, <1>8, <1>12, <1>15, <2>1 DEF TraceInv, Tracing
<1> QED BY <1>2, <1>16 DEF AnalyserInv, DivideInv, LabelInv, Dividing

(* Once nothing is pending, what has been followed is all that is reachable, *)
(* if instructions keep apart: an address that is marked begins the         *)
(* instruction that marked it.                                             *)
LEMMA AllFollowed ==
  ASSUME NEW F, Followed(F), dis.image \in Images, Pending = {Nowhere}
  PROVE  CodeFound(dis.image, dis.code)
<1> DEFINE image == dis.image
           R == Reachable(image)
<1>1. /\ F \subseteq R /\ dis.code = UNION {Bytes_of(image, p) : p \in F}
      /\ \A p \in F : Successors(image, p) \subseteq dis.code \union {Nowhere}
      /\ Decodes(image, 0) => 0 \in dis.code \union {Nowhere}
  BY DEF Followed
<1>2. /\ R \subseteq Decodable(image) /\ Closed(image, R)
      /\ Decodes(image, 0) => 0 \in R
      /\ (Decodes(image, 0) => 0 \in F) /\ Closed(image, F) => R \subseteq F
  BY ReachableIsLeast
<1> HIDE DEF R
<1>3. ASSUME Apart(image, R), NEW to \in R, to \in dis.code PROVE to \in F
  <2>1. PICK q \in F : to \in Bytes_of(image, q)
    BY <1>1, <1>3
  <2>2. to \in Bytes_of(image, to)
    <3>1. to \in Nat
      BY <1>2, <1>3 DEF Decodable
    <3>2. Decoded(image, to, zdasm_decode(image, to))
      BY <3>1, DecodeType
    <3>3. zdasm_decode(image, to).length \in Nat \ {0}
      BY <3>2 DEF Decoded
    <3> QED BY <3>1, <3>3 DEF Bytes_of
  <2>3. to = q
    BY <1>1, <1>3, <2>1, <2>2 DEF Apart
  <2> QED BY <2>1, <2>3
<1>4. Nowhere \notin R /\ Nowhere # 0
  BY <1>2 DEF Decodable, Nowhere
<1>5. Apart(image, R) => R \subseteq F
  <2> SUFFICES ASSUME Apart(image, R) PROVE R \subseteq F
    OBVIOUS
  <2>1. \A p \in F : \A to \in Successors(image, p) : to \in R
    BY <1>1, <1>2 DEF Closed
  <2>2. Closed(image, F)
    BY <1>1, <1>3, <1>4, <2>1 DEF Closed
  <2>3. Decodes(image, 0) => 0 \in F
    BY <1>1, <1>2, <1>3, <1>4
  <2> QED BY <1>2, <2>2, <2>3
<1>6. dis.code \subseteq UNION {Bytes_of(image, pc) : pc \in R}
  BY <1>1
<1>7. Apart(image, R) => dis.code = UNION {Bytes_of(image, pc) : pc \in R}
  BY <1>1, <1>5
<1> QED BY <1>6, <1>7 DEF CodeFound, R

LEMMA BuilderBegins ==
  ASSUME NEW room \in Nat
  PROVE  /\ Builder(room) \in BuilderType /\ Builder(room).capacity = room
         /\ Builder(room).out = << >> /\ Builder(room).count = 0
         /\ Builder(room).last = NoRegion
  BY NoRegionType DEF Builder, BuilderType

LEMMA BeginDivisionStep == ASSUME AnalyserInv, BeginDivision PROVE AnalyserInv'
<1>1. /\ dis' = [dis EXCEPT !.stage = "divide"]
      /\ dis.stage = "trace" /\ dis.pc = Nowhere /\ dis.work = << >>
      /\ Shape /\ TraceInv
  BY DEF BeginDivision, AnalyserInv, Tracing
<1>2. /\ Shape' /\ dis'.stage = "divide" /\ dis'.image = dis.image /\ dis'.code = dis.code
      /\ dis'.at = dis.at /\ dis'.regions = dis.regions
  BY <1>1 DEF Shape
<1>3. /\ dis.image \in Images /\ dis.at = 0 /\ dis.code \subseteq 0 .. Size(dis.image) - 1
      /\ dis.regions = [room \in Rooms \union {Plenty} |-> Builder(room)]
      /\ \E F : Followed(F)
  BY <1>1 DEF TraceInv, Tracing
<1>4. Pending = {Nowhere}
  BY <1>1 DEF Pending
<1>5. CodeFound(dis.image, dis.code)
  BY <1>3, <1>4, AllFollowed
<1>6. 0 \in 0 .. Size(dis.image)
  BY <1>3 DEF Size, Images
<1>7. Plenty \in Nat /\ Plenty = WordSize /\ Rooms \subseteq Nat
  BY WordSizeType, AnalyserAssumption DEF Plenty
<1>8. /\ dis.regions[Plenty] = Builder(Plenty)
      /\ \A room \in Rooms : dis.regions[room] = Builder(room)
  BY <1>3
<1>9. Building(dis.image, dis.code, Builder(Plenty), 0)
  BY <1>7, BuilderBegins, NoRegionType DEF Building
<1>10. \A room \in Rooms : /\ Builder(room).capacity = room
                           /\ Follows(Builder(room), Builder(Plenty))
  BY <1>7, BuilderBegins DEF Follows
<1>11. DivideInv'
  BY <1>2, <1>3, <1>5, <1>6, <1>8, <1>9, <1>10 DEF DivideInv, Dividing
<1> QED BY <1>2, <1>11 DEF AnalyserInv, TraceInv, LabelInv, Tracing

(* The builder with room for all stores what it flushes. *)
LEMMA HasRoom ==
  ASSUME NEW image, NEW code, NEW b, NEW at \in Nat, at < WordSize, Building(image, code, b, at)
  PROVE  /\ b \in BuilderType /\ b.count = Len(b.out)
         /\ b.last.kind # "none" => Len(b.out) < b.capacity
<1>1. b \in BuilderType /\ b.count = Len(b.out) /\ b.capacity = WordSize
  BY DEF Building
<1>2. CASE b.last.kind # "none"
  <2>1. /\ b.last.start + b.last.length = at /\ Tiled(image, code, b.out, b.last.start)
        /\ Good(image, code, b.last)
    BY <1>2 DEF Building
  <2>2. Len(b.out) \in Nat /\ Len(b.out) <= b.last.start /\ b.last.start \in Nat
        /\ b.last.length \in Nat
    BY <1>1, <2>1 DEF Tiled, Good, RegionType, BuilderType
  <2> QED BY <1>1, <2>1, <2>2, WordSizeType
<1> QED BY <1>1, <1>2

LEMMA DivideStep == ASSUME AnalyserInv, Divide PROVE AnalyserInv'
<1> DEFINE image == dis.image
           code  == dis.code
           at    == dis.at
           piece == Piece(image, code, at)
<1>1. /\ dis' = [dis EXCEPT !.regions = [room \in DOMAIN @ |-> append(@[room], piece)],
                            !.at = @ + piece.span]
      /\ dis.stage = "divide" /\ Inside(image, at)
      /\ Shape /\ DivideInv
  BY DEF Divide, AnalyserInv, Dividing
<1>2. /\ Shape' /\ dis'.stage = "divide" /\ dis'.image = image /\ dis'.code = code
      /\ dis'.at = at + piece.span
      /\ dis'.regions = [room \in DOMAIN dis.regions |-> append(dis.regions[room], piece)]
  BY <1>1 DEF Shape
<1>3. /\ image \in Images /\ code \subseteq 0 .. Size(image) - 1
      /\ CodeFound(image, code) /\ at \in 0 .. Size(image)
      /\ DOMAIN dis.regions = Rooms \union {Plenty}
  BY <1>1 DEF DivideInv, Dividing
<1>4. Size(image) \in Nat /\ at \in Nat /\ at < Size(image)
  BY <1>1, <1>3 DEF Size, Images, Inside
<1>5. /\ piece.start = at /\ piece.span \in Nat \ {0} /\ at + piece.span <= Size(image)
      /\ Good(image, code, RegionOf(piece))
  BY <1>3, <1>4, PieceFound
<1> HIDE DEF piece
<1>6. at + piece.span \in 0 .. Size(image)
  BY <1>4, <1>5
<1>7. DOMAIN dis'.regions = Rooms \union {Plenty}
  BY <1>2, <1>3
<1>8. ASSUME Size(image) < WordSize
      PROVE  /\ Building(image, code, dis'.regions[Plenty], at + piece.span)
             /\ \A room \in Rooms : /\ dis'.regions[room].capacity = room
                                    /\ Follows(dis'.regions[room], dis'.regions[Plenty])
  <2> DEFINE f == dis.regions[Plenty]
  <2>1. /\ Building(image, code, f, at)
        /\ \A room \in Rooms : /\ dis.regions[room].capacity = room
                               /\ Follows(dis.regions[room], f)
    BY <1>1, <1>8 DEF DivideInv, Dividing
  <2>2. at + piece.span < WordSize /\ at < WordSize
    BY <1>4, <1>5, <1>8, WordSizeType
  <2>3. dis'.regions[Plenty] = append(f, piece)
    BY <1>2, <1>3
  <2> HIDE DEF f
  <2>4. Building(image, code, append(f, piece), at + piece.span)
    BY <1>4, <1>5, <2>1, <2>2, BuildingAppended
  <2>5. /\ f \in BuilderType /\ f.count = Len(f.out)
        /\ f.last.kind # "none" => Len(f.out) < f.capacity
    BY <1>4, <2>1, <2>2, HasRoom
  <2>6. ASSUME NEW room \in Rooms
        PROVE  /\ dis'.regions[room].capacity = room
               /\ Follows(dis'.regions[room], append(f, piece))
    <3> DEFINE b == dis.regions[room]
    <3>1. dis'.regions[room] = append(b, piece)
      BY <1>2, <1>3
    <3>2. b.capacity = room /\ Follows(b, f)
      BY <2>1
    <3> HIDE DEF b
    <3>3. b \in BuilderType
      BY <3>2 DEF Follows
    <3>4. RegionOf(piece) \in RegionType /\ piece.start + piece.span < WordSize
      BY <1>5, <2>2 DEF Good
    <3>5. Follows(append(b, piece), append(f, piece))
      BY <2>5, <3>2, <3>4, FollowsAppended
    <3>6. append(b, piece).capacity = b.capacity
      BY <3>3, <3>4, Appended
    <3> QED BY <3>1, <3>2, <3>5, <3>6
  <2> QED BY <2>3, <2>4, <2>6
<1>9. DivideInv'
  BY <1>2, <1>3, <1>6, <1>7, <1>8 DEF DivideInv, Dividing
<1> QED BY <1>2, <1>9 DEF AnalyserInv, TraceInv, LabelInv, Tracing

LEMMA EndDivisionStep == ASSUME AnalyserInv, EndDivision PROVE AnalyserInv'
<1> DEFINE image == dis.image
           code  == dis.code
<1>1. /\ dis' = [dis EXCEPT !.stage = "label", !.at = 0,
                            !.regions = [room \in DOMAIN @ |-> flush(@[room])]]
      /\ dis.stage = "divide" /\ ~Inside(image, dis.at)
      /\ Shape /\ DivideInv
  BY DEF EndDivision, AnalyserInv, Dividing
<1>2. /\ Shape' /\ dis'.stage = "label" /\ dis'.image = image /\ dis'.code = code
      /\ dis'.regions = [room \in DOMAIN dis.regions |-> flush(dis.regions[room])]
  BY <1>1 DEF Shape
<1>3. /\ image \in Images /\ code \subseteq 0 .. Size(image) - 1
      /\ CodeFound(image, code) /\ dis.at \in 0 .. Size(image)
      /\ DOMAIN dis.regions = Rooms \union {Plenty}
  BY <1>1 DEF DivideInv, Dividing
<1>4. Size(image) \in Nat /\ dis.at = Size(image)
  BY <1>1, <1>3 DEF Size, Images, Inside
<1>5. ASSUME Size(image) < WordSize
      PROVE  /\ Tiled(image, code, Regions(dis'), Size(image))
             /\ \A room \in Rooms : /\ dis'.regions[room].capacity = room
                                    /\ Follows(dis'.regions[room], dis'.regions[Plenty])
  <2> DEFINE f == dis.regions[Plenty]
  <2>1. /\ Building(image, code, f, Size(image))
        /\ \A room \in Rooms : /\ dis.regions[room].capacity = room
                               /\ Follows(dis.regions[room], f)
    BY <1>1, <1>4, <1>5 DEF DivideInv, Dividing
  <2>2. dis'.regions[Plenty] = flush(f)
    BY <1>2, <1>3
  <2> HIDE DEF f
  <2>3. Tiled(image, code, flush(f).out, Size(image))
    BY <1>4, <1>5, <2>1, BuildingFlushed
  <2>4. /\ f \in BuilderType /\ f.count = Len(f.out)
        /\ f.last.kind # "none" => Len(f.out) < f.capacity
    BY <1>4, <1>5, <2>1, HasRoom
  <2>5. ASSUME NEW room \in Rooms
        PROVE  /\ dis'.regions[room].capacity = room
               /\ Follows(dis'.regions[room], flush(f))
    <3> DEFINE b == dis.regions[room]
    <3>1. dis'.regions[room] = flush(b)
      BY <1>2, <1>3
    <3>2. b.capacity = room /\ Follows(b, f)
      BY <2>1
    <3> HIDE DEF b
    <3>3. b \in BuilderType
      BY <3>2 DEF Follows
    <3>4. Follows(flush(b), flush(f)) /\ flush(b).capacity = b.capacity
      BY <2>4, <3>2, <3>3, FollowsFlushed, Flushed
    <3> QED BY <3>1, <3>2, <3>4
  <2> QED BY <2>2, <2>3, <2>5 DEF Regions
<1>6. LabelInv'
  BY <1>2, <1>3, <1>5 DEF LabelInv
<1> QED BY <1>2, <1>6 DEF AnalyserInv, TraceInv, DivideInv, Tracing, Dividing

LEMMA NoteLabelStep == ASSUME AnalyserInv, NoteLabel PROVE AnalyserInv'
<1>1. Shape /\ LabelInv /\ dis.stage = "label"
  BY DEF AnalyserInv, NoteLabel
<1>2. PICK insn : dis' = [dis EXCEPT !.at = @ + insn.length,
                            !.labels = IF insn.branches THEN @ \union {insn.target} ELSE @]
  BY DEF NoteLabel
<1>3. /\ Shape' /\ dis'.stage = "label" /\ dis'.image = dis.image /\ dis'.code = dis.code
      /\ dis'.regions = dis.regions
  BY <1>1, <1>2 DEF Shape
<1>4. LabelInv'
  BY <1>1, <1>3 DEF LabelInv, Regions
<1> QED BY <1>3, <1>4 DEF AnalyserInv, TraceInv, DivideInv, Tracing, Dividing

LEMMA PrintedShape ==
  ASSUME Shape, NEW lines
  PROVE  LET d == Printed(dis, lines)
         IN /\ d = [stage |-> d.stage, image |-> d.image, code |-> d.code, work |-> d.work,
                    pc |-> d.pc, regions |-> d.regions, labels |-> d.labels, at |-> d.at,
                    i |-> d.i, listing |-> d.listing]
            /\ d.stage = dis.stage
  BY DEF Shape, Printed

(* What is printed changes nothing of what was found. *)
LEMMA PrintStep ==
  ASSUME AnalyserInv,
         \/ BeginPrinting \/ EnterRegion \/ PrintStringLine \/ PrintDataLine \/ LeaveRegion
         \/ PrintInstruction \/ EndListing
  PROVE  AnalyserInv'
<1>1. Shape
  BY DEF AnalyserInv
<1>2. CASE BeginPrinting
  BY <1>1, <1>2, Elsewhere DEF BeginPrinting, Shape
<1>3. CASE EndListing
  BY <1>1, <1>3, Elsewhere DEF EndListing, Shape
<1>4. CASE LeaveRegion
  BY <1>1, <1>4, Elsewhere DEF LeaveRegion, Printing, Shape
<1>5. ASSUME NEW lines, NEW to, dis.stage = "print",
             \/ dis' = [Printed(dis, lines) EXCEPT !.i = to]
             \/ dis' = [Printed(dis, lines) EXCEPT !.at = to]
      PROVE  AnalyserInv'
  <2> DEFINE d == Printed(dis, lines)
  <2>1. /\ d = [stage |-> d.stage, image |-> d.image, code |-> d.code, work |-> d.work,
                pc |-> d.pc, regions |-> d.regions, labels |-> d.labels, at |-> d.at,
                i |-> d.i, listing |-> d.listing]
        /\ d.stage = "print"
    BY <1>1, <1>5, PrintedShape
  <2> HIDE DEF d
  <2>2. dis' = [d EXCEPT !.i = to] \/ dis' = [d EXCEPT !.at = to]
    BY <1>5 DEF d
  <2>3. Shape' /\ dis'.stage = "print"
    BY <2>1, <2>2 DEF Shape
  <2> QED BY <2>3, Elsewhere
<1>6. CASE EnterRegion
  BY <1>5, <1>6 DEF EnterRegion, Printing
<1>7. CASE PrintStringLine
  <2>1. dis.stage = "print"
    BY <1>7 DEF PrintStringLine, Within, Printing
  <2>2. \E lines, to : dis' = [Printed(dis, lines) EXCEPT !.i = to]
    <3>1. PICK lines, n : dis' = [Printed(dis, lines) EXCEPT !.i = @ + n]
      BY <1>7 DEF PrintStringLine
    <3> QED BY <3>1
  <2> QED BY <1>5, <2>1, <2>2
<1>8. CASE PrintDataLine
  <2>1. dis.stage = "print"
    BY <1>8 DEF PrintDataLine, Within, Printing
  <2>2. \E lines, to : dis' = [Printed(dis, lines) EXCEPT !.i = to]
    <3>1. PICK lines : dis' = [Printed(dis, lines) EXCEPT !.i = (@ + DataChunk) % WordSize]
      BY <1>8 DEF PrintDataLine
    <3> QED BY <3>1
  <2> QED BY <1>5, <2>1, <2>2
<1>9. CASE PrintInstruction
  <2>1. dis.stage = "print"
    BY <1>9 DEF PrintInstruction, Printing
  <2>2. \E lines, to : dis' = [Printed(dis, lines) EXCEPT !.at = to]
    <3>1. PICK lines, insn : dis' = [Printed(dis, lines) EXCEPT !.at = @ + insn.length]
      BY <1>9 DEF PrintInstruction
    <3> QED BY <3>1
  <2> QED BY <1>5, <2>1, <2>2
<1> QED BY <1>2, <1>3, <1>4, <1>6, <1>7, <1>8, <1>9

LEMMA AnalyserStarts == dis = NotStarted => AnalyserInv
<1> SUFFICES ASSUME dis = NotStarted PROVE AnalyserInv
  OBVIOUS
<1>1. Shape /\ dis.stage = "idle"
  BY DEF NotStarted, Disassembly, Shape
<1> QED BY <1>1 DEF AnalyserInv, TraceInv, DivideInv, LabelInv, Tracing, Dividing

LEMMA AnalyserStep == AnalyserInv /\ [Disassembles \/ Calls]_dis => AnalyserInv'
<1> SUFFICES ASSUME AnalyserInv, [Disassembles \/ Calls]_dis PROVE AnalyserInv'
  OBVIOUS
<1>1. CASE Calls
  BY <1>1, CalledStep
<1>2. CASE Pop
  BY <1>2, PopStep
<1>3. CASE Follow
  BY <1>3, FollowStep
<1>4. CASE LoseTrace
  BY <1>4, LoseTraceStep
<1>5. CASE BeginDivision
  BY <1>5, BeginDivisionStep
<1>6. CASE Divide
  BY <1>6, DivideStep
<1>7. CASE EndDivision
  BY <1>7, EndDivisionStep
<1>8. CASE NoteLabel
  BY <1>8, NoteLabelStep
<1>9. CASE \/ BeginPrinting \/ EnterRegion \/ PrintStringLine \/ PrintDataLine \/ LeaveRegion
           \/ PrintInstruction \/ EndListing
  BY <1>9, PrintStep
<1>10. CASE UNCHANGED dis
  <2>1. Shape'
    BY <1>10 DEF AnalyserInv, Shape
  <2>2. TraceInv'
    <3>1. Pending' = Pending
      BY <1>10 DEF Pending
    <3>2. \A F : Followed(F)' <=> Followed(F)
      BY <1>10, <3>1 DEF Followed
    <3> QED BY <1>10, <3>1, <3>2 DEF AnalyserInv, TraceInv, Tracing
  <2>3. DivideInv'
    BY <1>10 DEF AnalyserInv, DivideInv, Dividing
  <2>4. LabelInv'
    BY <1>10 DEF AnalyserInv, LabelInv, Regions
  <2> QED BY <2>1, <2>2, <2>3, <2>4 DEF AnalyserInv
<1> QED BY <1>1, <1>2, <1>3, <1>4, <1>5, <1>6, <1>7, <1>8, <1>9, <1>10 DEF Disassembles

LEMMA AnalyserInvHolds == DisassemblerSpec => []AnalyserInv
  BY AnalyserStarts, AnalyserStep, PTL DEF DisassemblerSpec, Calls

-----------------------------------------------------------------------------
(* No region goes beyond the last. *)
LEMMA RegionsInside ==
  ASSUME NEW image, NEW code, NEW s, NEW end \in Nat, Tiled(image, code, s, end),
         NEW k \in 1 .. Len(s)
  PROVE  s[k].start + s[k].length <= end
<1> DEFINE S == {m \in Nat : \A j \in 1 .. Len(s) : j + m = Len(s) => s[j].start + s[j].length <= end}
<1>1. /\ Len(s) \in Nat /\ s # << >>
      /\ s[Len(s)].start + s[Len(s)].length = end
      /\ \A j \in 2 .. Len(s) : s[j].start = s[j - 1].start + s[j - 1].length
      /\ \A j \in 1 .. Len(s) : s[j].start \in Nat /\ s[j].length \in Nat
  BY DEF Tiled, Good, RegionType
<1>2. 0 \in S
  BY <1>1
<1>3. ASSUME NEW m \in Nat, m \in S PROVE m + 1 \in S
  <2>1. ASSUME NEW j \in 1 .. Len(s), j + (m + 1) = Len(s) PROVE s[j].start + s[j].length <= end
    <3>1. j + 1 \in 2 .. Len(s) /\ j + 1 \in 1 .. Len(s) /\ (j + 1) + m = Len(s)
      BY <1>1, <2>1
    <3>2. s[j + 1].start + s[j + 1].length <= end
      BY <1>3, <3>1
    <3>3. s[j + 1].start = s[j].start + s[j].length
      <4>1. (j + 1) - 1 = j
        BY <2>1
      <4> QED BY <1>1, <3>1, <4>1
    <3>4. s[j + 1].start \in Nat /\ s[j + 1].length \in Nat
      BY <1>1, <3>1
    <3> QED BY <3>2, <3>3, <3>4
  <2> QED BY <2>1
<1> HIDE DEF S
<1>4. Len(s) - k \in S
  <2>1. Nat \subseteq S
    BY <1>2, <1>3, SetInduction
  <2> QED BY <1>1, <2>1
<1>5. k + (Len(s) - k) = Len(s)
  BY <1>1
<1> DEFINE m == Len(s) - k
<1>6. m \in S /\ k + m = Len(s)
  BY <1>4, <1>5
<1> HIDE DEF m
<1> QED BY <1>6 DEF S

(* What the trace marks is what control can reach: never more, and all of   *)
(* it unless instructions overlap (trace; its work list and its map).       *)
THEOREM CodeIsReached == DisassemblerSpec => []CodeIsReachable
<1>1. AnalyserInv => CodeIsReachable
  BY DEF AnalyserInv, LabelInv, CodeFound, CodeIsReachable, Divided
<1> QED BY <1>1, AnalyserInvHolds, PTL

(* The regions tile the image in order; like ones do not touch, but         *)
(* strings; a string is text up to its last byte; no text that is long      *)
(* enough is left among data; and a caller with less room has the first of  *)
(* them, and is told how many there are (zdasm_analyse).                    *)
THEOREM RegionsDivideTheImage == DisassemblerSpec => []RegionsTile
<1>1. AnalyserInv => RegionsTile
  <2> SUFFICES ASSUME AnalyserInv, Divided, Size(dis.image) < WordSize PROVE RegionsTile
    BY DEF RegionsTile
  <2> DEFINE image   == dis.image
             code    == dis.code
             regions == Regions(dis)
  <2>1. /\ image \in Images /\ Tiled(image, code, regions, Size(image)) /\ regions # << >>
        /\ \A room \in Rooms : /\ dis.regions[room].capacity = room
                               /\ Follows(dis.regions[room], dis.regions[Plenty])
    BY DEF AnalyserInv, LabelInv, Divided
  <2> HIDE DEF regions
  <2>2. /\ regions \in Seq(RegionType) /\ regions[1].start = 0
        /\ regions[Len(regions)].start + regions[Len(regions)].length = Size(image)
        /\ \A k \in 2 .. Len(regions) :
             /\ regions[k].start = regions[k - 1].start + regions[k - 1].length
             /\ regions[k].kind = regions[k - 1].kind => regions[k].kind = "string"
        /\ \A k \in 1 .. Len(regions) : Good(image, code, regions[k])
    BY <2>1 DEF Tiled
  <2>3. ASSUME NEW k \in DOMAIN regions
        PROVE  /\ regions[k].length > 0
               /\ regions[k].kind = "code" <=> Stretch(regions[k]) \subseteq code
               /\ regions[k].kind = "string" =>
                    \A address \in Stretch(regions[k])
                                     \ {regions[k].start + regions[k].length - 1} :
                      Byte(image, address) \in Printable
               /\ regions[k].kind = "data" =>
                    \A from \in Stretch(regions[k]) :
                      ~ \A address \in from .. from + StringMinimum - 1 :
                          address \in Stretch(regions[k]) /\ Byte(image, address) \in Printable
    <3> DEFINE r == regions[k]
    <3>1. Good(image, code, r)
      BY <2>2
    <3> HIDE DEF r
    <3>2. r.start \in Nat /\ r.length \in Nat /\ r.length > 0 /\ r.start \in Stretch(r)
      BY <3>1 DEF Good, RegionType, Stretch
    <3>3. r.kind = "code" <=> Stretch(r) \subseteq code
      BY <3>1, <3>2 DEF Good
    <3>4. r.kind = "string" =>
            \A address \in Stretch(r) \ {r.start + r.length - 1} : Byte(image, address) \in Printable
      BY <3>1, <3>2 DEF Good, Stretch
    <3>5. ASSUME r.kind = "data", NEW from \in Stretch(r),
                 \A address \in from .. from + StringMinimum - 1 :
                   address \in Stretch(r) /\ Byte(image, address) \in Printable
          PROVE  FALSE
      <4>1. /\ string_run(image, code, from) = 0 /\ from \in Nat
            /\ \A at \in Stretch(r) : at \notin code
        BY <3>1, <3>2, <3>5 DEF Good, Stretch
      <4>2. StringMinimum \in Nat
        BY AnalyserAssumption
      <4>3. \A k2 \in 0 .. StringMinimum - 1 : from + k2 \in from .. from + StringMinimum - 1
        BY <4>1, <4>2
      <4>4. \A at \in Stretch(r) : Inside(image, at)
        <5>1. r.start + r.length <= Size(image)
          <6>1. k \in 1 .. Len(regions) /\ Size(image) \in Nat
            BY <2>1, <2>2 DEF Size, Images
          <6> QED BY <2>1, <6>1, RegionsInside DEF r
        <5> QED BY <2>1, <3>2, <5>1 DEF Stretch, Inside, Size, Images
      <4>5. \A k2 \in 0 .. StringMinimum - 1 :
              Loose(image, code, from + k2) /\ Byte(image, from + k2) \in Printable
        BY <3>5, <4>1, <4>3, <4>4 DEF Loose
      <4> QED BY <2>1, <4>1, <4>5, StringFound
    <3> QED BY <3>2, <3>3, <3>4, <3>5 DEF r
  <2>4. ASSUME NEW room \in Rooms
        PROVE  LET short == dis.regions[room]
               IN /\ short.count = Len(regions)
                  /\ short.out =
                       SubSeq(regions, 1, IF room < Len(regions) THEN room ELSE Len(regions))
    <3> DEFINE short == dis.regions[room]
               n     == IF room < Len(regions) THEN room ELSE Len(regions)
    <3>1. /\ short \in BuilderType /\ short.capacity = room /\ short.count = Len(regions)
          /\ Len(short.out) = n
          /\ \A k \in 1 .. Len(short.out) : short.out[k] = regions[k]
      BY <2>1 DEF Follows, Regions, regions
    <3> HIDE DEF short
    <3>2. /\ Len(regions) \in Nat /\ room \in Nat /\ n \in 0 .. Len(regions)
      BY <2>2, AnalyserAssumption
    <3>3. /\ SubSeq(regions, 1, n) \in Seq(RegionType)
          /\ Len(SubSeq(regions, 1, n)) = n
          /\ \A k \in 1 .. n : SubSeq(regions, 1, n)[k] = regions[k]
      <4> HIDE DEF n
      <4> QED BY <2>2, <3>2
    <3>4. short.out \in Seq(RegionType)
      BY <3>1 DEF BuilderType
    <3> HIDE DEF n
    <3>5. short.out = SubSeq(regions, 1, n)
      <4> DEFINE t == SubSeq(regions, 1, n)
      <4>1. t \in Seq(RegionType) /\ Len(t) = Len(short.out)
            /\ \A k \in 1 .. Len(t) : short.out[k] = t[k]
        BY <3>1, <3>3
      <4> HIDE DEF t
      <4>2. short.out = t
        BY <3>4, <4>1, SeqEqual
      <4> QED BY <4>2 DEF t
    <3> QED BY <3>1, <3>5 DEF n, short
  <2>5. DOMAIN regions = 1 .. Len(regions)
    BY <2>2
  <2> QED BY <2>2, <2>3, <2>4, <2>5 DEF RegionsTile, Last, regions
<1> QED BY <1>1, AnalyserInvHolds, PTL
=============================================================================
