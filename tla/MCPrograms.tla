----------------------------- MODULE MCPrograms -----------------------------
(***************************************************************************)
(* Every opcode under every prefix from two register files, and a handful  *)
(* of programs with interrupts.                                            *)
(***************************************************************************)
EXTENDS Z80Programs

(* Neighbouring bytes of memory that no program has written differ.         *)
Pattern(address) == (29 * address + 7 * (address \div 256) + 11) % 256

Load(address, bytes) ==
  [a \in {Plus(address, k - 1) : k \in DOMAIN bytes} |->
     bytes[((a - address) % 65536) + 1]]

Bounds(left, nmi, int, resets, debug) ==
  [left |-> left, nmi |-> nmi, int |-> int, resets |-> resets, debug |-> debug]

(* Away from every edge; and at them: PC, SP, HL, IX and IY wrap, B and BC  *)
(* run out, every flag is up.                                              *)
Inland == [a |-> 73, f |-> {"Z", "N"}, bc |-> 4660, de |-> 22136, hl |-> 36607,
           ix |-> 16639, iy |-> 24576, sp |-> 32768, pc |-> 4096, wz |-> 10280,
           i |-> 127, r |-> 200, im |-> 2, af_alt |-> [a |-> 1, f |-> {"C"}],
           bc_alt |-> 770, de_alt |-> 1284, hl_alt |-> 1798, q |-> {"Z", "N"}]
Coastal == [a |-> 255, f |-> Alu!Flags, bc |-> 256, de |-> 0, hl |-> 65535,
            ix |-> 65530, iy |-> 5, sp |-> 1, pc |-> 65534, i |-> 255, r |-> 127,
            im |-> 1, iff1 |-> TRUE, iff2 |-> TRUE]
Files == {Inland, Coastal}

Encodings == {<<>>, <<203>>, <<237>>, <<221>>, <<253>>, <<221, 203, 133>>, <<253, 203, 5>>,
              <<253, 221>>, <<221, 237>>}

SingleInstructions ==
  {[registers |-> file, program |-> Load(file.pc, Append(prefix, opcode)),
    bounds |-> Bounds(2, 0, 1, 0, 0)] : file \in Files, prefix \in Encodings, opcode \in Byte}

-----------------------------------------------------------------------------
(* Handlers at 0038 (EI; RET) and 0066 (PUSH AF; POP AF; RETN); IM 2 vectors *)
(* through 7F00.                                                           *)
Handlers == Load(56, <<251, 201>>) @@ Load(102, <<245, 241, 237, 69>>)
             @@ Load(32512, <<80, 0>>) @@ Load(80, <<251, 201>>)

Program(registers, bytes, bounds) ==
  [registers |-> registers @@ [pc |-> 4096, sp |-> 32768, iff1 |-> TRUE, iff2 |-> TRUE,
                               im |-> 1, i |-> 127],
   program |-> Load(4096, bytes) @@ Handlers, bounds |-> bounds]

(* EI; HALT; JR to the EI.  INT held up, or NMI and INT at any boundary.    *)
Waiting == <<251, 118, 24, 252>>

(* CALL 1006; HALT; NOP; NOP; and at 1006: PUSH AF; RST 8; POP AF; RET.     *)
Calls == <<205, 6, 16, 118, 0, 0, 245, 207, 241, 201>>
Rst8  == Load(8, <<200, 192>>)     \* RET Z; RET NZ

(* LDIR, LDDR, CPIR, INIR and OTIR, and a HALT behind them.                *)
Block(op) == <<237, op, 118>>
Short == [bc |-> 3, hl |-> 8192, de |-> 8193, a |-> Pattern(8193)]
Long  == [bc |-> 4, hl |-> 65534, de |-> 65533, a |-> 0]
Io    == [bc |-> 546, hl |-> 65535]

(* INC (HL); SCF: it has flags pending while it waits to write.             *)
Increment == <<52, 55>>

Programs ==
  {Program([im |-> 1], Waiting, Bounds(14, 0, 14, 0, 0)),
   Program([im |-> 1], Waiting, Bounds(14, 2, 3, 0, 0)),
   Program([im |-> 2, sp |-> 1], Waiting, Bounds(12, 1, 2, 0, 0)),
   Program([im |-> 0], Waiting, Bounds(6, 0, 1, 1, 1)),
   Program([hl |-> 8192], Increment, Bounds(3, 0, 0, 1, 1))}
  \union
  {[Program([im |-> im], Calls, Bounds(14, 1, 1, 0, 0)) EXCEPT !.program = Rst8 @@ @]
     : im \in {1, 2}}
  \union
  {Program(file, Block(op), Bounds(12, 1, 2, 0, 0)) :
     file \in {Short, Long}, op \in {176, 184, 177, 185}}
  \union
  {Program(Io, Block(op), Bounds(10, 1, 1, 0, 0)) : op \in {178, 186, 179, 187}}

AllWorlds == SingleInstructions \union Programs
SmallPorts == {0, 130}
OneVector  == {0, 215}
Words      == {0, 43981}
=============================================================================
