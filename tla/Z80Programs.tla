----------------------------- MODULE Z80Programs -----------------------------
(***************************************************************************)
(* The register transfers of the Z80 core under whole programs: calls and  *)
(* returns, interrupts in the middle of them, block instructions taken     *)
(* apart by an interrupt, and each instruction against what a programmer   *)
(* is promised of it (Z80Programmer).                                      *)
(*                                                                         *)
(* To the core, its memory and its host (Z80Registers) this module adds    *)
(* what an observer remembers: where the instruction in progress began,    *)
(* who has to return where, the block instruction that is under way, and   *)
(* whether a RESET cut one short.                                          *)
(***************************************************************************)
EXTENDS Z80Registers

CONSTANT Worlds      \* the programs: registers, memory and a length

(* A program starts awake and between two instructions, prefixes included. *)
ASSUME WorldsAssumption ==
  \A world \in Worlds :
    /\ Typed(AtFetch(world.registers)) /\ ByteMemory(world.program)
    /\ world.bounds \in [left : Nat, nmi : Nat, int : Nat, resets : Nat, debug : Nat]
    /\ \A field \in {"prefix", "index", "instr", "cycle", "cycle_limit", "pending", "halted"} :
         AtFetch(world.registers)[field] = NewRegisters[field]

VARIABLES
  start,    \* the core and the memory when the instruction in progress began
  frames,   \* the calls and interrupts that have not returned, innermost last
  block,    \* the block instruction under way, as it began; or NoBlock
  cut       \* a RESET fell into an instruction, and none has ended since

history == <<start, frames, block, cut>>
vars    == <<cpu, memory, events, history>>

Manual == INSTANCE Z80Programmer

NoBlock == << >>

-----------------------------------------------------------------------------
(* The core is between two instructions, an interrupt's sequence included.  *)
AtBoundary(c) ==
  /\ c.prefix = 0 /\ c.index = 0
  /\ \/ Fetching(c)
     \/ c.instr \in InterruptSequences /\ c.cycle = 0

Accepted(c) == c.instr \in InterruptSequences

(* The step ends an instruction, which is instruction n.                    *)
Ends == events'.left < events.left
Running == IF Fetching(cpu) THEN Decode(ByteAt(cpu.pc), cpu.prefix, cpu.index) ELSE cpu.instr

Moved(from, by) == (cpu'.sp - from) % 65536 = by % 65536

Calling   == Ends /\ Running \in {"call", "call_cc", "rst"} /\ Moved(start.cpu.sp, -2)
Returning == Ends /\ Running \in {"ret", "ret_cc", "ed_retn"} /\ Moved(start.cpu.sp, 2)

(* enabled: whether interrupts were enabled when an NMI came. *)
Frame(kind, sp, resume, enabled) ==
  [kind |-> kind, sp |-> sp, resume |-> resume, enabled |-> enabled]

(* A CALL has three bytes and an RST has one.                               *)
CallFrame ==
  Frame("call", start.cpu.sp, Plus(start.cpu.pc, IF Running = "rst" THEN 1 ELSE 3), FALSE)

(* An interrupt displaces the instruction that would have run next; after a *)
(* HALT that is the one behind it.                                         *)
InterruptFrame ==
  Frame(IF cpu'.instr = "nmi" THEN "nmi" ELSE "int", cpu'.sp,
        IF Running = "halt" THEN Plus(start.cpu.pc, 1) ELSE cpu'.pc,
        cpu'.instr = "nmi" /\ cpu'.iff2)

Innermost == frames[Len(frames)]
ReturnsHome == Returning /\ frames # << >> /\ cpu'.sp = Innermost.sp

Remaining ==
  CASE Calling     -> Append(frames, CallFrame)
    [] ReturnsHome -> SubSeq(frames, 1, Len(frames) - 1)
    [] OTHER       -> frames

(* An NMI inside an NMI's handler takes the only copy of IFF1 there is.     *)
Nested ==
  Append(IF cpu'.instr = "nmi"
         THEN [k \in DOMAIN Remaining |-> [Remaining[k] EXCEPT !.enabled = FALSE]]
         ELSE Remaining, InterruptFrame)

(* The second byte of LDIR, LDDR, CPIR, CPDR, INIR, INDR, OTIR and OTDR.    *)
Repeating == {176, 184, 177, 185, 178, 186, 179, 187}

BlockAt(m, pc) == Manual!Peek(m, pc) = ED /\ Manual!Peek(m, pc + 1) \in Repeating

(* A pass of the block instruction under way has ended.                     *)
Passed    == Ends /\ block # NoBlock /\ Fetching(start.cpu) /\ start.cpu.pc = block.cpu.pc
BlockEnds == Passed /\ cpu'.pc # block.cpu.pc

Observes ==
  /\ start' = IF AtBoundary(cpu') THEN [cpu |-> cpu', memory |-> memory'] ELSE start
  /\ frames' = CASE Ends /\ Accepted(cpu')  -> Nested
                 [] Ends /\ ~Accepted(cpu') -> Remaining
                 [] ~Ends                   -> frames
  /\ block' = CASE BlockEnds -> NoBlock
                [] Ends /\ block = NoBlock /\ ~Accepted(cpu') /\ BlockAt(memory', cpu'.pc) ->
                     [cpu |-> cpu', memory |-> memory']
                [] OTHER -> block
  /\ cut' = (cut /\ ~Ends)

(* Whoever resets the machine or writes its registers starts a new program. *)
Forgets ==
  /\ start' = [cpu |-> cpu', memory |-> memory']
  /\ frames' = << >>
  /\ block' = NoBlock
  /\ cut' = (cut \/ ~AtBoundary(cpu))

Init ==
  /\ Starts(Worlds)
  /\ start = [cpu |-> cpu, memory |-> memory]
  /\ frames = << >>
  /\ block = IF BlockAt(memory, cpu.pc) THEN start ELSE NoBlock
  /\ cut = FALSE

Next ==
  \/ Cycles /\ Observes
  \/ Hosts /\ Forgets
  \/ Rests /\ UNCHANGED history

Spec == Init /\ [][Next]_vars

-----------------------------------------------------------------------------
(***************************************************************************)
(* Properties.                                                             *)
(***************************************************************************)
VisibleFields == {"a", "f", "bc", "de", "hl", "ix", "iy", "sp", "pc", "i", "r", "im",
                  "af_alt", "bc_alt", "de_alt", "hl_alt"}

(* What a programmer sees.  A halted core keeps PC on the HALT.             *)
Visible(c) == [field \in VisibleFields |->
                 IF field = "pc" /\ c.halted THEN Plus(c.pc, 1) ELSE c[field]]

Before == [field \in VisibleFields |-> start.cpu[field]]

(* Where an accepted interrupt goes: 0066, the RST of a mode 0 device,      *)
(* 0038, or the entry of the table at I that the vector names, which is    *)
(* read after the return address is on the stack.                          *)
HandlerOf(n, vector) ==
  CASE n = "nmi" -> 102
    [] n = "interrupt" -> IF start.cpu.im = 0 THEN vector - (vector % 8) - 64 * (vector \div 64)
                          ELSE 56
    [] n = "interrupt_mode2" ->
         Manual!PeekWord(Manual!Pushes(Before, start.memory, start.cpu.pc).mem,
                         256 * start.cpu.i + vector)

Promised(port, vector, ie) ==
  IF Accepted(start.cpu)
  THEN Manual!Interrupt(Before, start.memory, HandlerOf(start.cpu.instr, vector))
  ELSE Manual!Instruction(Before, start.memory, port, start.cpu.q, start.cpu.wz, ie)

(* The machine cycles of an instruction, with the hooks between them, come  *)
(* to what the manual says of the whole instruction: every register and    *)
(* every byte of memory, R and the flags X and Y included, wherever PC, SP  *)
(* and the operands lie and whatever prefix is in front of it.  The        *)
(* comment on write hooks (z80core.c:1252) names one way of failing: a     *)
(* cycle that puts up an address writes whatever the last read left there. *)
ImplementsManual ==
  [][Ends => \E port \in PortBytes, vector \in Vectors :
               LET promised == Promised(port, vector, start.cpu.iff2 /\ ~Accepted(cpu'))
               IN Visible(cpu') = promised.regs /\ memory' = promised.mem]_vars

(* A routine that leaves the stack as it found it returns to the            *)
(* instruction after its call, or to the one the interrupt displaced: after *)
(* a HALT the next one, between two passes of an LDIR the LDIR itself.      *)
(* Whatever ran in between, and nested inside it.  RETN also puts back the  *)
(* interrupt enable that the NMI put away (z80core.c:1868), unless another  *)
(* NMI came in between.                                                    *)
RoutinesReturn ==
  [][ReturnsHome =>
       /\ cpu'.pc = Innermost.resume
       /\ Running = "ed_retn" /\ Innermost.kind = "nmi" /\ ~Accepted(cpu')
            => cpu'.iff1 = Innermost.enabled]_vars

(* A handler that ends with EI and RET is never entered a second time       *)
(* before it has returned, with INT held up all along: the instruction of   *)
(* grace after EI lets the RET through (z80core.c:3036).                    *)
HandlersDoNotNest ==
  Cardinality({k \in DOMAIN frames : frames[k].kind = "int"}) <= 1

(* What a repeated transfer of n bytes leaves in memory, byte after byte.   *)
Copied(m, hl, de, by, n) ==
  LET after[k \in 0 .. n] ==
        IF k = 0 THEN m
        ELSE Manual!Poke(after[k - 1], Plus(de, by * (k - 1)),
                         Manual!Peek(after[k - 1], Plus(hl, by * (k - 1))))
  IN after[n]

(* How many passes a block instruction that begins like this makes: as many *)
(* as BC or B says, or up to the first byte that equals A.                 *)
PassesOf(c, m, opcode) ==
  LET by    == IF opcode >= 184 THEN -1 ELSE 1
      count == IF opcode % 4 < 2 THEN c.bc ELSE High(c.bc)
      hits  == {k \in 1 .. count : Manual!Peek(m, Plus(c.hl, by * (k - 1))) = c.a}
  IN IF opcode % 4 = 1 /\ hits # {} THEN CHOOSE k \in hits : \A j \in hits : k <= j
     ELSE count

(* A block instruction as a whole, interrupted between any of its passes or *)
(* not: it makes the passes its counter says, HL has moved by as many and   *)
(* BC or B counted them, and LDIR and LDDR leave the copy that byte-by-byte *)
(* copying leaves, overlaps included.                                      *)
BlocksComplete ==
  [][BlockEnds =>
       LET c      == block.cpu
           opcode == ByteAt(Plus(c.pc, 1))
           by     == IF opcode >= 184 THEN -1 ELSE 1
           n      == PassesOf(c, block.memory, opcode)
           copy   == Copied(block.memory, c.hl, c.de, by, n)
       IN /\ cpu'.hl = Plus(c.hl, by * n)
          /\ cpu'.bc = IF opcode % 4 < 2 THEN Plus(c.bc, -n) ELSE c.bc - 256 * n
          /\ opcode % 4 = 0 => /\ cpu'.de = Plus(c.de, by * n)
                               /\ \A address \in DOMAIN copy :
                                    (c.sp - address) % 65536 \notin 1 .. 4
                                      => memory'[address] = copy[address]]_vars

(* DD and FD do nothing but put IX or IY in the place of HL (z80core.c:999): *)
(* a machine cycle under the prefix, with the two registers exchanged, is   *)
(* the same cycle without it.  The instructions that turn (HL) into (IX+d)  *)
(* apart, and EX DE,HL and EXX, which name HL itself.                       *)
SwapWith(c, pair) == [c EXCEPT !.hl = c[pair], ![pair] = c.hl, !.index = 0]

AfterCycle(c, byte) ==
  IF GoesOn(Ended(c, byte)) THEN Begun(Ended(c, byte)) ELSE Finished(Ended(c, byte), FALSE)

PrefixOnlySubstitutes ==
  (cpu.index # 0 /\ Running \notin IndexedInstrs \union {"prefix", "ex_de_hl", "exx"})
    => \A byte \in BusBytes :
         LET pair == IF cpu.index = DD THEN "ix" ELSE "iy"
         IN AfterCycle(SwapWith(cpu, pair), byte) = SwapWith(AfterCycle(cpu, byte), pair)

(* The state a debugger reads between two instructions is the whole of what *)
(* the program has to go on with: in another core it restores every field   *)
(* but the latched interrupts, which have no place in struct z80_state, and *)
(* what the next cycles overwrite before they read it.  One thing is lost:  *)
(* the flags of an instruction that a RESET cut short, which apply_reset    *)
(* leaves pending for Q (z80core.c:3080) and z80_set_state drops.          *)
Unreported == {"nmi_latched", "int_inhibit", "tmp", "opcode", "bus_addr", "bus_data"}

StateCarriesOver ==
  (Fetching(cpu) /\ AtBoundary(cpu)) =>
    LET copy == z80_set_state(NewRegisters, z80_state(cpu))
    IN \A field \in DOMAIN cpu \ Unreported :
         copy[field] = cpu[field] \/ (field = "pending" /\ cut)
=============================================================================
