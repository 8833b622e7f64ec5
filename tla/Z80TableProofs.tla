---------------------------- MODULE Z80TableProofs ----------------------------
(***************************************************************************)
(* What the tables of the core guarantee to the engine, whatever byte is   *)
(* fetched: lemmas on Z80Cycles and Z80Instructions.                       *)
(***************************************************************************)
EXTENDS Z80Instructions, TLAPS

(* Every machine cycle has at least two steps, and samples WAIT, if it      *)
(* does, after its first T-state.                                          *)
LEMMA CountType ==
  ASSUME NEW s \in MachineCycles
  PROVE  /\ Count[s] \in 2 .. 14
         /\ WaitStep[s] \in {3, 5, NoWait}
BY DEF Count, WaitStep, MachineCycles, AckCycles, BusCycles, IdleCycles, NoWait

(* The groups of instructions are disjoint, so each has its own table.      *)
LEMMA GroupCycles ==
  ASSUME NEW n \in Instrs
  PROVE  /\ n \in FetchOnly          => CyclesOf[n] = << >>
         /\ n \in IndexedInstrs      => CyclesOf[n] = IndexedCycles(n)
         /\ n \in EdInstrs           => CyclesOf[n] = EdCycles(n)
         /\ n \in BlockInstrs        => CyclesOf[n] = BlockCycles(n)
         /\ n \in LoadInstrs         => CyclesOf[n] = LoadCycles(n)
         /\ n \in ArithmeticInstrs   => CyclesOf[n] = ArithmeticCycles(n)
         /\ n \in ControlInstrs      => CyclesOf[n] = ControlCycles(n)
         /\ n \in InterruptSequences => CyclesOf[n] = InterruptCycles(n)
<1> USE DEF CyclesOf, FetchOnly, IndexedInstrs, EdInstrs, BlockInstrs, LoadInstrs,
            ArithmeticInstrs, ControlInstrs, InterruptSequences
<1>1. ASSUME n \in FetchOnly          PROVE CyclesOf[n] = << >>
  BY <1>1
<1>2. ASSUME n \in IndexedInstrs      PROVE CyclesOf[n] = IndexedCycles(n)
  BY <1>2
<1>3. ASSUME n \in EdInstrs           PROVE CyclesOf[n] = EdCycles(n)
  BY <1>3
<1>4. ASSUME n \in BlockInstrs        PROVE CyclesOf[n] = BlockCycles(n)
  BY <1>4
<1>5. ASSUME n \in LoadInstrs         PROVE CyclesOf[n] = LoadCycles(n)
  BY <1>5
<1>6. ASSUME n \in ArithmeticInstrs   PROVE CyclesOf[n] = ArithmeticCycles(n)
  BY <1>6
<1>7. ASSUME n \in ControlInstrs      PROVE CyclesOf[n] = ControlCycles(n)
  BY <1>7
<1>8. ASSUME n \in InterruptSequences PROVE CyclesOf[n] = InterruptCycles(n)
  BY <1>8
<1> QED BY ONLY <1>1, <1>2, <1>3, <1>4, <1>5, <1>6, <1>7, <1>8

(* The machine cycles that follow the fetch of an instruction: at most six, *)
(* on the bus or idle, none of them a fetch or an acknowledge.             *)
LEMMA InstructionShape ==
  ASSUME NEW n \in Instrs \ InterruptSequences
  PROVE  /\ CyclesOf[n] \in Seq(BusCycles \union IdleCycles)
         /\ Len(CyclesOf[n]) \in 0 .. 6
<1> DEFINE C == BusCycles \union IdleCycles
<1>c. /\ Read \in C /\ Write \in C /\ IoIn \in C /\ IoOut \in C
      /\ Idle1 \in C /\ Idle2 \in C /\ Idle4 \in C /\ Idle5 \in C /\ Idle7 \in C
  BY DEF BusCycles, IdleCycles, Read, Write, IoIn, IoOut,
         Idle1, Idle2, Idle4, Idle5, Idle7
<1> HIDE DEF C
<1>1. CASE n \in FetchOnly
  <2>1. CyclesOf[n] = << >>
    BY <1>1, GroupCycles
  <2> QED BY <2>1 DEF C
<1>2. CASE n \in IndexedInstrs
  <2>1. /\ IndexedCycles(n) \in Seq(C)
        /\ Len(IndexedCycles(n)) \in 1 .. 6
    BY <1>2, <1>c DEF IndexedInstrs, IndexedCycles
  <2> QED BY <1>2, <2>1, GroupCycles DEF C
<1>3. CASE n \in EdInstrs
  <2>1. /\ EdCycles(n) \in Seq(C)
        /\ Len(EdCycles(n)) \in 1 .. 6
    BY <1>3, <1>c DEF EdInstrs, EdCycles
  <2> QED BY <1>3, <2>1, GroupCycles DEF C
<1>4. CASE n \in BlockInstrs
  <2>1. /\ BlockCycles(n) \in Seq(C)
        /\ Len(BlockCycles(n)) \in 1 .. 6
    BY <1>4, <1>c DEF BlockInstrs, BlockCycles
  <2> QED BY <1>4, <2>1, GroupCycles DEF C
<1>5. CASE n \in LoadInstrs
  <2> HIDE DEF C
  <2>1. LoadCycles(n) \in {<<Read>>, <<Write>>, <<Read, Write>>, <<Idle2>>,
                           <<Read, Read>>, <<Read, Read, Read>>, <<Read, Read, Write>>,
                           <<Read, Read, Write, Write>>, <<Read, Read, Read, Read>>,
                           <<Idle1, Write, Write>>,
                           <<Read, Read, Idle1, Write, Write, Idle2>>}
    BY <1>5 DEF LoadInstrs, LoadCycles
  <2>2. CyclesOf[n] = LoadCycles(n)
    BY <1>5, GroupCycles
  <2> DEFINE Good(s) == s \in Seq(C) /\ Len(s) \in 1 .. 6
  <2>3. /\ Good(<<Read>>)
        /\ Good(<<Write>>)
        /\ Good(<<Read, Write>>)
        /\ Good(<<Idle2>>)
        /\ Good(<<Read, Read>>)
    BY <1>c
  <2>4. /\ Good(<<Read, Read, Read>>)
        /\ Good(<<Read, Read, Write>>)
        /\ Good(<<Read, Read, Write, Write>>)
        /\ Good(<<Read, Read, Read, Read>>)
    BY <1>c
  <2>5. /\ Good(<<Idle1, Write, Write>>)
        /\ Good(<<Read, Read, Idle1, Write, Write, Idle2>>)
    BY <1>c
  <2> HIDE DEF Good
  <2>6. Good(LoadCycles(n))
    BY ONLY <2>1, <2>3, <2>4, <2>5
  <2> QED BY <2>2, <2>6 DEF C, Good
<1>6. CASE n \in ArithmeticInstrs
  <2>1. /\ ArithmeticCycles(n) \in Seq(C)
        /\ Len(ArithmeticCycles(n)) \in 1 .. 6
    BY <1>6, <1>c DEF ArithmeticInstrs, ArithmeticCycles
  <2> QED BY <1>6, <2>1, GroupCycles DEF C
<1>7. CASE n \in ControlInstrs
  <2>1. /\ ControlCycles(n) \in Seq(C)
        /\ Len(ControlCycles(n)) \in 1 .. 6
    BY <1>7, <1>c DEF ControlInstrs, ControlCycles
  <2> QED BY <1>7, <2>1, GroupCycles DEF C
<1> QED BY ONLY n \in Instrs \ InterruptSequences, <1>1, <1>2, <1>3, <1>4, <1>5, <1>6, <1>7
        DEF Instrs, C

(* An interrupt sequence begins with its acknowledge and has no other. *)
LEMMA InterruptShape ==
  ASSUME NEW n \in InterruptSequences
  PROVE  /\ CyclesOf[n] \in Seq(AckCycles \union BusCycles)
         /\ Len(CyclesOf[n]) \in 1 .. 6
         /\ CyclesOf[n][1] \in AckCycles
         /\ \A k \in 2 .. Len(CyclesOf[n]) : CyclesOf[n][k] \in BusCycles
<1>1. n \in Instrs /\ CyclesOf[n] = InterruptCycles(n)
  BY GroupCycles DEF Instrs
<1>2. CASE n = "nmi"
  <2>1. CyclesOf[n] = <<"nmi_ack", Write, Write>>
    BY <1>1, <1>2 DEF InterruptCycles
  <2> QED BY <2>1 DEF AckCycles, BusCycles, Write
<1>3. CASE n = "interrupt"
  <2>1. CyclesOf[n] = <<"int_ack", Write, Write>>
    BY <1>1, <1>3 DEF InterruptCycles
  <2> QED BY <2>1 DEF AckCycles, BusCycles, Write
<1>4. CASE n = "interrupt_mode2"
  <2>1. CyclesOf[n] = <<"int_ack", Write, Write, Read, Read>>
    BY <1>1, <1>4 DEF InterruptCycles
  <2> QED BY <2>1 DEF AckCycles, BusCycles, Read, Write
<1> QED BY <1>2, <1>3, <1>4 DEF InterruptSequences

(* The machine cycles that follow a fetch: at most six, none of them a     *)
(* fetch, and for an acknowledge at least one.                             *)
LEMMA ShapeType ==
  ASSUME NEW n \in Instrs
  PROVE  /\ CyclesOf[n] \in Seq(MachineCycles \ {"m1_fetch"})
         /\ Len(CyclesOf[n]) \in 0 .. 6
         /\ n \in InterruptSequences => Len(CyclesOf[n]) >= 1
<1>1. AckCycles \union BusCycles \union IdleCycles \subseteq MachineCycles \ {"m1_fetch"}
  BY DEF MachineCycles, AckCycles, BusCycles, IdleCycles
<1>2. CASE n \in InterruptSequences
  BY <1>1, <1>2, InterruptShape
<1>3. CASE n \notin InterruptSequences
  BY <1>1, <1>3, InstructionShape
<1> QED BY <1>2, <1>3

-----------------------------------------------------------------------------
(* The three fields of an opcode. *)
LEMMA FieldsType ==
  ASSUME NEW o \in Byte
  PROVE  X(o) \in 0 .. 3 /\ Y(o) \in 0 .. 7 /\ Z(o) \in 0 .. 7
BY DEF Byte, X, Y, Z

(* Each table of the decoder is complete, and names no interrupt sequence:  *)
(* only accept_interrupt starts one.                                        *)
LEMMA DecodeX0Type ==
  ASSUME NEW y \in 0 .. 7, NEW z \in 0 .. 7
  PROVE  /\ DecodeX0(y, z) \in Instrs \ InterruptSequences
         /\ DecodeX0(y, z) # "prefix"
<1>1. CASE z = 0
  <2>1. DecodeX0(y, z) \in {"nop", "ex_af", "djnz", "jr", "jr_cc"}
    BY <1>1 DEF DecodeX0
  <2> QED BY <2>1 DEF Instrs, InterruptSequences, FetchOnly, ControlInstrs
<1>2. CASE z = 2
  <2>1. DecodeX0(y, z) \in {"ld_bc_a", "ld_a_bc", "ld_de_a", "ld_a_de",
                            "ld_nn_hl", "ld_hl_nn", "ld_nn_a", "ld_a_nn"}
    BY <1>2 DEF DecodeX0
  <2> QED BY <2>1 DEF Instrs, InterruptSequences, LoadInstrs
<1>3. CASE z \in {1, 3, 4, 5, 6}
  <2>1. DecodeX0(y, z) \in {"add_hl_rp", "ld_rp_nn", "dec_rp", "inc_rp", "inc_mem",
             "inc_reg", "dec_mem", "dec_reg", "ld_hl_n", "ld_reg_immediate"}
    BY <1>3 DEF DecodeX0
  <2> QED BY <2>1 DEF Instrs, InterruptSequences, FetchOnly, LoadInstrs,
                      ArithmeticInstrs
<1>4. CASE z = 7
  <2>1. DecodeX0(y, z) \in {"rotate_a", "daa", "cpl", "scf", "ccf"}
    BY <1>4 DEF DecodeX0
  <2> QED BY <2>1 DEF Instrs, InterruptSequences, FetchOnly
<1> QED BY <1>1, <1>2, <1>3, <1>4

LEMMA DecodeX1Type ==
  ASSUME NEW y \in 0 .. 7, NEW z \in 0 .. 7
  PROVE  /\ DecodeX1(y, z) \in Instrs \ InterruptSequences
         /\ DecodeX1(y, z) # "prefix"
BY DEF DecodeX1, Instrs, InterruptSequences, FetchOnly, LoadInstrs

LEMMA DecodeX3Type ==
  ASSUME NEW y \in 0 .. 7, NEW z \in 0 .. 7
  PROVE  /\ DecodeX3(y, z) \in Instrs \ InterruptSequences
         /\ DecodeX3(y, z) = "prefix" => \/ y = 1 /\ z = 3
                                         \/ y \in {3, 5, 7} /\ z = 5
BY DEF DecodeX3, Instrs, InterruptSequences, FetchOnly, LoadInstrs, ArithmeticInstrs,
       ControlInstrs

LEMMA DecodeEdX1Type ==
  ASSUME NEW y \in 0 .. 7, NEW z \in 0 .. 7
  PROVE  /\ DecodeEdX1(y, z) \in Instrs \ InterruptSequences
         /\ DecodeEdX1(y, z) # "prefix"
<1>1. CASE z = 7
  <2>1. DecodeEdX1(y, z) \in {"ed_ld_i_a", "ed_ld_r_a", "ed_ld_a_i", "ed_ld_a_r",
                              "ed_rrd", "ed_rld", "ed_nop"}
    BY <1>1 DEF DecodeEdX1
  <2> QED BY <2>1 DEF Instrs, InterruptSequences, FetchOnly, EdInstrs
<1>2. CASE z # 7
  <2>1. DecodeEdX1(y, z) \in {"ed_in_c", "ed_out_c", "ed_adc_hl", "ed_sbc_hl",
             "ed_ld_rp_nn", "ed_ld_nn_rp", "ed_neg", "ed_retn", "ed_im"}
    BY <1>2 DEF DecodeEdX1
  <2> QED BY <2>1 DEF Instrs, InterruptSequences, FetchOnly, EdInstrs
<1> QED BY <1>1, <1>2

(* The base table: only CB, DD, ED and FD are prefixes. *)
LEMMA DecodeBaseType ==
  ASSUME NEW o \in Byte
  PROVE  /\ DecodeBase(o) \in Instrs \ InterruptSequences
         /\ DecodeBase(o) = "prefix" => o \in {CB, DD, ED, FD}
<1>1. X(o) \in 0 .. 3 /\ Y(o) \in 0 .. 7 /\ Z(o) \in 0 .. 7
  BY FieldsType
<1>2. CASE X(o) = 0
  BY <1>1, <1>2, DecodeX0Type DEF DecodeBase
<1>3. CASE X(o) = 1
  BY <1>1, <1>3, DecodeX1Type DEF DecodeBase
<1>4. CASE X(o) = 2
  BY <1>1, <1>4 DEF DecodeBase, Instrs, InterruptSequences, FetchOnly, ArithmeticInstrs
<1>5. CASE X(o) = 3
  <2>1. DecodeBase(o) = DecodeX3(Y(o), Z(o))
    BY <1>1, <1>5 DEF DecodeBase
  <2>2. o = 64 * X(o) + 8 * Y(o) + Z(o)
    BY DEF Byte, X, Y, Z
  <2>3. ASSUME DecodeX3(Y(o), Z(o)) = "prefix"
        PROVE  o \in {CB, DD, ED, FD}
    <3>1. \/ Y(o) = 1 /\ Z(o) = 3
          \/ Y(o) \in {3, 5, 7} /\ Z(o) = 5
      BY <1>1, <2>3, DecodeX3Type
    <3> QED BY <1>5, <2>2, <3>1 DEF CB, DD, ED, FD
  <2> QED BY <1>1, <2>1, <2>3, DecodeX3Type
<1> QED BY <1>1, <1>2, <1>3, <1>4, <1>5

(* The table under DD or FD: CB is a prefix no more. *)
LEMMA DecodeIndexedType ==
  ASSUME NEW o \in Byte
  PROVE  /\ DecodeIndexed(o) \in Instrs \ InterruptSequences
         /\ DecodeIndexed(o) = "prefix" => o \in {DD, ED, FD}
<1>1. CASE o \in {203, 221, 237, 253}
  BY <1>1 DEF DecodeIndexed, Instrs, InterruptSequences, FetchOnly, IndexedInstrs,
              DD, ED, FD
<1>2. CASE o \notin {203, 221, 237, 253}
  <2>1. DecodeIndexed(o) \in {"index_inc_mem", "index_dec_mem", "index_ld_mem_n",
           "index_ld_reg_mem", "index_ld_mem_reg", "index_alu_mem", DecodeBase(o)}
    BY <1>2 DEF DecodeIndexed
  <2> QED BY <1>2, <2>1, DecodeBaseType
          DEF Instrs, InterruptSequences, IndexedInstrs, CB, DD, ED, FD
<1> QED BY <1>1, <1>2

LEMMA DecodeCbType ==
  ASSUME NEW o \in Byte
  PROVE  DecodeCb(o) \in Instrs \ InterruptSequences /\ DecodeCb(o) # "prefix"
BY DEF DecodeCb, Instrs, InterruptSequences, FetchOnly, ArithmeticInstrs

LEMMA DecodeEdType ==
  ASSUME NEW o \in Byte
  PROVE  DecodeEd(o) \in Instrs \ InterruptSequences /\ DecodeEd(o) # "prefix"
<1>1. X(o) \in 0 .. 3 /\ Y(o) \in 0 .. 7 /\ Z(o) \in 0 .. 7
  BY FieldsType
<1>2. CASE X(o) = 2 /\ Z(o) <= 3 /\ Y(o) >= 4
  BY <1>1, <1>2 DEF DecodeEd, Instrs, InterruptSequences, BlockInstrs
<1>3. CASE ~(X(o) = 2 /\ Z(o) <= 3 /\ Y(o) >= 4) /\ X(o) = 1
  BY <1>1, <1>3, DecodeEdX1Type DEF DecodeEd
<1>4. CASE ~(X(o) = 2 /\ Z(o) <= 3 /\ Y(o) >= 4) /\ X(o) # 1
  BY <1>1, <1>4 DEF DecodeEd, Instrs, InterruptSequences, FetchOnly
<1> QED BY <1>2, <1>3, <1>4

(* Whatever prefixes are in force, every byte decodes to an instruction,    *)
(* and a prefix is decoded only where no CB or ED is in force.              *)
LEMMA DecodeType ==
  ASSUME NEW o \in Byte, NEW p \in {0, CB, ED}, NEW x \in {0, DD, FD}
  PROVE  /\ Decode(o, p, x) \in Instrs \ InterruptSequences
         /\ Decode(o, p, x) = "prefix" => /\ p = 0
                                          /\ o \in {CB, DD, ED, FD}
                                          /\ x # 0 => o # CB
<1>1. CB # ED /\ CB \notin {DD, ED, FD} /\ CB # 0 /\ ED # 0
  BY DEF CB, DD, ED, FD
<1>2. CASE p = ED
  BY <1>2, DecodeEdType DEF Decode
<1>3. CASE p = CB
  BY <1>1, <1>3, DecodeCbType DEF Decode
<1>4. CASE p = 0 /\ x # 0
  BY <1>1, <1>4, DecodeIndexedType DEF Decode
<1>5. CASE p = 0 /\ x = 0
  BY <1>1, <1>5, DecodeBaseType DEF Decode
<1> QED BY <1>2, <1>3, <1>4, <1>5

-----------------------------------------------------------------------------
(* A step drives strobes only: HALT and BUSAK are the engine's.             *)
LEMMA StepDrivesStrobes ==
  ASSUME NEW fn
  PROVE  Asserts(fn) \subseteq Strobes /\ Releases(fn) \subseteq Strobes
BY DEF Asserts, Releases, Strobes

LEMMA DriveType ==
  ASSUME NEW s, NEW k, NEW pins \in SUBSET OutputPins
  PROVE  /\ Drive(s, k, pins) \in SUBSET OutputPins
         /\ "HALT" \in Drive(s, k, pins)  <=> "HALT" \in pins
         /\ "BUSAK" \in Drive(s, k, pins) <=> "BUSAK" \in pins
<1> DEFINE fn == Steps[s][k + 1]
<1>1. Asserts(fn) \subseteq Strobes /\ Releases(fn) \subseteq Strobes
  BY StepDrivesStrobes
<1>2. Drive(s, k, pins) = (pins \ Releases(fn)) \union Asserts(fn)
  BY DEF Drive
<1> QED BY <1>1, <1>2 DEF Strobes, OutputPins

-----------------------------------------------------------------------------
(* The array behind each machine cycle. *)
LEMMA StepsOf ==
  /\ Steps["m1_fetch"] = m1_fetch_steps
  /\ Steps["nmi_ack"] = nmi_ack_steps
  /\ Steps["int_ack"] = int_ack_steps
  /\ Steps["mem_read"] = mem_read_steps
  /\ Steps["mem_write"] = mem_write_steps
  /\ Steps["io_read"] = io_read_steps
  /\ Steps["io_write"] = io_write_steps
  /\ \A s \in IdleCycles : Steps[s] = idle_steps
BY DEF Steps, MachineCycles, AckCycles, BusCycles, IdleCycles

(* Every strobe is inactive where a machine cycle begins and where it ends. *)
LEMMA LevelsAtEnds ==
  ASSUME NEW s \in MachineCycles
  PROVE  Levels(s, 0) = {} /\ Levels(s, Count[s]) = {}
<1>1. ASSUME NEW p \in Strobes
      PROVE  0 \notin ActiveEdges(p, s) /\ Count[s] \notin ActiveEdges(p, s)
  BY DEF ActiveEdges, FetchCycles, Count, Strobes, MachineCycles, AckCycles, BusCycles,
         IdleCycles
<1> QED BY <1>1 DEF Levels

(* The step with index k switches exactly the strobes that the waveform     *)
(* has change between edge k and edge k + 1.                                *)
LEMMA StepFollowsWave ==
  ASSUME NEW s \in MachineCycles, NEW k \in 0 .. Count[s] - 1, NEW p \in Strobes
  PROVE  p \in (Levels(s, k) \ Releases(Steps[s][k + 1])) \union Asserts(Steps[s][k + 1])
           <=> p \in Levels(s, k + 1)
<1> USE DEF Asserts, Releases, Strobes, Levels, ActiveEdges, FetchCycles
<1>1. CASE s = "m1_fetch"
  <2>1. Steps[s] = m1_fetch_steps /\ Count[s] = 8
    BY <1>1, StepsOf DEF Count, MachineCycles, AckCycles, BusCycles, IdleCycles
  <2> QED BY <1>1, <2>1 DEF m1_fetch_steps
<1>2. CASE s = "nmi_ack"
  <2>1. Steps[s] = nmi_ack_steps /\ Count[s] = 10
    BY <1>2, StepsOf DEF Count, MachineCycles, AckCycles, BusCycles, IdleCycles
  <2> QED BY <1>2, <2>1 DEF nmi_ack_steps
<1>3. CASE s = "int_ack"
  <2>1. Steps[s] = int_ack_steps /\ Count[s] = 14
    BY <1>3, StepsOf DEF Count, MachineCycles, AckCycles, BusCycles, IdleCycles
  <2> QED BY <1>3, <2>1 DEF int_ack_steps
<1>4. CASE s = "mem_read"
  <2>1. Steps[s] = mem_read_steps /\ Count[s] = 6
    BY <1>4, StepsOf DEF Count, MachineCycles, AckCycles, BusCycles, IdleCycles
  <2> QED BY <1>4, <2>1 DEF mem_read_steps
<1>5. CASE s = "mem_write"
  <2>1. Steps[s] = mem_write_steps /\ Count[s] = 6
    BY <1>5, StepsOf DEF Count, MachineCycles, AckCycles, BusCycles, IdleCycles
  <2> QED BY <1>5, <2>1 DEF mem_write_steps
<1>6. CASE s = "io_read"
  <2>1. Steps[s] = io_read_steps /\ Count[s] = 8
    BY <1>6, StepsOf DEF Count, MachineCycles, AckCycles, BusCycles, IdleCycles
  <2> QED BY <1>6, <2>1 DEF io_read_steps
<1>7. CASE s = "io_write"
  <2>1. Steps[s] = io_write_steps /\ Count[s] = 8
    BY <1>7, StepsOf DEF Count, MachineCycles, AckCycles, BusCycles, IdleCycles
  <2> QED BY <1>7, <2>1 DEF io_write_steps
<1>8. CASE s \in IdleCycles
  <2>1. Steps[s] = idle_steps /\ Count[s] <= 14
    BY <1>8, StepsOf DEF Count, MachineCycles, AckCycles, BusCycles, IdleCycles
  <2> QED BY <1>8, <2>1, CountType DEF idle_steps, IdleCycles
<1> QED BY ONLY s \in MachineCycles, <1>1, <1>2, <1>3, <1>4, <1>5, <1>6, <1>7, <1>8
        DEF MachineCycles, AckCycles, BusCycles

(* Executing the two steps of a stretched T-state again changes no strobe. *)
LEMMA RepeatKeepsWave ==
  ASSUME NEW s \in MachineCycles, WaitStep[s] # NoWait,
         NEW k \in {WaitStep[s] - 1, WaitStep[s]}, NEW p \in Strobes
  PROVE  p \in (Levels(s, WaitStep[s] + 1) \ Releases(Steps[s][k + 1]))
                  \union Asserts(Steps[s][k + 1])
           <=> p \in Levels(s, WaitStep[s] + 1)
<1> USE DEF Asserts, Releases, Strobes, Levels, ActiveEdges, FetchCycles
<1>0. s \notin IdleCycles
  BY DEF WaitStep
<1>1. CASE s = "m1_fetch"
  <2>1. Steps[s] = m1_fetch_steps /\ WaitStep[s] = 3
    BY <1>1, StepsOf DEF WaitStep, MachineCycles, AckCycles, BusCycles, IdleCycles
  <2> QED BY <1>1, <2>1 DEF m1_fetch_steps
<1>2. CASE s = "nmi_ack"
  <2>1. Steps[s] = nmi_ack_steps /\ WaitStep[s] = 3
    BY <1>2, StepsOf DEF WaitStep, MachineCycles, AckCycles, BusCycles, IdleCycles
  <2> QED BY <1>2, <2>1 DEF nmi_ack_steps
<1>3. CASE s = "int_ack"
  <2>1. Steps[s] = int_ack_steps /\ WaitStep[s] = 3
    BY <1>3, StepsOf DEF WaitStep, MachineCycles, AckCycles, BusCycles, IdleCycles
  <2> QED BY <1>3, <2>1 DEF int_ack_steps
<1>4. CASE s = "mem_read"
  <2>1. Steps[s] = mem_read_steps /\ WaitStep[s] = 3
    BY <1>4, StepsOf DEF WaitStep, MachineCycles, AckCycles, BusCycles, IdleCycles
  <2> QED BY <1>4, <2>1 DEF mem_read_steps
<1>5. CASE s = "mem_write"
  <2>1. Steps[s] = mem_write_steps /\ WaitStep[s] = 3
    BY <1>5, StepsOf DEF WaitStep, MachineCycles, AckCycles, BusCycles, IdleCycles
  <2> QED BY <1>5, <2>1 DEF mem_write_steps
<1>6. CASE s = "io_read"
  <2>1. Steps[s] = io_read_steps /\ WaitStep[s] = 5
    BY <1>6, StepsOf DEF WaitStep, MachineCycles, AckCycles, BusCycles, IdleCycles
  <2> QED BY <1>6, <2>1 DEF io_read_steps
<1>7. CASE s = "io_write"
  <2>1. Steps[s] = io_write_steps /\ WaitStep[s] = 5
    BY <1>7, StepsOf DEF WaitStep, MachineCycles, AckCycles, BusCycles, IdleCycles
  <2> QED BY <1>7, <2>1 DEF io_write_steps
<1> QED BY ONLY s \in MachineCycles, <1>0, <1>1, <1>2, <1>3, <1>4, <1>5, <1>6, <1>7
        DEF MachineCycles, AckCycles, BusCycles

(* The same facts about Drive. *)
LEMMA DriveFollowsWave ==
  ASSUME NEW s \in MachineCycles, NEW k \in 0 .. Count[s] - 1, NEW pins,
         pins \intersect Strobes = Levels(s, k)
  PROVE  Drive(s, k, pins) \intersect Strobes = Levels(s, k + 1)
<1>1. Drive(s, k, pins) = (pins \ Releases(Steps[s][k + 1])) \union Asserts(Steps[s][k + 1])
  BY DEF Drive
<1>2. Levels(s, k) \subseteq Strobes /\ Levels(s, k + 1) \subseteq Strobes
  BY DEF Levels
<1> QED BY <1>1, <1>2, StepFollowsWave

LEMMA DriveRepeats ==
  ASSUME NEW s \in MachineCycles, WaitStep[s] # NoWait,
         NEW k \in {WaitStep[s] - 1, WaitStep[s]}, NEW pins,
         pins \intersect Strobes = Levels(s, WaitStep[s] + 1)
  PROVE  Drive(s, k, pins) \intersect Strobes = Levels(s, WaitStep[s] + 1)
<1>1. Drive(s, k, pins) = (pins \ Releases(Steps[s][k + 1])) \union Asserts(Steps[s][k + 1])
  BY DEF Drive
<1>2. Levels(s, WaitStep[s] + 1) \subseteq Strobes
  BY DEF Levels
<1> QED BY <1>1, <1>2, RepeatKeepsWave
===============================================================================
