------------------------------ MODULE MCEngine ------------------------------
(***************************************************************************)
(* Small programs for the engine: the bytes memory holds in each run.      *)
(***************************************************************************)
EXTENDS Z80Engine

(* Interrupt control: NOP, HALT, EI, DI and the prefixes DD and ED with     *)
(* 45 RETN, 57 LD A,I, 5E IM 2 (unprefixed: LD B,L; LD D,A; LD E,(HL));     *)
(* and DB IN A,(n), whose I/O cycle samples WAIT later than the others.     *)
InterruptBytes == {0, 118, 251, 243, 221, 237, 69, 87, 94, 219}

(* Memory reads and writes, an I/O cycle, idle cycles and a repetition:     *)
(* 77 LD (HL),A; DB IN A,(n); 76 HALT; the prefixes CB, DD and ED; B0,      *)
(* which is LDIR after ED and a CB-prefixed read-modify-write after DD CB.  *)
BusBytes == {119, 219, 118, 203, 221, 237, 176}
=============================================================================
