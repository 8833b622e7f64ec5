------------------------------ MODULE MCMonitor ------------------------------
EXTENDS Z80Monitor

(* NOP: for the runs whose question is the frame and not the instruction.   *)
OneNop == {0}

(* EI, which lets INT in, EX (SP),HL, and the prefixes DD and CB, with      *)
(* which DD EX (SP),IX and DD CB d, a rotate in memory, are the longest     *)
(* instructions there are.                                                 *)
LongBytes == {251, 227, 221, 203}
=============================================================================
