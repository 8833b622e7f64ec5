---------------------------- MODULE MCAccumulator ----------------------------
(***************************************************************************)
(* Operands on both sides of every carry: digits, nibbles, signs, words.   *)
(***************************************************************************)
EXTENDS Z80Accumulator

ByteStarts == [a : {49, 105, 127, 153, 255}, hl : {0}, f : {{}, {"C", "H", "N", "X"}}]
WordStarts == [a : {40}, hl : {4095, 32767, 65535}, f : {{}, {"C"}}]
SmallStarts == ByteStarts \union WordStarts

SmallOperands == {105}
SmallWords    == {1, 256, 32768}
=============================================================================
