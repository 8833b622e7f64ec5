------------------------------ MODULE MCSnapshot ------------------------------
EXTENDS Z80Snapshot

(* Short and long instructions under every prefix: B0 is OR B, LDIR after   *)
(* ED and a read-modify-write after DD CB; 76 is HALT, IM 1 after ED; with  *)
(* the prefixes themselves.                                                *)
SnapshotBytes == {176, 118, 203, 221, 237}
=============================================================================
