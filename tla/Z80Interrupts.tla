---------------------------- MODULE Z80Interrupts ----------------------------
(***************************************************************************)
(* What the interrupt system promises, seen from the program: instructions *)
(* complete one after the other, and an interrupt starts between two of    *)
(* them or not at all.  There are no clock edges, machine cycles or pins   *)
(* here; module Z80Engine implements this specification (z80core.c,        *)
(* accept_interrupt and its callers; SPEC.md, sections 6 and 7).           *)
(***************************************************************************)
VARIABLES
  line,       \* the level of NMI when it was last looked at
  pending,    \* an NMI has been requested and not served
  enabled,    \* IFF1: INT is listened to
  saved,      \* IFF2: what RETN will put back into IFF1
  running     \* "program", or the acknowledge sequence in progress

protocolVars == <<line, pending, enabled, saved, running>>

(* The instructions that matter: all others are "ordinary". *)
Kinds == {"ordinary", "DI", "EI", "RETN"}

Init ==
  /\ line = FALSE
  /\ pending = FALSE
  /\ enabled = FALSE
  /\ saved = FALSE
  /\ running = "program"

(* NMI asks by a transition; INT asks by a level, and is not remembered.    *)
Requested(level) == pending \/ (~line /\ level)

(* Time passes within an instruction: only a request can be noted. *)
Sample(level) ==
  /\ line' = level
  /\ pending' = Requested(level)
  /\ UNCHANGED <<enabled, saved, running>>

(* A reset, from the RESET pin or from the host. *)
Reset(level) ==
  /\ line' = level
  /\ pending' = FALSE
  /\ enabled' = FALSE
  /\ saved' = FALSE
  /\ running' = "program"

EnabledAfter(kind) == \/ kind = "EI"
                      \/ kind = "RETN" /\ saved
                      \/ kind = "ordinary" /\ enabled
SavedAfter(kind)   == kind = "EI" \/ (kind # "DI" /\ saved)

(* An instruction completes and the next one follows: after EI always, else *)
(* when nothing asks that is listened to.                                   *)
Continue(kind, level, int) ==
  /\ kind = "EI" \/ (~Requested(level) /\ ~(int /\ EnabledAfter(kind)))
  /\ line' = level
  /\ pending' = Requested(level)
  /\ enabled' = EnabledAfter(kind)
  /\ saved' = SavedAfter(kind)
  /\ running' = "program"

ServeNmi(kind, level) ==
  /\ kind # "EI"
  /\ Requested(level)
  /\ line' = level
  /\ pending' = FALSE
  /\ enabled' = FALSE
  /\ saved' = EnabledAfter(kind)
  /\ running' = "nmi"

ServeInt(kind, level, int) ==
  /\ kind # "EI"
  /\ ~Requested(level)
  /\ int /\ EnabledAfter(kind)
  /\ line' = level
  /\ pending' = FALSE
  /\ enabled' = FALSE
  /\ saved' = FALSE
  /\ running' = "int"

(* An acknowledge sequence completes like an ordinary instruction. *)
Boundary(kind, level, int) ==
  /\ running # "program" => kind = "ordinary"
  /\ \/ Continue(kind, level, int)
     \/ ServeNmi(kind, level)
     \/ ServeInt(kind, level, int)

Next == \E level \in BOOLEAN :
          \/ Sample(level)
          \/ Reset(level)
          \/ \E kind \in Kinds, int \in BOOLEAN : Boundary(kind, level, int)

Spec == Init /\ [][Next]_protocolVars
=============================================================================
