------------------------------- MODULE AesdLog -------------------------------
(***************************************************************************)
(* What /dev/aesdchar promises its writers, without the ring, the heap or  *)
(* the lock: the device is a window onto the last MaxOps complete writes,  *)
(* in the order they were completed, and one partial write, shared by      *)
(* every writer, that is completed by the newline that ends it.            *)
(*                                                                         *)
(* AesdChar implements this module (PROPERTY ImplementsLog of AesdChar).   *)
(***************************************************************************)
EXTENDS Integers, Sequences

CONSTANTS MaxOps, NL, Payloads

VARIABLES
  window,    \* the writes a reader can see, the oldest first
  first,     \* the ring position of the oldest: the number AESDCHAR_IOCSEEKTO
             \* gives it
  partial    \* the bytes of the write that no newline has completed yet

vars == <<window, first, partial>>

(* A complete write: its only newline is its last byte. *)
IsLine(s) ==
  /\ s # <<>>
  /\ s[Len(s)] = NL
  /\ \A i \in 1 .. Len(s) - 1 : s[i] # NL

Init ==
  /\ window = <<>>
  /\ first = 0
  /\ partial = <<>>

(* A write that does not complete a line: it is kept, and not yet visible. *)
Extend(payload) ==
  /\ ~IsLine(partial \o payload)
  /\ partial' = partial \o payload
  /\ UNCHANGED <<window, first>>

(* A write that completes a line while there is room for it. *)
Complete(payload) ==
  /\ IsLine(partial \o payload)
  /\ Len(window) < MaxOps
  /\ window' = Append(window, partial \o payload)
  /\ partial' = <<>>
  /\ UNCHANGED first

(* A write that completes a line and pushes the oldest one out. *)
Replace(payload) ==
  /\ IsLine(partial \o payload)
  /\ Len(window) = MaxOps
  /\ window' = Append(Tail(window), partial \o payload)
  /\ first' = (first + 1) % MaxOps
  /\ partial' = <<>>

Next ==
  \E payload \in Payloads :
    Extend(payload) \/ Complete(payload) \/ Replace(payload)

Spec == Init /\ [][Next]_vars
=============================================================================
