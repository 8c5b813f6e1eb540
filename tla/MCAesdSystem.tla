---------------------------- MODULE MCAesdSystem ----------------------------
(***************************************************************************)
(* Model values and bounds for the run of AesdSystem.                      *)
(***************************************************************************)
EXTENDS AesdSystem, TLC

CONSTANTS x, nl

MCBytes == {x, nl}

(* A fragment, and the newline that completes a line. *)
MCPayloads == {<<x>>, <<nl>>}

Symmetry == Permutations(Workers) \cup Permutations(Blocks)

(* result says what the last call returned; no guard and no property here  *)
(* looks at its old value.                                                 *)
View == <<buffer, aesd_entry, lock, heap, f_pos, pc, local, oops, server>>
=============================================================================
