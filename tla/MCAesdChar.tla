----------------------------- MODULE MCAesdChar -----------------------------
(***************************************************************************)
(* Model values and bounds for the runs of AesdChar.                       *)
(***************************************************************************)
EXTENDS AesdChar, TLC

CONSTANTS x, nl

MCBytes == {x, nl}

(* A fragment, the newline that completes a line, and one write with       *)
(* pieces of two lines.                                                    *)
MCPayloads == {<<x>>, <<nl>>, <<nl, x>>}

(* Backwards, in place and forwards. *)
MCOffsets == {-1, 0, 1}

Symmetry == Permutations(Files) \cup Permutations(Blocks)

(* No guard looks at result, and the properties only at its new value. *)
View == <<buffer, aesd_entry, lock, heap, f_pos, pc, local, oops>>
=============================================================================
