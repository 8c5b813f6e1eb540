---------------------------- MODULE MCAesdModule ----------------------------
(***************************************************************************)
(* Model values and bounds for the run of AesdModule.                      *)
(***************************************************************************)
EXTENDS AesdModule, TLC

CONSTANTS x, nl

MCBytes == {x, nl}

(* A fragment, and the newline that completes a line. *)
MCPayloads == {<<x>>, <<nl>>}

Symmetry == Permutations(Files) \cup Permutations(Blocks)

(* No guard and no property here looks at the old value of result, nor at  *)
(* the position of a closed file.                                          *)
View ==
  <<buffer, aesd_entry, lock, heap, pc, local, oops, loading,
    [f \in Files |-> IF pc[f] = "closed" THEN 0 ELSE f_pos[f]]>>
=============================================================================
