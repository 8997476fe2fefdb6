--------------------------- MODULE MCSharedStorage --------------------------
(* A small instance of SharedStorage. *)
EXTENDS SharedStorage, TLC

CONSTANTS w1, w2, k1, k2, v1, v2

MCWindows == {w1, w2}
(* The windows run: one key that is set and deleted. *)
MCKeys == {k1}
MCValues == {v1}
Symmetry == Permutations(MCWindows)

(* The faults run: one window, and two keys that change together. *)
MCWindow == {w1}
MCTwoKeys == {k1, k2}
=============================================================================
