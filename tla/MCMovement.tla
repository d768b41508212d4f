----------------------------- MODULE MCMovement -----------------------------
(* Movement on a strip of cells: a player's token, and a monster the GM    *)
(* hides in the tracker, acting after it.                                  *)
EXTENDS Movement, TLC

CONSTANTS p, m, s1, s2

Strip == {<<x, 0>> : x \in 0..1}
PThenM == <<p, m>>
SlotSymmetry == Permutations({s1, s2})
Small == (p :> 1) @@ (m :> 1)
=============================================================================
