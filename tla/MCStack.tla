------------------------------ MODULE MCStack -------------------------------
(* A world paired twice, and another world.                                *)
EXTENDS Stack

MCClientIds == {"a1", "a2", "b"}
MCWorldOf == [a1 |-> "A", a2 |-> "A", b |-> "B"]
=============================================================================
