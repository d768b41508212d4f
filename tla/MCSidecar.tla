----------------------------- MODULE MCSidecar ------------------------------
(* Two worlds, and a relay that refuses one of the scopes.                 *)
EXTENDS Sidecar

MCClientIds == {"a", "b"}
MCWorldOf == [a |-> "A", b |-> "B"]
=============================================================================
