--------------------------- MODULE MCPlayerStore ----------------------------
(* Players Ada and Bo, written in two ways; a create and a create in       *)
(* another spelling, a rotate and a remove, one hand edit, one crash.      *)
EXTENDS PlayerStore

MCNames == {"ada", "Ada"}
MCFold(n) == "ada"
MCRequests == {"createAda", "createada", "rotate", "remove"}
MCOpOf(r) == CASE r \in {"createAda", "createada"} -> "create" [] OTHER -> r
MCNameOf(r) == IF r = "createAda" THEN "Ada" ELSE "ada"
=============================================================================
