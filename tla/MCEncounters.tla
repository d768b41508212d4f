---------------------------- MODULE MCEncounters ----------------------------
(* Instances of Encounters for TLC: one or two combats between a player    *)
(* character and a monster.                                                *)
EXTENDS Encounters, TLC

CONSTANTS x, y, p, n, k1, k2

ActorOfXY == (x :> p) @@ (y :> n)
ActorOfX == (x :> p) @@ (y :> None)
InitiativeXY == (x :> 1) @@ (y :> 2)

Fight(i, round, turn, list, hidden) ==
    [round |-> round, turn |-> turn, list |-> list, hidden |-> hidden, id |-> i]

\* A fight of both that has begun.
Begun == {Fight(k1, 1, 0, <<x, y>>, {})}

\* Announced, then begun.
TwoStages ==
    {Fight(k1, 0, None, <<x, y>>, {}), Fight(k1, 1, 0, <<x, y>>, {})}

\* The monster joins late.
LateMonster == {Fight(k1, 1, 0, <<x>>, {}), Fight(k1, 1, 0, <<x, y>>, {})}

\* Two fights, one of them begun.
TwoFights == {Fight(k1, 1, 0, <<x, y>>, {}), Fight(k2, 0, None, <<y>>, {})}
=============================================================================
