-------------------------------- MODULE MCPage --------------------------------
(***************************************************************************)
(* Page in six scenarios: what the network does to the two streams; the   *)
(* ways of a tap on an action, with a GM who takes one away; other kinds   *)
(* of request, some two at a time; and what is shown of every small combat.*)
(***************************************************************************)
EXTENDS Page

CONSTANTS x, y, z, attack, cast, buff, check

Bounds(taps, breaks, edits, faults) ==
    [taps |-> taps, breaks |-> breaks, edits |-> edits, faults |-> faults]

ActionIdsDef == {attack, cast, buff, check}
Act(kind, levels, targeting, targetable) ==
    [kind |-> kind, levels |-> levels, targeting |-> targeting, targetable |-> targetable]
DescriptorDef ==
    (attack :> Act("attack", "none", TRUE, FALSE)) @@ (cast :> Act("cast", "many", TRUE, FALSE))
      @@ (buff :> Act("cast", "many", FALSE, TRUE)) @@ (check :> Act("check", "none", FALSE, FALSE))

NoActor == [c \in Combatants |-> None]
InitiativeXYZ == (x :> 1) @@ (y :> 2) @@ (z :> 2)
Fight(turn, list, hidden) ==
    [id |-> 1, round |-> 1, turn |-> turn, list |-> list, hidden |-> hidden]
Duel == Fight(0, <<x, y>>, {})

\* Two or three of three combatants, y and z tied, in any order, hidden or
\* not, and every turn index, one out of range too.
Lists == {l \in UNION {[1..m -> Combatants] : m \in {2, 3}} :
            \A i, j \in DOMAIN l : l[i] = l[j] => i = j}
EveryCombat ==
    UNION {{Fight(t, l, h) : t \in (0..Len(l)) \cup {None}, h \in SUBSET Entries(l)} : l \in Lists}

AnyStart == [online : BOOLEAN, cached : BOOLEAN]
Cold == [online : {TRUE}, cached : {FALSE}]

Streams == [starts |-> AnyStart, slots |-> {}, offers |-> {check}, vanishing |-> {},
            combats |-> {None, Duel}, bounds |-> Bounds(1, 2, 1, 1)]
Taps == [starts |-> Cold, slots |-> {"action"}, offers |-> ActionIds, vanishing |-> {attack},
         combats |-> {Duel}, bounds |-> Bounds(2, 0, 1, 0)]
Requests == [starts |-> Cold, slots |-> {"intent", "box"}, offers |-> {check},
             vanishing |-> {}, combats |-> {None}, bounds |-> Bounds(2, 0, 0, 1)]
Rolls == [starts |-> Cold, slots |-> {"action", "pool", "dice"}, offers |-> {check},
          vanishing |-> {}, combats |-> {None}, bounds |-> Bounds(2, 0, 0, 1)]
Chores == [starts |-> Cold, offers |-> {check}, vanishing |-> {}, combats |-> {Duel},
           slots |-> {"item", "library", "remove", "move", "walk", "turnEnd", "hp"},
           bounds |-> Bounds(1, 0, 0, 1)]
Views == [starts |-> Cold, slots |-> {}, offers |-> {}, vanishing |-> {}, combats |-> EveryCombat,
          bounds |-> Bounds(0, 0, 0, 0)]
ScenariosDef == {Streams, Taps, Requests, Rolls, Chores, Views}
=============================================================================
