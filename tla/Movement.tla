------------------------------ MODULE Movement ------------------------------
(***************************************************************************)
(* Moving a token and ending a turn: the movement, dash and turn routes of *)
(* apps/gateway/src/app.ts, the budget of movement-budget.ts and the grid  *)
(* rules of movement.ts.                                                   *)
(*                                                                         *)
(* The routes decide by what the encounter mirror shows.  Encounters says  *)
(* what that may be: any state the fight has had (MirrorShows).  Between   *)
(* the checks of a route and its effects lie calls of the relay, which may *)
(* be answered late, be given up and still be executed, or get lost.       *)
(*                                                                         *)
(* An actor stands for itself, its token and its combatant.                *)
(***************************************************************************)
EXTENDS Integers, Sequences, FiniteSets

CONSTANTS
    Actors,     \* the actors with a token on the scene
    Players,    \* the ones a player owns
    Order,      \* who fights, in the order of the initiative
    Unseen,     \* the combatants the GM hides
    Hidden,     \* the tokens the GM hides
    Size,       \* actor -> its token's width and height, in cells
    Cells,      \* cells a token may be moved to: pairs <<cx, cy>>
    SpeedFt, GridDistance,
    Slots,      \* requests under way at a time
    None,
    MaxFights, MaxRounds, MaxLog,  \* bounds: fights, rounds of a fight, states of the world
    MaxWalked, MaxDashes   \* bounds unless calm: feet of a turn after which no move is asked
                           \* for, dashes of a turn

Fighters == {Order[i] : i \in DOMAIN Order}

ASSUME MovementAssumption ==
    /\ Players \subseteq Actors
    /\ Order \in Seq(Actors) /\ Order # <<>>
    /\ \A i, j \in DOMAIN Order : Order[i] = Order[j] => i = j
    /\ Unseen \subseteq Actors /\ Hidden \subseteq Actors
    /\ Cells \subseteq Int \X Int
    /\ Size \in [Actors -> Nat \ {0}]
    /\ SpeedFt \in Nat /\ GridDistance \in Nat \ {0}
    /\ MaxFights \in Nat \ {0} /\ MaxRounds \in Nat \ {0}
    /\ {MaxLog, MaxWalked, MaxDashes} \subseteq Nat
    /\ None \notin Actors

VARIABLES
    calm,       \* is this a calm behaviour: nothing is given up, an actor's moves do not
                \* overlap, and the mirror never goes back?
    log,        \* the states the fight has had, the current one last
    mirror,     \* which of them the mirror shows
    pos,        \* Foundry: where each token is
    budget,     \* MovementBudgetTracker.entries: a partial function of keys
    req,        \* per slot: None, or a request and where it stands
    walked,     \* history: feet of the executed moves, by the key they were checked under
    dashes,     \* history: dashes granted, by key
    ended       \* history: pairs of an index of log and the player whose request ended that state

vars == <<calm, log, mirror, pos, budget, req, walked, dashes, ended>>

Fight(f, r, t) == [fight |-> f, round |-> r, turn |-> t]
World == log[Len(log)]
Shown == log[mirror]

IsActive(fight) == fight # None /\ fight.round >= 1
Acting(fight) == IF IsActive(fight) THEN Order[fight.turn + 1] ELSE None

----------------------------------------------------------------------------
(* Grid rules (movement.ts).                                               *)

Abs(n) == IF n < 0 THEN -n ELSE n
Chebyshev(a, b) ==
    LET dx == Abs(a[1] - b[1])  dy == Abs(a[2] - b[2]) IN IF dx > dy THEN dx ELSE dy

\* coveredCells: a token covers a square from its anchor on.
Covered(a, at) == {<<at[1] + dx, at[2] + dy>> : dx, dy \in 0..(Size[a] - 1)}

\* occupiedCells: where the other visible tokens are.
Occupied(seen, own) == UNION {Covered(a, seen[a]) : a \in Actors \ (Hidden \cup {own})}

\* validateMove, with ft feet left to go.
ValidateMove(a, seen, ft, target) ==
    /\ Chebyshev(seen[a], target) \in 1 .. ft \div GridDistance
    /\ target \notin Occupied(seen, a)

MoveCost(a, seen, target) == Chebyshev(seen[a], target) * GridDistance

----------------------------------------------------------------------------
(* The budget (movement-budget.ts) and combatMoveContext.                  *)

Keys == [fight : 1..MaxFights, round : 0..MaxRounds, of : Actors]
Key(a) == [fight |-> Shown.fight, round |-> Shown.round, of |-> a]

State(b, key) == IF key \in DOMAIN b THEN b[key] ELSE [movedFt |-> 0, dashed |-> FALSE]

Put(b, key, state) == [k \in DOMAIN b \cup {key} |-> IF k = key THEN state ELSE b[k]]

AddMove(b, key, ft) ==
    Put(b, key, [State(b, key) EXCEPT !.movedFt = @ + ft])

\* Only the shown round of the shown fight is kept.
Prune(b) ==
    [k \in {x \in DOMAIN b : x.fight = Shown.fight /\ x.round = Shown.round} |-> b[k]]

\* Mutant of InCombat: no acting combatant to be seen, no combat.
InCombatIfTurnShown(a) == IsActive(Shown) /\ a \in Fighters \ Unseen /\ Acting(Shown) \notin Unseen

InCombat(a) == IsActive(Shown) /\ a \in Fighters \ Unseen
YourTurn(a) == Acting(Shown) = a /\ a \notin Unseen

\* combatMoveContext's access to the budget.
Accessed(a) == IF InCombat(a) THEN Prune(budget) ELSE budget

\* Mutant of RemainingFt: a dash is another speed on top of what is left.
RemainingFtRefilled(b, key) ==
    IF State(b, key).dashed THEN 2 * SpeedFt ELSE SpeedFt - State(b, key).movedFt

RemainingFt(b, key) ==
    LET left == SpeedFt * (IF State(b, key).dashed THEN 2 ELSE 1) - State(b, key).movedFt IN
    IF left > 0 THEN left ELSE 0

----------------------------------------------------------------------------
Init ==
    /\ calm \in BOOLEAN
    /\ log \in {<<None>>, <<Fight(1, 1, 0)>>}
    /\ mirror = 1
    /\ pos \in [Actors -> Cells]
    /\ \A a, b \in Actors : a # b => Covered(a, pos[a]) \cap Covered(b, pos[b]) = {}
    /\ budget = [k \in {} |-> 0]
    /\ req = [s \in Slots |-> None]
    /\ walked = [k \in Keys |-> 0]
    /\ dashes = [k \in Keys |-> 0]
    /\ ended = {}

----------------------------------------------------------------------------
(* Foundry and the mirror (external).                                      *)

Becomes(fight) ==
    /\ Len(log) < MaxLog
    /\ log' = Append(log, fight)

\* combat.nextTurn(), called by the GM or by the gateway's script.
NextTurn ==
    LET w == World
        last == w.turn + 1 = Len(Order) IN
    /\ last => w.round < MaxRounds
    /\ Becomes(IF last THEN Fight(w.fight, w.round + 1, 0) ELSE Fight(w.fight, w.round, w.turn + 1))

GmAdvances ==
    /\ IsActive(World) /\ NextTurn
    /\ UNCHANGED <<calm, mirror, pos, budget, req, walked, dashes, ended>>

\* The GM ends the fight, or announces or begins one.
GmEndsOrBegins ==
    /\ \/ World # None /\ Becomes(None)
       \/ /\ World = None
          /\ LET f == 1 + Cardinality({log[i].fight : i \in {j \in DOMAIN log : log[j] # None}}) IN
             f <= MaxFights /\ Becomes(Fight(f, 0, 0))
       \/ World # None /\ World.round = 0 /\ Becomes(Fight(World.fight, 1, 0))
    /\ UNCHANGED <<calm, mirror, pos, budget, req, walked, dashes, ended>>

MirrorShows(n) ==
    /\ n # mirror
    /\ calm => n > mirror
    /\ mirror' = n
    /\ UNCHANGED <<calm, log, pos, budget, req, walked, dashes, ended>>

----------------------------------------------------------------------------
(* POST /api/actors/:id/movement.                                          *)

Request(stage, a, to, seen, key) ==
    [stage |-> stage, of |-> a, to |-> to, seen |-> seen, key |-> key]
Becoming(s, r) == req' = [req EXCEPT ![s] = r]
At(s, stage) == req[s] # None /\ req[s].stage = stage

Moving == {s \in Slots : req[s] # None /\ req[s].stage \in {"asked", "read", "sent", "moved", "late"}}

\* The request arrives; the scene is asked for.
MoveAsked(s, a, target) ==
    /\ req[s] = None
    /\ calm => \A u \in Moving : req[u].of # a
    /\ calm \/ \A k \in Keys : walked[k] < MaxWalked
    /\ Becoming(s, Request("asked", a, target, None, None))
    /\ UNCHANGED <<calm, log, mirror, pos, budget, walked, dashes, ended>>

\* The scene is answered; the speed is asked for next.
SceneRead(s) ==
    /\ At(s, "asked")
    /\ Becoming(s, [req[s] EXCEPT !.stage = "read", !.seen = pos])
    /\ UNCHANGED <<calm, log, mirror, pos, budget, walked, dashes, ended>>

ReadFails(s) ==
    /\ At(s, "asked") \/ At(s, "read")
    /\ Becoming(s, None)
    /\ UNCHANGED <<calm, log, mirror, pos, budget, walked, dashes, ended>>

\* Mutant of MoveChecked: the cost is charged before the move is known to be
\* executed.
ChargedEarly(s) ==
    LET r == req[s]  b == Accessed(r.of) IN
    /\ At(s, "read")
    /\ ValidateMove(r.of, r.seen, IF InCombat(r.of) THEN RemainingFt(b, Key(r.of)) ELSE SpeedFt, r.to)
    /\ InCombat(r.of) => YourTurn(r.of)
    /\ budget' = IF InCombat(r.of) THEN AddMove(b, Key(r.of), MoveCost(r.of, r.seen, r.to)) ELSE b
    /\ Becoming(s, [r EXCEPT !.stage = "sent", !.key = IF InCombat(r.of) THEN Key(r.of) ELSE None])
    /\ UNCHANGED <<calm, log, mirror, pos, walked, dashes, ended>>

\* The speed is answered: the move is refused, or sent to the relay.
MoveChecked(s) ==
    LET r == req[s]
        b == Accessed(r.of)
        ft == IF InCombat(r.of) THEN RemainingFt(b, Key(r.of)) ELSE SpeedFt
        ok == (InCombat(r.of) => YourTurn(r.of)) /\ ValidateMove(r.of, r.seen, ft, r.to) IN
    /\ At(s, "read")
    /\ budget' = b
    /\ Becoming(s, IF ~ok THEN None
                   ELSE [r EXCEPT !.stage = "sent", !.key = IF InCombat(r.of) THEN Key(r.of) ELSE None])
    /\ UNCHANGED <<calm, log, mirror, pos, walked, dashes, ended>>

\* Foundry moves the token, of a request that still waits or was given up.
MoveExecuted(s) ==
    LET r == req[s] IN
    /\ At(s, "sent") \/ At(s, "late")
    /\ pos' = [pos EXCEPT ![r.of] = r.to]
    /\ walked' = IF r.key = None THEN walked
                 ELSE [walked EXCEPT ![r.key] = @ + MoveCost(r.of, r.seen, r.to)]
    /\ Becoming(s, IF r.stage = "late" THEN None ELSE [r EXCEPT !.stage = "moved"])
    /\ UNCHANGED <<calm, log, mirror, budget, dashes, ended>>

\* The relay's answer arrives: the cost is charged to the key of the check,
\* and the budget accessed once more for the response.
MoveAnswered(s) ==
    LET r == req[s]
        charged == IF r.key = None THEN budget
                   ELSE AddMove(budget, r.key, MoveCost(r.of, r.seen, r.to)) IN
    /\ At(s, "moved")
    /\ budget' = IF InCombat(r.of) THEN Prune(charged) ELSE charged
    /\ Becoming(s, None)
    /\ UNCHANGED <<calm, log, mirror, pos, walked, dashes, ended>>

\* The relay's answer is not there in time, or an error: nothing is charged.
MoveGivenUp(s) ==
    /\ ~calm
    /\ At(s, "sent") \/ At(s, "moved")
    /\ Becoming(s, IF req[s].stage = "sent" THEN [req[s] EXCEPT !.stage = "late"] ELSE None)
    /\ UNCHANGED <<calm, log, mirror, pos, budget, walked, dashes, ended>>

\* A call given up was never executed, after all.
LateLost(s) ==
    /\ At(s, "late") \/ At(s, "endLate")
    /\ Becoming(s, None)
    /\ UNCHANGED <<calm, log, mirror, pos, budget, walked, dashes, ended>>

\* GET /api/actors/:id/movement: all it changes is the budget, pruned.
GetMovement(a) ==
    /\ InCombat(a)
    /\ budget' = Prune(budget)
    /\ UNCHANGED <<calm, log, mirror, pos, req, walked, dashes, ended>>

\* POST .../dash, after its reads: once per turn.
Dash(a) ==
    LET b == Accessed(a)  key == Key(a) IN
    /\ InCombat(a) /\ YourTurn(a)
    /\ calm \/ dashes[key] < MaxDashes
    /\ IF State(b, key).dashed
       THEN budget' = b /\ UNCHANGED dashes
       ELSE /\ budget' = Put(b, key, [State(b, key) EXCEPT !.dashed = TRUE])
            /\ dashes' = [dashes EXCEPT ![key] = @ + 1]
    /\ UNCHANGED <<calm, log, mirror, pos, req, walked, ended>>

----------------------------------------------------------------------------
(* POST /api/encounter/turn/end.                                           *)

\* current() is the player's own combatant: the script is sent.
EndAsked(s, a) ==
    /\ req[s] = None
    /\ YourTurn(a)
    /\ Becoming(s, Request("ending", a, None, None, Key(a)))
    /\ UNCHANGED <<calm, log, mirror, pos, budget, walked, dashes, ended>>

\* Mutant of EndExecuted: the script does not look who is acting.
EndExecutedBlind(s) ==
    LET r == req[s] IN
    /\ At(s, "ending") \/ At(s, "endLate")
    /\ IsActive(World) /\ NextTurn /\ ended' = ended \cup {<<Len(log), r.of>>}
    /\ Becoming(s, IF r.stage = "endLate" THEN None ELSE [r EXCEPT !.stage = "ended"])
    /\ UNCHANGED <<calm, mirror, pos, budget, walked, dashes>>

\* The script runs: the turn advances if the expected combatant (of the same
\* fight: ids are unique) is acting, of whatever round.
EndExecuted(s) ==
    LET r == req[s] IN
    /\ At(s, "ending") \/ At(s, "endLate")
    /\ IF Acting(World) = r.of /\ World.fight = r.key.fight
       THEN NextTurn /\ ended' = ended \cup {<<Len(log), r.of>>}
       ELSE UNCHANGED <<log, ended>>
    /\ Becoming(s, IF r.stage = "endLate" THEN None ELSE [r EXCEPT !.stage = "ended"])
    /\ UNCHANGED <<calm, mirror, pos, budget, walked, dashes>>

EndAnswered(s) ==
    /\ At(s, "ended")
    /\ Becoming(s, None)
    /\ UNCHANGED <<calm, log, mirror, pos, budget, walked, dashes, ended>>

EndGivenUp(s) ==
    /\ ~calm
    /\ At(s, "ending")
    /\ Becoming(s, [req[s] EXCEPT !.stage = "endLate"])
    /\ UNCHANGED <<calm, log, mirror, pos, budget, walked, dashes, ended>>

----------------------------------------------------------------------------
Foundry ==
    \/ GmAdvances \/ GmEndsOrBegins
    \/ \E n \in DOMAIN log : MirrorShows(n)
    \/ \E s \in Slots : MoveExecuted(s) \/ EndExecuted(s) \/ LateLost(s)

Gateway ==
    \/ \E a \in Players : GetMovement(a) \/ Dash(a)
    \/ \E s \in Slots :
        \/ \E a \in Players : EndAsked(s, a) \/ \E c \in Cells : MoveAsked(s, a, c)
        \/ SceneRead(s) \/ ReadFails(s) \/ MoveChecked(s) \/ MoveAnswered(s) \/ MoveGivenUp(s)
        \/ EndAnswered(s) \/ EndGivenUp(s)

Next == Foundry \/ Gateway

Spec == Init /\ [][Next]_vars
----------------------------------------------------------------------------
(* Properties.                                                             *)

Requests ==
    [stage : {"asked"}, of : Players, to : Cells, seen : {None}, key : {None}]
    \cup [stage : {"read"}, of : Players, to : Cells, seen : [Actors -> Cells], key : {None}]
    \cup [stage : {"sent", "moved", "late"}, of : Players, to : Cells, seen : [Actors -> Cells],
          key : Keys \cup {None}]
    \cup [stage : {"ending", "ended", "endLate"}, of : Players, to : {None}, seen : {None}, key : Keys]

ASSUME NoneAssumption == None \notin Requests

\* Every variable keeps its type.
TypeOK ==
    /\ calm \in BOOLEAN
    /\ log \in Seq({None} \cup
         [fight : 1..MaxFights, round : 0..MaxRounds, turn : 0..(Len(Order) - 1)])
    /\ mirror \in DOMAIN log
    /\ pos \in [Actors -> Cells]
    /\ DOMAIN budget \subseteq Keys
    /\ \A k \in DOMAIN budget : budget[k] \in [movedFt : Nat, dashed : BOOLEAN]
    /\ req \in [Slots -> Requests \cup {None}]
    /\ walked \in [Keys -> Nat] /\ dashes \in [Keys -> Nat]
    /\ ended \subseteq Nat \X Players

\* Nobody pays for a move that did not take place, whatever is given up,
\* late, or pruned and charged again.
NothingChargedUnwalked == \A k \in DOMAIN budget : budget[k].movedFt <= walked[k]

\* The cap holds if nothing extraordinary happens: an actor walks its speed
\* in a turn, twice that if it dashed, however its moves, the ends of
\* turns and fights, reads of the budget and the mirror's delay interleave.
SpeedIsKept == calm => \A k \in Keys : walked[k] <= SpeedFt * (1 + dashes[k])

\* Nobody moves for free in a fight: what is sent to the relay, or granted as
\* a dash, is for the combatant the mirror has acting or for one it has not
\* fighting, also while the acting one is hidden (combatMoveContext's Fix 1).
OnlyInTurn ==
    [][\A a \in Players :
         \/ \E s \in Slots : /\ At(s, "read") /\ req[s].of = a
                            /\ req'[s] # None /\ req'[s].stage = "sent"
         \/ \E k \in Keys : k.of = a /\ dashes'[k] > dashes[k]
         => \/ Acting(Shown) = a
            \/ ~IsActive(Shown) \/ a \notin Fighters \ Unseen]_vars

\* However often a player taps, repeats a request that was given up, or has
\* an old one executed late, and however the mirror lags: at most one turn of
\* a round is ended in that player's name.  (A second one would be somebody
\* else's turn that is skipped; a GM who turns back is not modelled.)
EndsOneTurn ==
    \A e, f \in ended :
        LET x == log[e[1]]  y == log[f[1]] IN
        e[2] = f[2] /\ x.fight = y.fight /\ x.round = y.round => e = f
=============================================================================
