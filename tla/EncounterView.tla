---------------------------- MODULE EncounterView ----------------------------
(***************************************************************************)
(* The pure part of the encounter mirror, apps/gateway/src/encounters.ts:  *)
(* which of Foundry's combats is the current one, in which order its       *)
(* combatants act, and what a player is shown of them (view()).            *)
(*                                                                         *)
(* A combat is a record [id, round, turn, list, hidden]: turn is a         *)
(* zero-based index or None, list the combatants in the document's order,  *)
(* hidden the ones the players must not see.  Names, images and token      *)
(* uuids are left out: nothing below depends on them.                      *)
(***************************************************************************)
EXTENDS Naturals, Sequences, FiniteSets

CONSTANTS
    Combatants,   \* combatant ids
    Actors,       \* actor ids
    PCs,          \* the actors of type "character"
    ActorOf,      \* combatant -> its linked actor, or None
    Initiative,   \* combatant -> initiative; 0 stands for null, which sorts last
    MaxHp,        \* hp.max of every actor
    None          \* null / undefined

ASSUME EncounterViewAssumption ==
    /\ PCs \subseteq Actors
    /\ ActorOf \in [Combatants -> Actors \cup {None}]
    /\ Initiative \in [Combatants -> Nat]
    /\ MaxHp \in Nat

Entries(s) == {s[i] : i \in DOMAIN s}

\* pickCurrentEncounter: the combat flagged current, else the only started
\* one.  combats maps the ids of the combats that exist to their records.
PickCurrentEncounter(combats, current) ==
    LET started == {i \in DOMAIN combats : combats[i].round >= 1} IN
    IF current \in DOMAIN combats THEN combats[current]
    ELSE IF Cardinality(started) = 1 THEN combats[CHOOSE i \in started : TRUE]
    ELSE None

IsActive(combat) == combat # None /\ combat.round >= 1

\* byInitiativeDesc with a stable sort: i goes before j.
Precedes(list, i, j) ==
    \/ Initiative[list[i]] > Initiative[list[j]]
    \/ Initiative[list[i]] = Initiative[list[j]] /\ i < j

\* Array.prototype.sort: the k-th entry is the one that k-1 others precede.
Sorted(list) ==
    [k \in DOMAIN list |->
        list[CHOOSE i \in DOMAIN list :
                Cardinality({j \in DOMAIN list : Precedes(list, j, i)}) = k - 1]]

\* filter: the entries that are not hidden, in order (spelled out, not
\* SelectSeq, so that the proofs can go through it).
Visible(list, hidden) ==
    LET kept[i \in Nat] ==
            IF i = 0 THEN <<>>
            ELSE IF list[i] \in hidden THEN kept[i - 1]
            ELSE Append(kept[i - 1], list[i])
    IN  kept[Len(list)]

Shown(combat) == Visible(Sorted(combat.list), combat.hidden)

\* Mutant of TurnPointer: the index is applied to the filtered list.
TurnOfShown(combat) ==
    IF combat.turn # None /\ combat.turn < Len(Shown(combat))
    THEN Shown(combat)[combat.turn + 1] ELSE None

\* The acting combatant: looked up in the full list, then hidden if hidden.
TurnPointer(combat) ==
    LET acting == Sorted(combat.list)[combat.turn + 1] IN
    IF combat.turn # None /\ combat.turn < Len(combat.list) /\ acting \notin combat.hidden
    THEN acting ELSE None

ComputeHealth(hp) ==
    CASE hp = 0 \/ MaxHp = 0 -> "down"
      [] hp > 0 /\ 2 * hp < MaxHp -> "bloodied"
      [] 2 * hp >= MaxHp /\ hp > 0 /\ hp < MaxHp -> "wounded"
      [] OTHER -> "healthy"

\* What is shown of a combatant whose cached actor document is entry (None:
\* not fetched or not available): exact hp for a PC, a health state otherwise.
Cell(entry) ==
    IF entry # None /\ entry.of \in PCs
    THEN [hp |-> entry.hp]
    ELSE [health |-> IF entry = None THEN "healthy" ELSE ComputeHealth(entry.hp)]

Inactive == [active |-> FALSE]

\* view(), given the entry cached for each combatant.
ViewOf(combat, entry) ==
    IF ~IsActive(combat) THEN Inactive
    ELSE LET shown == Shown(combat)
             row == [c \in Combatants |-> [id |-> c, cell |-> Cell(entry[c])]] IN
         [active     |-> TRUE,
          round      |-> combat.round,
          turn       |-> TurnPointer(combat),
          combatants |-> [k \in DOMAIN shown |-> row[shown[k]]]]

\* current(): the acting combatant, None when inactive or hidden.
Current(combat) == IF IsActive(combat) THEN TurnPointer(combat) ELSE None

\* combatantByActorId: the first visible combatant of the actor.
CombatantByActorId(combat, a) ==
    LET mine == {i \in DOMAIN combat.list :
                    ActorOf[combat.list[i]] = a /\ combat.list[i] \notin combat.hidden} IN
    IF combat = None \/ mine = {} THEN None
    ELSE combat.list[CHOOSE i \in mine : \A j \in mine : i <= j]
=============================================================================
