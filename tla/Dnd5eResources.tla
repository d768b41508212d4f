--------------------------- MODULE Dnd5eResources ---------------------------
(***************************************************************************)
(* The counters of a dnd5e sheet a player may write, with their bounds     *)
(* (buildResources), and what an intent on one of them writes into the     *)
(* document (buildUpdate).  A resource id "item.<id>.qty" is the tuple     *)
(* <<"item", id, "qty">>.                                                  *)
(***************************************************************************)
EXTENDS Dnd5eActor

CURRENCIES == {"pp", "gp", "ep", "sp", "cp"}
HpPath(field) == <<"attributes", "hp", field>>

-----------------------------------------------------------------------------
\* Limited uses and spell slots

\* An item has limited uses when its maximum is a number above zero.
HasUses(i) == At(i, "uses.max", 0) > 0
usesLeft(i) == Max({0, i["uses.max"] - At(i, "uses.spent", 0)})
usesExhausted(i) == HasUses(i) /\ At(i, "uses.spent", 0) >= i["uses.max"]

SlotPools == {"spell" \o ToString(l) : l \in 1..9} \cup {"pact"}
SlotPath(pool, field) == <<"spells", pool, field>>
SlotValue(sys, pool) == At(sys, SlotPath(pool, "value"), 0)

(***************************************************************************)
(* The maximum is derived by Foundry; a document without it falls back to  *)
(* the override, then to the value, and is never below the value.          *)
(***************************************************************************)
SlotMax(sys, pool) ==
  Max({SlotValue(sys, pool),
       At(sys, SlotPath(pool, "max"),
          At(sys, SlotPath(pool, "override"), SlotValue(sys, pool)))})
spellSlots(sys) == {p \in SlotPools : SlotMax(sys, p) > 0}

-----------------------------------------------------------------------------
\* buildResources

Counter(id, value) == [id |-> id, value |-> value, writable |-> TRUE, min |-> 0]
Bounded(id, value, max) == Counter(id, value) ++ [max |-> max]

Denominations(actor) == {Denomination(c) : c \in classItems(actor)}
OfDenomination(actor, d) == {c \in classItems(actor) : Denomination(c) = d}

Vitals(actor) ==
  LET sys == actor.sys
      hp == At(sys, HpPath("value"), 0)
      Dice(d) == Bounded(<<"hitdice", ToString(d)>>,
                         Total(Remaining, OfDenomination(actor, d), actor),
                         Total(Levels, OfDenomination(actor, d), actor))
  IN {Bounded(<<"hp">>, hp, At(sys, HpPath("max"), hp)),
      Counter(<<"hp", "temp">>, At(sys, HpPath("temp"), 0)),
      Bounded(<<"inspiration">>,
              IF IsAt(sys, <<"attributes", "inspiration">>, TRUE) THEN 1 ELSE 0, 1),
      Bounded(<<"exhaustion">>, At(sys, <<"attributes", "exhaustion">>, 0), 6)}
     \cup {Bounded(<<"deathsaves", k>>, At(sys, <<"attributes", "death", k>>, 0), 3) :
             k \in {"success", "failure"}}
     \cup {Dice(d) : d \in Denominations(actor)}

ItemCounters(actor) ==
  {Counter(<<"item", i.id, "qty">>, At(i, "quantity", 1)) :
     i \in {j \in ToSet(actor.items) : j.type \in PHYSICAL_ITEM_TYPES}}
  \cup {Bounded(<<"item", i.id, "uses">>, usesLeft(i), i["uses.max"]) :
     i \in {j \in ToSet(actor.items) : HasUses(j)}}

dnd5eResources(actor) ==
  Vitals(actor) \cup ItemCounters(actor)
  \cup {Bounded(<<"slots", p>>, SlotValue(actor.sys, p), SlotMax(actor.sys, p)) :
          p \in spellSlots(actor.sys)}
  \cup {Counter(<<"currency", c>>, At(actor.sys, <<"currency", c>>, 0)) : c \in CURRENCIES}
  \cup {[id |-> <<"ac">>, value |-> armorClass(actor), writable |-> FALSE]}

-----------------------------------------------------------------------------
\* buildUpdate

OnActor(path, value) == [data |-> Field(path, value)]
OnOneItem(id, path, value) == [itemId |-> id, data |-> Field(path, value)]

(***************************************************************************)
(* Damage (a negative delta) drains the temporary hit points first; a set  *)
(* is a literal write of the hit points alone.                             *)
(***************************************************************************)
HpUpdate(actor, d, intent, target) ==
  LET temp == At(actor.sys, HpPath("temp"), 0)
      absorbed == Min({temp, -intent.amount})
      value == Clamp(d.value + intent.amount + absorbed, d)
  IN IF intent.kind = "delta" /\ intent.amount < 0
     THEN [data |-> With(Field(HpPath("value"), value), absorbed > 0,
                         Field(HpPath("temp"), temp - absorbed))]
     ELSE OnActor(HpPath("value"), target)

(***************************************************************************)
(* A change of the dice left of one size goes to one class: to spend, the  *)
(* one with the most left; to regain, the one with the most used (ties:    *)
(* the higher level, then the first).  What it cannot take is dropped.     *)
(***************************************************************************)
buildHitDiceUpdate(actor, denomination, current, target) ==
  LET classes == OfDenomination(actor, denomination)
      Best(f(_)) == CHOOSE c \in classes : \A o \in classes :
                      \/ f(c) > f(o)
                      \/ f(c) = f(o) /\ Levels(c) >= Levels(o)
      spent == Best(Remaining)
      regained == Best(Used)
  IN IF target < current
     THEN OnOneItem(spent.id, "hd.spent",
                    Used(spent) + Min({current - target, Remaining(spent)}))
     ELSE OnOneItem(regained.id, "hd.spent",
                    Used(regained) - Min({target - current, Used(regained)}))

\* The resources stored as one number at one path of the actor.
PathOf(id) ==
  CASE id = <<"hp", "temp">> -> HpPath("temp")
    [] id[1] = "deathsaves" -> <<"attributes", "death", id[2]>>
    [] id[1] = "exhaustion" -> <<"attributes", "exhaustion">>
    [] id[1] = "slots" -> SlotPath(id[2], "value")
    [] id[1] = "currency" -> <<"currency", id[2]>>

dnd5eWrite(actor, d, intent, target) ==
  CASE d.id = <<"hp">> -> HpUpdate(actor, d, intent, target)
    [] d.id[1] = "inspiration" -> OnActor(<<"attributes", "inspiration">>, target = 1)
    [] d.id[1] = "item" /\ d.id[3] = "qty" -> OnOneItem(d.id[2], "quantity", target)
    [] d.id[1] = "item" /\ d.id[3] = "uses" ->
         OnOneItem(d.id[2], "uses.spent", d.max - target)
    [] d.id[1] = "hitdice" ->
         LET size == CHOOSE n \in Denominations(actor) : ToString(n) = d.id[2]
         IN buildHitDiceUpdate(actor, size, d.value, target)
    [] OTHER -> OnActor(PathOf(d.id), target)

-----------------------------------------------------------------------------
\* enrich: derived data of a later read, merged over the document

hasAcEffect(actor) ==
  \E e \in ToSet(actor.effects) : ~e.disabled /\ "attributes.ac" \in e.changes

(***************************************************************************)
(* `details' holds derived paths (slots with value, max and level, armor   *)
(* class, encumbrance, initiative, skills, abilities), or nothing if the   *)
(* read failed; `liveAc' a live armor class, asked for only when an effect *)
(* touches it, or nothing.                                                 *)
(***************************************************************************)
enrich(actor, details, liveAc) ==
  [actor EXCEPT !.sys =
     IF details = << >> THEN @
     ELSE IF hasAcEffect(actor) THEN liveAc ++ details ++ @ ELSE details ++ @]
=============================================================================
