------------------------------ MODULE MCWrites ------------------------------
(* Two requests for one character, a cleric with a bag of tricks or a      *)
(* vampire, in scenarios that bring the routes' branches together.         *)
EXTENDS Writes

Activity(type) == <<"type" :> type>>
Dice(n, d) == [number |-> n, denomination |-> d, scaling |-> "whole", per |-> 1]
Heal(n) == <<"type" :> "heal" @@ "healing" :> Dice(n, 8)>>
SaveFor(n) == <<"type" :> "save" @@ "damage.parts" :> <<Dice(n, 6)>>>>
Item(id, type) == "id" :> id @@ "type" :> type
Spell(id, level, acts) ==
  Item(id, "spell") @@ "level" :> level @@ "prepared" :> 1 @@ "activities" :> acts
AcChange == [changes |-> {"attributes.ac"}, transfer |-> FALSE]

Class == Item("cleric", "class") @@ "levels" :> 3 @@ "hd.spent" :> 1
           @@ "spellcasting.ability" :> "wis" @@ "spellcasting.progression" :> "full"
Cure == Spell("cure", 1, Heal(1))
Shielding == Spell("shielding", 1, Activity("utility")) @@ "effects" :> <<AcChange>>
Burst == Spell("burst", 1, SaveFor(3)) @@ "target.template.type" :> "cone"
Flame == Spell("flame", 0, SaveFor(1))
Gift == Item("gift", "feat") @@ "uses.max" :> 1
          @@ "activities" :> <<Head(Heal(1)) @@ "target.affects.type" :> "self">>
Sword == Item("sword", "weapon") @@ "equipped" :> TRUE @@ "damage.base" :> Dice(1, 8)
           @@ "damage.versatile" :> Dice(0, 10) @@ "properties" :> {"ver"}
           @@ "activities" :> Activity("attack")
Shield == Item("shield", "equipment") @@ "type.value" :> "shield" @@ "armor.value" :> 2
Wand == Item("wand", "consumable") @@ "attunement" :> "required" @@ "uses.max" :> 2
          @@ "uses.spent" :> 1 @@ "activities" :> SaveFor(2)
Bag == Item("bag", "container")
Box == Item("box", "container")
Rope == Item("rope", "loot") @@ "container" :> "bag" @@ "quantity" :> 2

Sys == <<"attributes", "hp", "value">> :> 0 @@ <<"attributes", "hp", "max">> :> 9 @@ <<"attributes", "hp", "temp">> :> 2
         @@ <<"abilities", "wis", "value">> :> 16 @@ <<"abilities", "wis", "proficient">> :> 1 @@ <<"abilities", "str", "value">> :> 14
         @@ <<"spells", "spell1", "value">> :> 2 @@ <<"spells", "spell2", "value">> :> 1
Focus == [id |-> "focus", disabled |-> FALSE, changes |-> {}, statuses |-> {"concentrating"},
          appliedBy |-> FALSE]
Blessing == [id |-> "blessing", disabled |-> FALSE, changes |-> {"attributes.ac"},
             statuses |-> {}, appliedBy |-> TRUE]
Mark == [Blessing EXCEPT !.id = "hunters-mark", !.changes = {}]
Cleric(items) ==
  [id |-> "cleric", type |-> "character", systemId |-> "dnd5e", sys |-> Sys,
   items |-> <<Class>> \o items, effects |-> <<Focus, Blessing>>, flags |-> {}]
Caster == Cleric(<<Cure, Shielding, Burst, Flame, Gift>>)
Fighter == Cleric(<<Sword, Shield, Wand, Bag, Box, Rope>>)
Vampire5 ==
  [id |-> "vamp", type |-> "vampire", systemId |-> "wod5e",
   sys |-> <<"health", "max">> :> 3 @@ <<"health", "superficial">> :> 1 @@ <<"hunger", "value">> :> 2
             @@ <<"disciplines">> :> {"auspex"} @@ <<"disciplines", "auspex", "value">> :> 2
             @@ <<"attributes", "resolve", "value">> :> 2,
   items |-> <<Item("sight", "power") @@ "discipline" :> "auspex",
               Item("stakes", "gear") @@ "quantity" :> 2>>,
   effects |-> <<>>, flags |-> {}]
Derived == <<"spells", "spell1", "max">> :> 2 @@ <<"spells", "spell2", "max">> :> 1 @@ <<"attributes", "ac", "value">> :> 12

Do(kind, id) == [route |-> "actions", kind |-> kind, actionId |-> id]
To(kind, id, to) == Do(kind, <<"item", id, kind>>) @@ [to |-> to]
Cast(id) == Do("cast", <<"spell", id, "cast">>)
Move(id, to) == Do("move", <<"item", id, "move">>) @@ [containerId |-> to]
Delta(id, n) == [route |-> "intents", resourceId |-> id, kind |-> "delta", amount |-> n]
SetTo(id, n) == [route |-> "intents", resourceId |-> id, kind |-> "set", value |-> n]

Scenario(doc, bodies, gm) ==
  [doc |-> doc, bodies |-> bodies, edits |-> gm, derived |-> Derived,
   liveAc |-> <<"attributes", "ac", "value">> :> 13, party |-> {"ally"}, fighters |-> {"t1", "t2"},
   inFight |-> TRUE]
Edit(path, value) == [data |-> path :> value]

Casting ==
  Scenario(Caster,
    {Cast("cure"), Cast("cure") @@ [slotLevel |-> 2], Cast("burst"),
     Cast("shielding") @@ [targetActorId |-> "ally"],
     Cast("shielding") @@ [targetActorId |-> "stranger", slotLevel |-> 2],
     Do("use", <<"feature", "gift", "use">>), Delta(<<"hp">>, -1)},
    {Edit(<<"attributes", "hp", "value">>, 8)})
Targeting2 ==
  Scenario(Caster,
    {Cast("flame") @@ [targets |-> {"t1", "t2"}], Cast("flame") @@ [targets |-> {"t3"}],
     Cast("cure") @@ [targets |-> {"t1", "t2"}],
     Cast("cure") @@ [targets |-> {"t1"}, slotLevel |-> 2], Cast("shielding"),
     Do("damage", <<"spell", "burst", "damage">>) @@ [critical |-> TRUE, slotLevel |-> 2],
     SetTo(<<"slots", "spell2">>, 3)},
    {Edit(<<"spells", "spell2", "value">>, 0)})
Gear ==
  Scenario(Fighter,
    {To("equip", "shield", TRUE), To("attune", "wand", TRUE), To("grip", "sword", "twoHanded"),
     Do("use", <<"item", "wand", "use">>), Do("attack", <<"item", "sword", "attack">>),
     Do("attack", <<"item", "sword", "attack">>) @@ [targets |-> {"t1"}],
     Move("bag", "box"), Move("box", "bag"), Delta(<<"item", "rope", "qty">>, -3),
     [route |-> "remove", collection |-> "gear", itemId |-> "bag"],
     [route |-> "add", collection |-> "gear", entry |-> "torch"],
     [route |-> "add", collection |-> "gear", entry |-> "fly"]},
    {[itemId |-> "wand", data |-> "uses.spent" :> 2]})
Keeping ==
  Scenario([Caster EXCEPT !.sys[<<"attributes", "hp", "temp">>] = 0, !.effects = Append(@, Mark)],
    {Do("rest", <<"rest", "long">>), Do("deathsave", <<"deathsave", "roll">>),
     Do("endconcentration", <<"concentration", "end">>),
     Do("endeffect", <<"effect", "blessing", "remove">>),
     Do("endeffect", <<"effect", "hunters-mark", "remove">>),
     Do("prepare", <<"spell", "cure", "prepare">>) @@ [to |-> FALSE], Cast("cure"),
     Delta(<<"hitdice", "8">>, -4), Delta(<<"item", "gift", "uses">>, -2),
     SetTo(<<"inspiration">>, 1) @@ [expected |-> 1], SetTo(<<"hp", "temp">>, 4),
     SetTo(<<"ac">>, 20), Do("check", <<"skill", "ath">>) @@ [mode |-> "advantage"],
     [route |-> "roll", safe |-> TRUE], [route |-> "roll", safe |-> FALSE]},
    {Edit(<<"attributes", "hp", "value">>, 3)})
Night ==
  Scenario(Vampire5,
    {Delta(<<"health", "superficial">>, 2), SetTo(<<"health", "aggravated">>, 3),
     Delta(<<"hunger">>, 9) @@ [expected |-> 2], SetTo(<<"item", "stakes", "qty">>, 1),
     Do("pool", <<"pool", "power", "sight">>),
     Do("pool", <<"pool", "skills", "brawl">>) @@ [attribute |-> "wits", modifier |-> 30],
     Do("rouse", <<"rouse">>),
     [route |-> "items", input |-> [type |-> "weapon", damage |-> 2]],
     [route |-> "items", input |-> [type |-> "gear", damage |-> 2]],
     [route |-> "add", collection |-> "gear", entry |-> "torch"]},
    {Edit(<<"health", "superficial">>, 0)})
Unknown == Scenario([Vampire5 EXCEPT !.systemId = "morkborg"], {Delta(<<"hp">>, 1)}, {})

MCScenarios == {Casting, Targeting2, Gear, Keeping, Night, Unknown,
                [Targeting2 EXCEPT !.inFight = FALSE]}
\* Requests differ in nothing but their names.
Symmetric == Permutations(Requests)
MCTotals == {-1, 4}
MCCompendium == [torch |-> "type" :> "loot" @@ "quantity" :> 1,
                 fly |-> "type" :> "spell" @@ "level" :> 3]
=============================================================================
