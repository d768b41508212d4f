----------------------------- MODULE Dnd5eActor -----------------------------
(***************************************************************************)
(* The numbers of a dnd5e character sheet: read from derived data where    *)
(* the document has them, computed from source data where it has not, and  *)
(* the counters a player may write.                                        *)
(***************************************************************************)
EXTENDS FoundryDoc

ABILITIES == {"str", "dex", "con", "int", "wis", "cha"}

\* Each skill's default ability.
SKILLS == [acr |-> "dex", ani |-> "wis", arc |-> "int", ath |-> "str",
           dec |-> "cha", his |-> "int", ins |-> "wis", itm |-> "cha",
           inv |-> "int", med |-> "wis", nat |-> "int", prc |-> "wis",
           prf |-> "cha", per |-> "cha", rel |-> "int", slt |-> "dex",
           ste |-> "dex", sur |-> "wis"]

PHYSICAL_ITEM_TYPES ==
  {"weapon", "equipment", "consumable", "tool", "container", "loot"}

\* Of a list of numbers; of what some of an actor's items have.
Sum(list) ==
  LET upto[n \in 0..Len(list)] == IF n = 0 THEN 0 ELSE upto[n-1] + list[n]
  IN upto[Len(list)]
Total(f(_), items, actor) ==
  Sum([k \in DOMAIN actor.items |->
         IF actor.items[k] \in items THEN f(actor.items[k]) ELSE 0])

-----------------------------------------------------------------------------
\* Classes, level, proficiency, abilities

classItems(actor) == ItemsOf(actor, {"class"})
Levels(c) == At(c, "levels", 1)
Used(c) == At(c, "hd.spent", 0)
Denomination(c) == At(c, "hd.denomination", 8)
Remaining(c) == Max({0, Levels(c) - Used(c)})

characterLevel(actor) ==
  At(actor.sys, <<"details", "level">>, Total(Levels, classItems(actor), actor))

proficiency(actor) ==
  At(actor.sys, <<"attributes", "prof">>,
     2 + (Max({1, characterLevel(actor)}) - 1) \div 4)

AbilityPath(id, rest) == <<"abilities", id>> \o rest
SkillPath(id, rest) == <<"skills", id>> \o rest

abilityScore(sys, id) == At(sys, AbilityPath(id, <<"value">>), 10)

\* floor((score - 10) / 2): TLA+'s \div rounds down, too.
abilityMod(sys, id) ==
  At(sys, AbilityPath(id, <<"mod">>), (abilityScore(sys, id) - 10) \div 2)

Proficient(actor, id) == At(actor.sys, AbilityPath(id, <<"proficient">>), 0) >= 1

saveBonus(actor, id) ==
  At(actor.sys, AbilityPath(id, <<"save", "value">>),
     abilityMod(actor.sys, id)
       + IF Proficient(actor, id) THEN proficiency(actor) ELSE 0)

(***************************************************************************)
(* A skill's proficiency multiplier may be one half: it is stored doubled  *)
(* here, so that the numbers stay whole.                                   *)
(***************************************************************************)
skillInfo(actor, s) ==
  LET ability == At(actor.sys, SkillPath(s, <<"ability">>), SKILLS[s])
      doubled == At(actor.sys, SkillPath(s, <<"twice">>), 0)
  IN [ability |-> ability, profMult |-> doubled,
      total |-> At(actor.sys, SkillPath(s, <<"total">>),
                   abilityMod(actor.sys, ability)
                     + (doubled * proficiency(actor)) \div 2)]

initiative(actor) ==
  At(actor.sys, <<"attributes", "init", "total">>,
     abilityMod(actor.sys, "dex") + At(actor.sys, <<"attributes", "init", "bonus">>, 0))

-----------------------------------------------------------------------------
\* Armor class: derived, else flat, else from what is equipped

EquippedGear(actor) ==
  SelectSeq(ListOf(actor, {"equipment"}), LAMBDA i : IsAt(i, "equipped", TRUE))
Armored(actor) ==
  SelectSeq(EquippedGear(actor), LAMBDA i : Has(i, "armor.value"))
IsShield(i) == IsAt(i, "type.value", "shield")

armorClass(actor) ==
  LET dex == abilityMod(actor.sys, "dex")
      body == SelectSeq(Armored(actor), LAMBDA i : ~IsShield(i))
      Value(i) == i["armor.value"]
      base == IF body = <<>> THEN 10 + dex       \* the last one worn counts
              ELSE Value(Last(body)) + Min({dex, At(Last(body), "armor.dex", dex)})
      shields == Total(Value, {i \in ToSet(Armored(actor)) : IsShield(i)}, actor)
  IN At(actor.sys, <<"attributes", "ac", "value">>,
        At(actor.sys, <<"attributes", "ac", "flat">>, base + shields))

hasEquippedShield(actor) == \E i \in ToSet(EquippedGear(actor)) : IsShield(i)

hasStealthDisadvantageArmor(actor) ==
  \E i \in ToSet(EquippedGear(actor)) :
     "stealthDisadvantage" \in At(i, "properties", {})

-----------------------------------------------------------------------------
\* Passive values and indicators, which are shown and never rolled

(***************************************************************************)
(* The advantage or disadvantage shown beside a roll: any set flag on a    *)
(* path that covers it, the roll's own mode, or armor for Stealth.         *)
(***************************************************************************)
FlagPaths(kind, id) ==
  {<<"all">>} \cup
  IF kind = "skill" THEN {<<"skill", "all">>, <<"skill", id>>}
  ELSE {<<"ability", "all">>, <<"ability", kind, "all">>, <<"ability", kind, id>>}

ModePath(kind, id) ==
  IF kind = "skill" THEN SkillPath(id, <<"roll", "mode">>)
  ELSE AbilityPath(id, <<kind, "roll", "mode">>)

rollBias(actor, kind, id) ==
  LET Flagged(dir) == \E p \in FlagPaths(kind, id) : <<dir, p>> \in actor.flags
      mode == At(actor.sys, ModePath(kind, id), 0)
  IN [advantage |-> Flagged("advantage") \/ mode = 1,
      disadvantage |-> \/ Flagged("disadvantage")
                       \/ mode = -1
                       \/ /\ <<kind, id>> = <<"skill", "ste">>
                          /\ hasStealthDisadvantageArmor(actor)]

passive(actor, s) ==
  At(actor.sys, SkillPath(s, <<"passive">>),
     10 + skillInfo(actor, s).total
        + At(actor.sys, SkillPath(s, <<"bonuses", "passive">>), 0)
        + 5 * At(actor.sys, SkillPath(s, <<"roll", "mode">>), 0))

\* Speeds and senses: the actor's own value, else that of its first race item.
OwnOrRace(actor, own, inherited) ==
  LET races == ListOf(actor, {"race"})
      race == IF races = <<>> THEN << >> ELSE Head(races)
  IN At(actor.sys, own, At(race, inherited, 0))

speed(actor, mode) ==
  OwnOrRace(actor, <<"attributes", "movement", mode>>, "movement." \o mode)
speeds(actor) ==
  {m \in {"walk", "fly", "swim", "climb", "burrow"} :
     m = "walk" \/ speed(actor, m) > 0}
senses(actor) ==
  {s \in {"darkvision", "blindsight", "tremorsense", "truesight"} :
     OwnOrRace(actor, <<"attributes", "senses", "ranges", s>>, "senses.ranges." \o s) > 0}

(***************************************************************************)
(* Trait categories with at least one entry; the entries are ids, free     *)
(* text included.  Tools live in a table of their own, with a multiplier.  *)
(***************************************************************************)
TraitKeys == {"languages", "armorProf", "weaponProf", "dr", "di", "dv", "ci"}
traitLabels(actor, key) ==
  At(actor.sys, <<"traits", key, "value">>, {})
    \cup At(actor.sys, <<"traits", key, "custom">>, {})
toolLabels(actor) ==
  LET tools == At(actor.sys, <<"tools">>, << >>)
  IN {t \in DOMAIN tools : tools[t] > 0}
traitStats(actor) ==
  {<<k, traitLabels(actor, k)>> : k \in {key \in TraitKeys : traitLabels(actor, key) # {}}}
    \cup IF toolLabels(actor) = {} THEN {} ELSE {<<"tools", toolLabels(actor)>>}
=============================================================================
