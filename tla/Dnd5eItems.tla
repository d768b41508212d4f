----------------------------- MODULE Dnd5eItems -----------------------------
(***************************************************************************)
(* What a dnd5e item is and does: the toggles it has, whether it is usable,*)
(* what its activities amount to, and the dice its display rolls show.     *)
(*                                                                         *)
(* An item's "activities" is a sequence of records with a "type"; a damage *)
(* or healing part is a record of number, denomination, bonus (or `ref',   *)
(* "@mod" or "@classes") and scaling.  A formula is a sequence of dice     *)
(* terms [number, denomination, bonus].                                    *)
(***************************************************************************)
EXTENDS Dnd5eResources

IsPhysical(i) == i.type \in PHYSICAL_ITEM_TYPES
properties(i) == At(i, "properties", {})

-----------------------------------------------------------------------------
\* Toggles: equip, attune, grip, prepare

isEquippable(i) ==
  \/ i.type = "weapon"
  \/ /\ i.type = "equipment"
     /\ At(i, "type.value", "none") \in {"light", "medium", "heavy", "natural", "shield"}

\* The numbers of documents before dnd5e 5 are written "1" and "2".
isAttuneable(i) ==
  IsPhysical(i) /\ At(i, "attunement", "") \in {"required", "optional", "1", "2"}
isAttuned(i) == IsAt(i, "attuned", TRUE) \/ IsAt(i, "attunement", "2")
requiresAttunement(i) == At(i, "attunement", "") \in {"required", "1"}

isVersatileWeapon(i) == i.type = "weapon" /\ "ver" \in properties(i)
weaponGrip(i) ==
  IF IsAt(i, "flags.unseen-servent.grip", "twoHanded") THEN "twoHanded" ELSE "oneHanded"

SpellLevel(i) == At(i, "level", 0)
freeUseMethod(i) == At(i, "method", "spell") \in {"atwill", "innate"}
AlwaysPrepared(i) == IsAt(i, "prepared", 2)
isPrepared(i) == At(i, "prepared", 0) \in {1, 2}
isPreparableSpell(i) ==
  i.type = "spell" /\ SpellLevel(i) > 0 /\ ~AlwaysPrepared(i) /\ ~freeUseMethod(i)

(***************************************************************************)
(* The budget shown for prepared spells: those prepared (not always so),   *)
(* against the ability and levels of the highest preparing class.          *)
(***************************************************************************)
preparedBase(actor) ==
  LET casters == {c \in classItems(actor) :
                   /\ Has(c, "spellcasting.ability")
                   /\ At(c, "spellcasting.progression", "none") # "none"}
      preparers == {c \in casters : Has(c, "spellcasting.preparation.formula")}
      pool == IF preparers = {} THEN casters ELSE preparers
      primary == CHOOSE c \in pool : \A o \in pool : Levels(c) >= Levels(o)
      progression == primary["spellcasting.progression"]
      levels == Levels(primary) \div
                  (CASE progression \in {"half", "artificer"} -> 2
                     [] progression = "third" -> 3 [] OTHER -> 1)
  IN IF casters = {} THEN 0
     ELSE Max({0, abilityMod(actor.sys, primary["spellcasting.ability"]) + levels})

spellPrepBudget(actor) ==
  LET preparable == {i \in ToSet(actor.items) : isPreparableSpell(i)}
  IN IF preparable = {} THEN << >>
     ELSE [prepared |-> Cardinality({i \in preparable : isPrepared(i)}),
           base |-> preparedBase(actor)]

-----------------------------------------------------------------------------
\* Activities

allActivities(i) == At(i, "activities", <<>>)
firstActivity(i) == IF allActivities(i) = <<>> THEN << >> ELSE Head(allActivities(i))
activityType(i) == At(firstActivity(i), "type", "none")
HasActivity(i, type) == \E k \in DOMAIN allActivities(i) : allActivities(i)[k].type = type
FirstOfType(i, type) ==
  LET of == SelectSeq(allActivities(i), LAMBDA a : a.type = type)
  IN IF of = <<>> THEN << >> ELSE Head(of)
DamageParts(a) == At(a, "damage.parts", <<>>)

hasAreaTemplate(i) ==
  \/ Has(i, "target.template.type")
  \/ \E a \in ToSet(allActivities(i)) : Has(a, "target.template.type")

isUsableInventoryItem(i) ==
  IsPhysical(i) /\ i.type # "weapon" /\ allActivities(i) # <<>>
isUsableFeature(i) == i.type = "feat" /\ (allActivities(i) # <<>> \/ HasUses(i))

hasSaveWithDamage(i) ==
  \E a \in ToSet(allActivities(i)) : a.type = "save" /\ DamageParts(a) # <<>>
UtilityRolls(i) ==
  SelectSeq(allActivities(i), LAMBDA a : a.type = "utility" /\ Has(a, "roll.formula"))

effectTypeOf(i) ==
  IF HasActivity(i, "heal") THEN "heal"
  ELSE IF \/ i.type \in {"spell", "feat"} /\ HasActivity(i, "attack")
          \/ hasSaveWithDamage(i)
          \/ HasActivity(i, "save") /\ UtilityRolls(i) # <<>>
       THEN "damage" ELSE "utility"

Targeting(mode, kind) == [mode |-> mode, kind |-> kind]
NoTargeting == Targeting("none", "none")

targetingOf(i) ==
  LET first == firstActivity(i)
  IN IF effectTypeOf(i) = "heal" THEN Targeting("single", "heal")
     ELSE IF effectTypeOf(i) # "damage" THEN NoTargeting
     ELSE IF activityType(i) = "attack" THEN Targeting("single", "attack")
     ELSE IF activityType(i) = "save" /\ DamageParts(first) # <<>>
     THEN Targeting("multiple", "save")
     ELSE NoTargeting

(***************************************************************************)
(* The effect a buff puts on its caster or target: the spell's first one   *)
(* that is not passive and changes something; never of a spell that heals, *)
(* harms or is resisted by a save.                                         *)
(***************************************************************************)
CastEffects(i) ==
  SelectSeq(At(i, "effects", <<>>), LAMBDA e : ~e.transfer /\ e.changes # {})
isBuff(i) ==
  /\ i.type = "spell" /\ effectTypeOf(i) = "utility"
  /\ ~HasActivity(i, "save") /\ CastEffects(i) # <<>>
selfBuffEffect(i) == [name |-> i.id, changes |-> Head(CastEffects(i)).changes]
buffTargetIsSelf(i) == IsAt(firstActivity(i), "target.affects.type", "self")
isSelfTargeted(i) == IsAt(FirstOfType(i, "heal"), "target.affects.type", "self")

-----------------------------------------------------------------------------
\* Dice

Term(number, denomination, bonus) ==
  <<[number |-> number, denomination |-> denomination, bonus |-> bonus]>>

weaponAbilityMod(actor, i) ==
  LET Mod(a) == abilityMod(actor.sys, a)
      first == firstActivity(i)
  IN IF Has(first, "attack.ability") THEN Mod(first["attack.ability"])
     ELSE IF "fin" \in properties(i) THEN Max({Mod("str"), Mod("dex")})
     ELSE Mod(IF IsAt(first, "attack.type.value", "ranged") THEN "dex" ELSE "str")

weaponAttackBonus(actor, i) ==
  weaponAbilityMod(actor, i)
    + (IF IsAt(i, "proficient", 0) THEN 0 ELSE proficiency(actor))
    + At(i, "magicalBonus", 0) + At(firstActivity(i), "attack.bonus", 0)

\* Dice without a positive number of positive size are none.
HasDice(d) == At(d, "number", 0) > 0 /\ At(d, "denomination", 0) > 0
readDice(i, path) ==
  LET dice == At(i, path, << >>) IN IF HasDice(dice) THEN dice ELSE << >>

stepUpDenomination(d) == IF d \in {4, 6, 8, 10} THEN d + 2 ELSE d

\* Two hands: the versatile die, else the base die stepped up one size.
gripDice(i) ==
  LET base == readDice(i, "damage.base")
      versatile == readDice(i, "damage.versatile")
  IN IF ~isVersatileWeapon(i) \/ weaponGrip(i) = "oneHanded" THEN base
     ELSE IF versatile # << >> THEN versatile
     ELSE IF base = << >> THEN base
     ELSE [base EXCEPT !.denomination = stepUpDenomination(@)]

weaponDamageFormula(actor, i) ==
  LET dice == gripDice(i)
  IN IF dice = << >> THEN <<>>
     ELSE Term(dice.number, dice.denomination,
               At(At(i, "damage.base", << >>), "bonus", 0) + weaponAbilityMod(actor, i))

cantripSteps(actor) ==
  Cardinality({t \in {5, 11, 17} : characterLevel(actor) >= t})

(***************************************************************************)
(* How far above its base a spell's dice scale: a cantrip by the character *)
(* level, else by the slot it is cast at (0: none was named), else a pact  *)
(* spell by the pact slots' level.                                         *)
(***************************************************************************)
scalingSteps(actor, i, castLevel) ==
  LET base == SpellLevel(i)
      pact == SlotPath("pact", "level")
  IN CASE i.type # "spell" -> 0
       [] base = 0 -> cantripSteps(actor)
       [] castLevel > 0 -> Max({0, castLevel - base})
       [] IsAt(i, "method", "pact") /\ Has(actor.sys, pact) ->
            Max({0, actor.sys[pact] - base})
       [] OTHER -> 0

scaledDiceNumber(part, steps) ==
  LET per == At(part, "per", 0)
  IN part.number + CASE At(part, "scaling", "none") = "whole" -> per * steps
                     [] At(part, "scaling", "none") = "half" -> per * (steps \div 2)
                     [] OTHER -> 0

PartBonus(actor, part) ==
  CASE At(part, "ref", "") = "@mod" ->
         abilityMod(actor.sys, At(actor.sys, <<"attributes", "spellcasting">>, "wis"))
    [] At(part, "ref", "") = "@classes" -> characterLevel(actor)
    [] OTHER -> At(part, "bonus", 0)

\* A part without dice gives no term.
PartTerm(actor, part, steps) ==
  IF ~HasDice(part) THEN <<>>
  ELSE Term(scaledDiceNumber(part, steps), part.denomination, PartBonus(actor, part))

healFormula(actor, i, castLevel) ==
  PartTerm(actor, At(FirstOfType(i, "heal"), "healing", << >>),
           scalingSteps(actor, i, castLevel))

\* The parts of the first activity that has dice, else a utility's own roll.
itemDamageFormula(actor, i, castLevel) ==
  LET Terms(a) == FlattenSeq([k \in DOMAIN DamageParts(a) |->
                    PartTerm(actor, DamageParts(a)[k], scalingSteps(actor, i, castLevel))])
      dicey == SelectSeq(allActivities(i), LAMBDA a : Terms(a) # <<>>)
  IN IF dicey # <<>> THEN Terms(Head(dicey))
     ELSE IF UtilityRolls(i) # <<>> THEN Head(UtilityRolls(i))["roll.formula"]
     ELSE <<>>

criticalFormula(f) == [k \in DOMAIN f |-> [f[k] EXCEPT !.number = 2 * @]]
d20Formula(bonus, mode) == [d20 |-> mode, bonus |-> bonus]
=============================================================================
