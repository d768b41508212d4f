---------------------------- MODULE Dnd5eActions ----------------------------
(***************************************************************************)
(* What a player may do with a dnd5e character (buildActions), and what    *)
(* each such intent asks of the relay (buildAction).  An action id         *)
(* "item.<id>.attack" is the tuple <<"item", id, "attack">>; an intent is a *)
(* record of kind, actionId and the parameters it has.                     *)
(***************************************************************************)
EXTENDS Dnd5eItems

Action(id, kind) == [id |-> id, kind |-> kind]
Use(i, group) ==
  Action(<<group, i.id, "use">>, "use")
    ++ [targeting |-> targetingOf(i), effectType |-> effectTypeOf(i)]

-----------------------------------------------------------------------------
\* Effects on the actor: the spell concentrated on, and the conditions

activeEffects(actor) == {e \in ToSet(actor.effects) : ~e.disabled}
concentration(actor) ==
  {e \in activeEffects(actor) : "concentrating" \in e.statuses}
conditions(actor) == activeEffects(actor) \ concentration(actor)
removable(actor) == {e \in conditions(actor) : e.appliedBy}

\* An effect without an id goes by the slug of its name.  The ids to remove one
\* by are alphanumeric; of the ids in this model one slug has a hyphen.
HyphenedSlugs == {"hunters-mark"}
isEffectId(id) == id \notin HyphenedSlugs

-----------------------------------------------------------------------------
\* buildActions

(***************************************************************************)
(* The levels of the slots that pay for a spell now, and whether the pact  *)
(* slots do (of an unknown level: offered, Foundry refuses).               *)
(***************************************************************************)
payableSlotLevels(actor, base) ==
  {l \in Max({1, base})..9 : SlotValue(actor.sys, "spell" \o ToString(l)) > 0}
canCastAtBase(actor, level) ==
  \/ level <= 0
  \/ level \in payableSlotLevels(actor, level)
  \/ /\ SlotValue(actor.sys, "pact") > 0
     /\ At(actor.sys, SlotPath("pact", "level"), level) >= level

\* No list: a direct cast.  An empty one: nothing pays for the spell.
SlotLevels(actor, i) ==
  LET level == SpellLevel(i)
      payable == payableSlotLevels(actor, level)
  IN IF freeUseMethod(i) \/ level = 0 THEN << >>
     ELSE IF ~IsAt(i, "method", "pact") /\ payable # {} THEN [slotLevels |-> payable]
     ELSE IF canCastAtBase(actor, level) THEN << >> ELSE [slotLevels |-> {}]

WeaponActions(actor, i) ==
  IF ~IsAt(i, "equipped", TRUE) THEN {}
  ELSE {Action(<<"item", i.id, "attack">>, "attack")
          ++ [targeting |-> Targeting("single", "attack")]}
       \cup IF weaponDamageFormula(actor, i) = <<>> THEN {}
            ELSE {Action(<<"item", i.id, "damage">>, "damage")}

Toggles(i) ==
  {Action(<<"item", i.id, k>>, k) : k \in
     {t \in {"equip", "attune", "grip", "move"} :
        CASE t = "equip" -> isEquippable(i)
          [] t = "attune" -> isAttuneable(i)
          [] t = "grip" -> isVersatileWeapon(i)
          [] t = "move" -> IsPhysical(i)}}

\* Only a spell that is ready now can be cast.
Castable(i) == SpellLevel(i) = 0 \/ isPrepared(i) \/ freeUseMethod(i)

SpellActions(actor, i) ==
  (IF ~Castable(i) THEN {}
   ELSE {Action(<<"spell", i.id, "cast">>, "cast")
           ++ SlotLevels(actor, i)
           ++ [targeting |-> targetingOf(i), effectType |-> effectTypeOf(i),
               targetable |-> isBuff(i) /\ ~buffTargetIsSelf(i)]}
        \cup IF effectTypeOf(i) # "damage" \/ itemDamageFormula(actor, i, 0) = <<>> THEN {}
             ELSE {Action(<<"spell", i.id, "damage">>, "damage")})
  \cup IF isPreparableSpell(i) THEN {Action(<<"spell", i.id, "prepare">>, "prepare")}
       ELSE {}

ItemActions(actor, i) ==
  Toggles(i)
  \cup (IF i.type = "weapon" THEN WeaponActions(actor, i) ELSE {})
  \cup (IF i.type = "spell" THEN SpellActions(actor, i) ELSE {})
  \cup (IF isUsableInventoryItem(i) THEN {Use(i, "item")} ELSE {})
  \cup (IF isUsableFeature(i) THEN {Use(i, "feature")} ELSE {})

ActorActions(actor) ==
  {Action(<<"skill", s>>, "check") : s \in DOMAIN SKILLS}
  \cup {Action(<<"ability", a, k>>, k) : a \in ABILITIES, k \in {"check", "save"}}
  \cup {Action(<<"init", "roll">>, "check")}
  \cup {Action(<<"rest", r>>, "rest") : r \in {"short", "long"}}
  \cup {Action(<<"effect", e.id, "remove">>, "endeffect") : e \in removable(actor)}
  \cup (IF concentration(actor) = {} THEN {}
        ELSE {Action(<<"concentration", "end">>, "endconcentration")})
  \cup (IF At(actor.sys, HpPath("value"), 0) > 0 THEN {}
        ELSE {Action(<<"deathsave", "roll">>, "deathsave")})

dnd5eActions(actor) ==
  ActorActions(actor)
    \cup UNION {ItemActions(actor, i) : i \in ToSet(actor.items)}

-----------------------------------------------------------------------------
\* buildAction: the relay call

Call(endpoint, i) == [endpoint |-> endpoint, itemId |-> i.id]
NoTemplate(i) == IF hasAreaTemplate(i) THEN [noTemplate |-> TRUE] ELSE << >>
Roll(formula) == [endpoint |-> "roll", formula |-> formula]
SlotKey(slot) == IF slot = 0 THEN << >> ELSE [slotKey |-> slot]
UpdateItem(i, path, value) ==
  [endpoint |-> "update-item", itemId |-> i.id, data |-> Field(path, value)]

\* Mutant: a saving throw rolled as a check.
SavesAreChecks(actor, id, mode) ==
  Roll(d20Formula(
    CASE id[1] = "init" -> initiative(actor)
      [] id[1] = "skill" -> skillInfo(actor, id[2]).total
      [] OTHER -> abilityMod(actor.sys, id[2]), mode))

buildRollAction(actor, id, mode) ==
  Roll(d20Formula(
    CASE id[1] = "init" -> initiative(actor)
      [] id[1] = "skill" -> skillInfo(actor, id[2]).total
      [] id[1] = "ability" /\ id[3] = "check" -> abilityMod(actor.sys, id[2])
      [] id[1] = "ability" /\ id[3] = "save" -> saveBonus(actor, id[2]), mode))

OnTargets(i, intent, slot) ==
  Call("use-on-targets", i) ++ [targets |-> intent.targets] ++ SlotKey(slot)

(***************************************************************************)
(* A use that also rolls: Foundry consumes, the roll is for display.  A    *)
(* heal of oneself carries the hit points read with the document, which    *)
(* the gateway adds the total to.                                          *)
(***************************************************************************)
UseAndRoll(use, i, slot, formula) ==
  Call("use-and-roll", i) ++ [use |-> use, formula |-> formula]
    ++ SlotKey(slot) ++ NoTemplate(i)

buildHealAction(actor, i, use, opts, slot) ==
  LET formula == healFormula(actor, i, slot)
      hp == At(actor.sys, HpPath("value"), 0)
      heal == [current |-> hp, max |-> At(actor.sys, HpPath("max"), hp)]
  IN IF usesExhausted(i) THEN Refusal("INVALID")
     ELSE IF formula = <<>> THEN Refusal("UNKNOWN_RESOURCE")
     ELSE With(UseAndRoll(IF slot > 0 THEN "cast-at-slot" ELSE use, i, slot, formula),
               "forceSelf" \in opts \/ isSelfTargeted(i), [heal |-> heal])

AttackCall(actor, i, intent) ==
  IF Has(intent, "targets")
  THEN OnTargets(i, intent, 0)
         ++ [attackMode |-> IF isVersatileWeapon(i) THEN weaponGrip(i) ELSE "oneHanded"]
  ELSE IF Has(intent, "mode") THEN Roll(d20Formula(weaponAttackBonus(actor, i), intent.mode))
  ELSE Call("use-item", i)

DamageCall(actor, i, intent) ==
  LET slot == At(intent, "slotLevel", 0)
      formula == IF i.type = "spell" THEN itemDamageFormula(actor, i, slot)
                 ELSE weaponDamageFormula(actor, i)
  IN IF i.type = "spell" /\ Has(intent, "slotLevel") /\ slot < SpellLevel(i)
     THEN Refusal("INVALID")
     ELSE IF formula = <<>> THEN Refusal("UNKNOWN_RESOURCE")
     ELSE Roll(IF At(intent, "critical", FALSE) THEN criticalFormula(formula) ELSE formula)

UseCall(actor, i, intent) ==
  LET isItem == intent.actionId[1] = "item"
      plain == Call(IF isItem THEN "use-item" ELSE "use-feature", i) ++ NoTemplate(i)
      formula == itemDamageFormula(actor, i, 0)
  IN IF isItem /\ requiresAttunement(i) /\ ~isAttuned(i) THEN Refusal("INVALID")
     ELSE IF Has(intent, "targets")
     THEN IF usesExhausted(i) THEN Refusal("INVALID") ELSE OnTargets(i, intent, 0)
     ELSE IF isItem /\ effectTypeOf(i) = "heal"
     THEN buildHealAction(actor, i, "use-item", {"forceSelf"}, 0)
     ELSE IF isItem /\ effectTypeOf(i) = "damage"
     THEN IF usesExhausted(i) THEN Refusal("INVALID")
          ELSE IF formula = <<>> THEN Refusal("UNKNOWN_RESOURCE")
          ELSE UseAndRoll("use-item", i, 0, formula)
     ELSE IF ~isItem /\ activityType(i) = "heal"
     THEN buildHealAction(actor, i, "use-feature", {}, 0)
     ELSE plain

(***************************************************************************)
(* A cast with a list of payable slots is paid with one of them: `up' is   *)
(* the slot of an upcast, 0 for a cast at the spell's own level.           *)
(***************************************************************************)
CastCall(actor, i, intent, d) ==
  LET chosen == IF Has(d, "slotLevels") THEN At(intent, "slotLevel", SpellLevel(i))
                ELSE SpellLevel(i)
      up == IF chosen > SpellLevel(i) THEN chosen ELSE 0
      use == IF up > 0 THEN "cast-at-slot" ELSE "use-spell"
      buff == Call("cast-and-apply-effect", i)
                ++ [use |-> use, effect |-> selfBuffEffect(i)] ++ SlotKey(up) ++ NoTemplate(i)
  IN IF Has(d, "slotLevels") /\ chosen \notin d.slotLevels THEN Refusal("INVALID")
     ELSE IF Has(intent, "targets")
     THEN IF usesExhausted(i) THEN Refusal("INVALID") ELSE OnTargets(i, intent, up)
     ELSE IF isBuff(i)
     THEN IF Has(intent, "targetActorId") /\ ~buffTargetIsSelf(i)
          THEN buff ++ [targetActorId |-> intent.targetActorId] ELSE buff
     ELSE IF activityType(i) = "heal" THEN buildHealAction(actor, i, "use-spell", {}, up)
     ELSE IF up > 0 THEN Call(use, i) ++ SlotKey(up)
     ELSE Call(use, i) ++ NoTemplate(i)

-----------------------------------------------------------------------------
\* Moving an item into a container, never into its own contents

Parent(actor, id) ==
  IF id \in ItemIds(actor) THEN At(ItemOf(actor, id), "container", "") ELSE ""

\* The walk up from one, which ends off the sheet or where it has been: the
\* least set of items with it that no item lies out of.
Closed(actor, S) ==
  \A c \in S : Parent(actor, c) \in ItemIds(actor) => Parent(actor, c) \in S
Above(actor, id) ==
  {c \in ItemIds(actor) : \A S \in SUBSET ItemIds(actor) :
     id \in S /\ Closed(actor, S) => c \in S}

\* Mutant: only the item itself is no place to move it to.
MoveAnywhere(actor, i, intent) ==
  LET to == intent.containerId
      fits == to \in ItemIds(actor) /\ ItemOf(actor, to).type = "container" /\ to # i.id
  IN IF to = "" \/ fits THEN UpdateItem(i, "container", to) ELSE Refusal("INVALID")

MoveCall(actor, i, intent) ==
  LET to == intent.containerId        \* "" carries the item
      fits == /\ to \in ItemIds(actor)
              /\ ItemOf(actor, to).type = "container"
              /\ i.id \notin Above(actor, to)
  IN IF to = "" \/ fits THEN UpdateItem(i, "container", to) ELSE Refusal("INVALID")

TargetsFit(d, intent) ==
  Has(intent, "targets") =>
    LET mode == At(d, "targeting", NoTargeting).mode
    IN mode = "multiple" \/ (mode = "single" /\ \E t \in intent.targets : intent.targets = {t})

dnd5eItemCall(actor, i, intent, d) ==
  CASE intent.kind = "attack" -> AttackCall(actor, i, intent)
    [] intent.kind = "damage" -> DamageCall(actor, i, intent)
    [] intent.kind = "use" -> UseCall(actor, i, intent)
    [] intent.kind = "cast" -> CastCall(actor, i, intent, d)
    [] intent.kind = "equip" -> Call("equip-item", i) ++ [to |-> intent.to]
    [] intent.kind = "attune" -> Call("attune-item", i) ++ [to |-> intent.to]
    [] intent.kind = "grip" -> UpdateItem(i, "flags.unseen-servent.grip", intent.to)
    [] intent.kind = "prepare" -> UpdateItem(i, "prepared", IF intent.to THEN 1 ELSE 0)
    [] intent.kind = "move" -> MoveCall(actor, i, intent)

ActorCall(actor, intent) ==
  LET id == intent.actionId
  IN CASE intent.kind \in {"check", "save"} ->
            buildRollAction(actor, id, At(intent, "mode", "straight"))
       [] intent.kind = "rest" ->
            [endpoint |-> IF id = <<"rest", "long">> THEN "long-rest" ELSE "short-rest"]
       [] intent.kind = "deathsave" -> [endpoint |-> "death-save"]
       [] intent.kind = "endconcentration" -> [endpoint |-> "break-concentration"]
       [] intent.kind = "endeffect" ->
            IF isEffectId(id[2]) THEN [endpoint |-> "remove-effect", effectId |-> id[2]]
            ELSE Refusal("INVALID")

dnd5eBuild(actor, intent, d) ==
  LET id == intent.actionId
  IN IF ~TargetsFit(d, intent) THEN Refusal("INVALID")
     ELSE IF id[1] \in {"item", "spell", "feature"}
     THEN dnd5eItemCall(actor, ItemOf(actor, id[2]), intent, d)
     ELSE ActorCall(actor, intent)
=============================================================================
