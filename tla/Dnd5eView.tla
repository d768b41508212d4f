------------------------------ MODULE Dnd5eView -----------------------------
(***************************************************************************)
(* The sheet a player sees (toViewModel): its counters, actions, stats     *)
(* and rows.  Labels, icons, descriptions and their order on the page are  *)
(* left out, but for the spells, whose order is a rule.                    *)
(***************************************************************************)
EXTENDS Dnd5eActions

Stat(id, value, actionId) == [id |-> id, value |-> value, actionId |-> actionId]
Biased(actor, stat, kind, id) == stat ++ rollBias(actor, kind, id)

abilityStats(actor) ==
  {Biased(actor, Stat(<<"ability", a>>, abilityMod(actor.sys, a), <<"ability", a, "check">>)
     ++ [marked |-> Proficient(actor, a)], "check", a) : a \in ABILITIES}
saveStats(actor) ==
  {Biased(actor, Stat(<<"save", a>>, saveBonus(actor, a), <<"ability", a, "save">>)
     ++ [marked |-> Proficient(actor, a)], "save", a) : a \in ABILITIES}
skillStats(actor) ==
  {Biased(actor, Stat(<<"skill", s>>, skillInfo(actor, s).total, <<"skill", s>>)
     ++ [marked |-> skillInfo(actor, s).profMult > 0], "skill", s) : s \in DOMAIN SKILLS}
headline(actor) ==
  {Stat(<<"init">>, initiative(actor), <<"init", "roll">>)}

\* Shown and never rolled.
Plain(actor) ==
  {<<"ac", armorClass(actor)>>, <<"level", characterLevel(actor)>>,
   <<"prof", proficiency(actor)>>}
  \cup {<<"speed", m, speed(actor, m)>> : m \in speeds(actor)}
  \cup {<<"passive", s, passive(actor, s)>> : s \in {"prc", "inv", "ins"}}
  \cup {<<"sense", s>> : s \in senses(actor)}
  \cup {<<"trait", t>> : t \in traitStats(actor)}

-----------------------------------------------------------------------------
\* Inventory: what is carried, and one section per container

physicalItems(actor) == ItemsOf(actor, PHYSICAL_ITEM_TYPES)
physicalIds(actor) == {i.id : i \in physicalItems(actor)}

\* Mutant: the container is taken for granted.
AnyContainer(actor, i) == At(i, "container", "")

\* A container id that is on this sheet and is not the item's own, or "".
locationOf(actor, i) ==
  LET c == At(i, "container", "")
  IN IF c # i.id /\ c \in physicalIds(actor) THEN c ELSE ""

inventoryListItem(actor, i) ==
  [id |-> i.id, containerId |-> locationOf(actor, i),
   resourceId |-> <<"item", i.id, IF HasUses(i) THEN "uses" ELSE "qty">>,
   tags |-> {t \in {"equipped", "attuned", "2H + shield"} :
       CASE t = "equipped" -> IsAt(i, "equipped", TRUE)
         [] t = "attuned" -> isAttuned(i)
         [] OTHER -> /\ isVersatileWeapon(i) /\ weaponGrip(i) = "twoHanded"
                     /\ hasEquippedShield(actor)}]

Weight(i) == Max({0, At(i, "weight.value", 0)}) * At(i, "quantity", 1)
LyingAt(actor, place) == {i \in physicalItems(actor) : locationOf(actor, i) = place}
RowsOf(actor, items) == {inventoryListItem(actor, i) : i \in items}

ContainerSection(actor, c) ==
  LET contents == LyingAt(actor, c.id)
  IN [header |-> inventoryListItem(actor, c), items |-> RowsOf(actor, contents),
      weight |-> Total(Weight, contents, actor)]

\* A container that lies in no other is no row, but the header of its section.
inventory(actor) ==
  LET containers == ItemsOf(actor, {"container"})
  IN [carried |-> RowsOf(actor, LyingAt(actor, "") \ containers),
      sections |-> {ContainerSection(actor, c) : c \in containers}]

\* Attuned items against the actor's cap, and the weight carried.
gearStats(actor) ==
  LET load == <<"attributes", "encumbrance", "value">>
      cap == <<"attributes", "encumbrance", "max">>
  IN [attuned |-> Cardinality({i \in physicalItems(actor) : isAttuned(i)}),
      attunement |-> At(actor.sys, <<"attributes", "attunement", "max">>, 3),
      weight |-> IF Has(actor.sys, load) /\ Has(actor.sys, cap)
                 THEN <<actor.sys[load], actor.sys[cap]>>
                 ELSE <<Total(Weight, physicalItems(actor), actor)>>]

-----------------------------------------------------------------------------
\* Features and spells

featureListItem(i) ==
  [id |-> i.id, resourceId |-> IF HasUses(i) THEN <<"item", i.id, "uses">> ELSE <<>>,
   actionId |-> IF isUsableFeature(i) THEN <<"feature", i.id, "use">> ELSE <<>>]
features(actor) == {featureListItem(i) : i \in ItemsOf(actor, {"feat"})}

spellListItem(i) ==
  [id |-> i.id, actionId |-> <<"spell", i.id, "cast">>,
   resourceId |-> IF freeUseMethod(i) /\ HasUses(i) THEN <<"item", i.id, "uses">> ELSE <<>>,
   toggleActionId |-> IF isPreparableSpell(i) THEN <<"spell", i.id, "prepare">> ELSE <<>>]

\* The spells of a level, the prepared ones first.
SpellSection(actor, level) ==
  LET spells == SelectSeq(ListOf(actor, {"spell"}), LAMBDA i :
                  Max({0, Min({9, SpellLevel(i)})}) = level)
      ranked == SelectSeq(spells, isPrepared)
                  \o SelectSeq(spells, LAMBDA i : ~isPrepared(i))
  IN [k \in DOMAIN ranked |-> spellListItem(ranked[k])]

dnd5eSheet(actor) ==
  [resources |-> dnd5eResources(actor), actions |-> dnd5eActions(actor),
   stats |-> UNION {abilityStats(actor), saveStats(actor), skillStats(actor), headline(actor)},
   plain |-> Plain(actor), inventory |-> inventory(actor), gear |-> gearStats(actor),
   features |-> features(actor), spells |-> [l \in 0..9 |-> SpellSection(actor, l)],
   conditions |-> conditions(actor), concentration |-> concentration(actor),
   spellPrep |-> spellPrepBudget(actor)]

-----------------------------------------------------------------------------
\* Library collections: what may be added to and removed from a sheet

Collections == {"spells", "feats", "gear"}
InCollection(collection, i) ==
  CASE collection = "spells" -> i.type = "spell"
    [] collection = "feats" -> i.type = "feat"
    [] collection = "gear" -> IsPhysical(i)
=============================================================================
