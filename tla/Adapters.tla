------------------------------ MODULE Adapters ------------------------------
(***************************************************************************)
(* The adapter SDK and the registry: what the gateway may ask of whichever *)
(* game system an actor belongs to, without knowing the system.            *)
(***************************************************************************)
EXTENDS FoundryDoc

Dnd == INSTANCE Dnd5eView
Vampire == INSTANCE Wod5e

adapterFor(actor) ==
  IF actor.systemId \in {"dnd5e", "wod5e"} THEN actor.systemId ELSE "none"

resources(actor) ==
  IF actor.systemId = "wod5e" THEN Vampire!wod5eResources(actor)
  ELSE Dnd!dnd5eResources(actor)

actions(actor) ==
  IF actor.systemId = "wod5e" THEN Vampire!wod5eActions(actor) ELSE Dnd!dnd5eActions(actor)

toViewModel(actor) ==
  IF actor.systemId = "wod5e" THEN Vampire!wod5eSheet(actor) ELSE Dnd!dnd5eSheet(actor)

enrich(actor, details, liveAc) ==
  IF actor.systemId = "wod5e" THEN actor ELSE Dnd!enrich(actor, details, liveAc)

\* The one with this id, or none.
Found(all, id) == {x \in all : x.id = id}

\* Both adapters clamp what they write to the descriptor of this document.
buildUpdate(actor, d, intent) ==
  LET target == Clamp(IF intent.kind = "set" THEN intent.value ELSE d.value + intent.amount, d)
  IN IF actor.systemId = "wod5e" THEN Vampire!wod5eWrite(d, intent, target)
     ELSE Dnd!dnd5eWrite(actor, d, intent, target)

buildAction(actor, intent, d) ==
  IF actor.systemId = "wod5e" THEN Vampire!wod5eBuild(actor, intent, d)
  ELSE Dnd!dnd5eBuild(actor, intent, d)

HasCustomItems(actor) == actor.systemId = "wod5e"
buildCustomItem(input) == Vampire!buildCustomItem(input)

\* The library: a compendium entry or an item belongs to the collection or not.
library(actor) == IF actor.systemId = "dnd5e" THEN Dnd!Collections ELSE {}
canAdd(collection, entry) == Dnd!InCollection(collection, entry)
canRemove(collection, item) == Dnd!InCollection(collection, item)
=============================================================================
