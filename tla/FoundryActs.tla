----------------------------- MODULE FoundryActs -----------------------------
(***************************************************************************)
(* What Foundry does with the calls of the write routes, as the gateway    *)
(* and the relay client use it.  The world is a record of                  *)
(*   doc       the acted character's document                              *)
(*   others    actor id -> the effects the app has put on it               *)
(*   hp        token -> hit points of the encounter's combatants           *)
(*   scratch   the world-level items made on the way to a custom item      *)
(* A call is a record of `do', the request `by' that made it, and its      *)
(* parameters.                                                             *)
(***************************************************************************)
EXTENDS Adapters

-----------------------------------------------------------------------------
\* dnd5e's own usage flow: it pays with a slot and a use, or it refuses

SlotOf(level) == Dnd!SlotPath("spell" \o ToString(level), "value")
PactSlot == Dnd!SlotPath("pact", "value")

\* The pools that can pay: the named slot, or the spell's own, or none is due.
Paying(doc, i, slot) ==
  LET due == IF slot > 0 THEN {SlotOf(slot)}
             ELSE IF At(i, "method", "spell") = "pact" THEN {PactSlot}
             ELSE {SlotOf(At(i, "level", 0)), PactSlot}
  IN {p \in due : At(doc.sys, p, 0) > 0}
Free(i) == i.type # "spell" \/ At(i, "level", 0) = 0 \/ Dnd!freeUseMethod(i)

CanUse(doc, id, slot) ==
  /\ id \in ItemIds(doc)
  /\ LET i == ItemOf(doc, id)
     IN ~Dnd!usesExhausted(i) /\ (Free(i) \/ Paying(doc, i, slot) # {})

AfterUse(doc, id, slot) ==
  LET i == ItemOf(doc, id)
      used == IF Dnd!HasUses(i)
              THEN OnItem(doc, id, Field("uses.spent", At(i, "uses.spent", 0) + 1)) ELSE doc
      pool == CHOOSE p \in Paying(doc, i, slot) : p # PactSlot \/ Paying(doc, i, slot) = {p}
  IN IF Free(i) THEN used ELSE [used EXCEPT !.sys[pool] = @ - 1]

-----------------------------------------------------------------------------
\* Calls that change the world

AppliedBy(request) ==
  [id |-> request, disabled |-> FALSE, changes |-> {}, statuses |-> {}, appliedBy |-> TRUE]

WithoutEffects(doc, P(_)) ==
  [doc EXCEPT !.effects = SelectSeq(@, LAMBDA e : ~P(e))]

\* A copy of an entry is embedded under an id of its own.
Given(doc, id, entry) == [doc EXCEPT !.items = Append(@, Field("id", id) ++ entry)]

Commanded(doc, command) ==
  CASE command = "long-rest" /\ Has(doc.sys, Dnd!HpPath("max")) ->
         [doc EXCEPT !.sys = Field(Dnd!HpPath("value"), doc.sys[Dnd!HpPath("max")]) ++ @]
    [] command = "death-save" ->
         [doc EXCEPT !.sys = Field(<<"attributes", "death", "success">>,
                                     Min({3, At(@, <<"attributes", "death", "success">>, 0) + 1})) ++ @]
    [] command = "break-concentration" ->
         WithoutEffects(doc, LAMBDA e : "concentrating" \in e.statuses)
    [] OTHER -> doc

\* Can Foundry do it as things are now?  (It refuses otherwise.)
Possible(w, c) ==
  CASE c.do \in {"activate", "targets"} -> CanUse(w.doc, c.itemId, c.slotKey)
    [] c.do \in {"equip", "attune", "updateItem"} -> c.itemId \in ItemIds(w.doc)
    [] c.do = "update" -> Applies(w.doc, c.update)
    [] c.do = "removeEffect" -> \E e \in ToSet(w.doc.effects) : e.id = c.effectId
    [] c.do = "removeItem" -> c.itemId \in ItemIds(w.doc)
    [] c.do \in {"giveMade", "delete"} -> c.by \in w.scratch
    [] OTHER -> TRUE

Paid(w, c) == [w EXCEPT !.doc = AfterUse(@, c.itemId, c.slotKey)]

\* Damage of a targeted use falls on some of the targets: hits, failed saves.
Executed(w, c, hit) ==
  CASE c.do = "activate" -> Paid(w, c)
    [] c.do = "targets" ->
         [Paid(w, c) EXCEPT !.hp = [t \in DOMAIN @ |-> IF t \in hit THEN @[t] - 1 ELSE @[t]]]
    [] c.do = "equip" -> [w EXCEPT !.doc = OnItem(@, c.itemId, Field("equipped", c.to))]
    [] c.do = "attune" -> [w EXCEPT !.doc = OnItem(@, c.itemId, Field("attuned", c.to))]
    [] c.do = "updateItem" -> [w EXCEPT !.doc = OnItem(@, c.itemId, c.data)]
    [] c.do = "update" -> [w EXCEPT !.doc = Applied(@, c.update)]
    [] c.do = "effect" ->
         IF c.on = w.doc.id THEN [w EXCEPT !.doc.effects = Append(@, AppliedBy(c.by))]
         ELSE [w EXCEPT !.others = Field(c.on, At(@, c.on, {}) \cup {c.by}) ++ @]
    [] c.do = "removeEffect" ->
         [w EXCEPT !.doc = WithoutEffects(@, LAMBDA e : e.id = c.effectId)]
    [] c.do = "removeItem" ->
         [w EXCEPT !.doc.items = RemoveAt(@, CHOOSE k \in DOMAIN @ : @[k].id = c.itemId)]
    [] c.do = "command" -> [w EXCEPT !.doc = Commanded(@, c.command)]
    [] c.do = "create" -> [w EXCEPT !.scratch = @ \cup {c.by}]
    [] c.do \in {"give", "giveMade"} -> [w EXCEPT !.doc = Given(@, c.by, c.item)]
    [] c.do = "delete" -> [w EXCEPT !.scratch = @ \ {c.by}]
    [] c.do = "roll" -> w
=============================================================================
