----------------------------- MODULE FoundryDoc -----------------------------
(***************************************************************************)
(* Foundry's documents as the adapters see them.  A document is untyped:   *)
(* every path may be absent, so it is a function from the paths it has to  *)
(* their values.  An actor is a record of                                  *)
(*   id, systemId   its identity and the game system                       *)
(*   sys            the paths under `system', each as the tuple of its     *)
(*                  keys (<<"attributes", "hp", "value">>)                 *)
(*   items          its embedded items, in order; an item is a function    *)
(*                  whose paths include "id" and "type", those under       *)
(*                  `system' in one string ("uses.spent")                  *)
(*   effects        its active effects, in order                           *)
(*   flags          the roll flags that are set                            *)
(* A number stands for itself whether the document stores it as a number   *)
(* or as a numeric string.                                                 *)
(***************************************************************************)
EXTENDS Integers, Sequences, FiniteSets, SequencesExt, TLC

Has(doc, path) == path \in DOMAIN doc
At(doc, path, default) == IF path \in DOMAIN doc THEN doc[path] ELSE default
IsAt(doc, path, value) == path \in DOMAIN doc /\ doc[path] = value

\* One field; the fields of b added to those of a, and that only where
\* `when' holds (conditional spread).
Field(path, value) == [p \in {path} |-> value]
a ++ b ==
  [x \in DOMAIN a \cup DOMAIN b |-> IF x \in DOMAIN a THEN a[x] ELSE b[x]]
With(a, when, b) == IF when THEN a ++ b ELSE a

\* clamp(value, min, max): either bound may be missing from the descriptor.
Clamp(v, d) ==
  LET low == Max({v, At(d, "min", v)}) IN Min({low, At(d, "max", low)})

\* A whole document, whose embedded items have an id each, no two the same.
DistinctIds(actor) == \A i, j \in ToSet(actor.items) : i.id = j.id => i = j
Embeds(actor) ==
  /\ {"systemId", "sys", "items"} \subseteq DOMAIN actor
  /\ actor.items \in Seq(ToSet(actor.items))
  /\ \A i \in ToSet(actor.items) : Has(i, "id")
  /\ DistinctIds(actor)

ItemIds(actor) == {i.id : i \in ToSet(actor.items)}
ItemOf(actor, id) == CHOOSE i \in ToSet(actor.items) : i.id = id
ListOf(actor, types) == SelectSeq(actor.items, LAMBDA i : i.type \in types)
ItemsOf(actor, types) == {i \in ToSet(actor.items) : i.type \in types}

(***************************************************************************)
(* Foundry stores an update: of the actor's own paths, or of those of one  *)
(* embedded item when the update names it (an item that is gone is a       *)
(* refusal, RelayNotFound).                                                *)
(***************************************************************************)
OnItem(actor, id, data) ==
  [actor EXCEPT !.items =
     [k \in DOMAIN @ |-> IF @[k].id = id THEN data ++ @[k] ELSE @[k]]]

Applied(actor, u) ==
  IF Has(u, "itemId") THEN OnItem(actor, u.itemId, u.data)
  ELSE [actor EXCEPT !.sys = u.data ++ @]

Applies(actor, u) == Has(u, "itemId") => u.itemId \in ItemIds(actor)

\* An adapter's answer: what to ask of the relay, or an IntentError.
Refusal(code) == [error |-> code]
Refused(r) == Has(r, "error")
=============================================================================
