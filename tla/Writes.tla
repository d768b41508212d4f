------------------------------- MODULE Writes -------------------------------
(***************************************************************************)
(* The write routes of apps/gateway/src/app.ts: resource intents, actions, *)
(* the dice tray, custom items and the library, of players who share a     *)
(* character.  A request reads the document, decides on what it has read,  *)
(* and asks the relay for one call after the other; meanwhile the other    *)
(* requests and the GM go on.  A call may be refused, time out and still   *)
(* be executed (now, later or never), or be lost before or after it was.   *)
(*                                                                         *)
(* A scenario is a record of what stays as it is during a behaviour:       *)
(*   doc               the document at the start                           *)
(*   derived, liveAc   what Foundry derives and /get does not serialize    *)
(*   bodies            the requests players send                           *)
(*   edits             the GM's own edits                                  *)
(*   party, fighters   actors a buff may be put on; tokens of the roster   *)
(*   inFight           is an encounter active?                             *)
(***************************************************************************)
EXTENDS FoundryActs

CONSTANTS
    Requests,     \* the requests under way, each sent once
    Scenarios,
    Compendium,   \* entry -> the item it gives
    Tokens,       \* tokens of the scene
    Totals,       \* totals a roll may have
    MaxFaults, MaxEdits   \* bounds: calls that go wrong, edits of the GM

Routes == {"intents", "actions", "roll", "items", "add", "remove"}

\* Foundry's ids: unique, those of new items fresh (here: the request that
\* gives them).  Only a container of the sheet, or nothing, is lain in.
WellBuilt(doc) ==
    /\ Embeds(doc) /\ ItemIds(doc) \cap Requests = {} /\ "" \notin ItemIds(doc)
    /\ \A i \in ToSet(doc.items) : Has(i, "type")
MayHold(doc, to) ==
    to \notin Requests /\ \A j \in ToSet(doc.items) : j.id = to => j.type = "container"

(***************************************************************************)
(* A sheet that makes sense: the bounded counters of the actor (those of   *)
(* the other system are absent) and of its items within their bounds, and  *)
(* no container in its own contents.  `derived' has the slots' maxima.     *)
(***************************************************************************)
HitPointsSound(sys) ==
    LET hp == At(sys, Dnd!HpPath("value"), 0)
    IN hp \in 0..At(sys, Dnd!HpPath("max"), hp) /\ At(sys, Dnd!HpPath("temp"), 0) \in Nat
SlotsSound(sys, derived) ==
    \A p \in Dnd!SlotPools :
      LET slots == Dnd!SlotValue(sys, p)
      IN slots \in 0..At(derived, Dnd!SlotPath(p, "max"), slots)
BoxesSound(sys) ==
    \A t \in {"health", "willpower"} :
      LET N(kind) == At(sys, Vampire!Box(t, kind), 0)
      IN {N("superficial"), N("aggravated")} \subseteq Nat /\ N("superficial") + N("aggravated") <= N("max")
ItemSound(i) ==
    /\ Dnd!HasUses(i) => At(i, "uses.spent", 0) \in 0..i["uses.max"]
    /\ i.type = "class" => Dnd!Used(i) \in 0..Dnd!Levels(i)
\* The items that lie in one of the sheet: no round of them.
Lodged(doc) == {id \in ItemIds(doc) : Dnd!Parent(doc, id) \in ItemIds(doc)}
Acyclic(doc) ==
    \A S \in SUBSET Lodged(doc) : S # {} => \E id \in S : Dnd!Parent(doc, id) \notin S
Sound(doc, derived) ==
    /\ HitPointsSound(doc.sys) /\ SlotsSound(doc.sys, derived) /\ BoxesSound(doc.sys)
    /\ \A i \in ToSet(doc.items) : ItemSound(i)
    /\ Acyclic(doc)

\* What the above counts with, in the document of an actor and in an item.
HitPoints == {Dnd!HpPath(f) : f \in {"value", "max", "temp"}}
SlotPaths(fields) == {Dnd!SlotPath(p, f) : p \in Dnd!SlotPools, f \in fields}
Tracks == {Vampire!Box(t, k) : t \in {"health", "willpower"}, k \in {"superficial", "aggravated", "max"}}
SheetCounters == HitPoints \cup Tracks \cup SlotPaths({"value", "max", "override"})
ItemCounters == {"uses.max", "uses.spent", "levels", "hd.spent"}
Whole(fields, paths) == \A p \in DOMAIN fields \cap paths : fields[p] \in Int
\* No number is a text, and no slots are more than Foundry makes of them.
Countable(doc, derived) ==
    /\ Whole(doc.sys, SheetCounters) /\ \A i \in ToSet(doc.items) : Whole(i, ItemCounters)
    /\ \A p \in Dnd!SlotPools : \A f \in {"max", "override"} :
         Has(doc.sys, Dnd!SlotPath(p, f)) /\ Has(derived, Dnd!SlotPath(p, "max")) =>
           doc.sys[Dnd!SlotPath(p, f)] <= derived[Dnd!SlotPath(p, "max")]

ASSUME WritesAssumption ==
    /\ MaxFaults \in Nat /\ MaxEdits \in Nat
    /\ Totals \subseteq Int
    /\ "" \notin Requests
    /\ \A s \in Scenarios :
         /\ s.fighters \subseteq Tokens /\ \A b \in s.bodies : b.route \in Routes
         /\ WellBuilt(s.doc)
         /\ \A i \in ToSet(s.doc.items) : MayHold(s.doc, At(i, "container", ""))
         \* The GM edits an item's fields, not what it is.
         /\ \A u \in s.edits : Has(u, "itemId") =>
              ~Has(u.data, "id") /\ ~Has(u.data, "type") /\ MayHold(s.doc, At(u.data, "container", ""))
    /\ \A e \in DOMAIN Compendium :
         /\ Has(Compendium[e], "type")
         /\ \A s \in Scenarios : MayHold(s.doc, At(Compendium[e], "container", ""))

\* The sheet makes sense at the start, and what players, the GM and the
\* compendium bring are numbers.  The GM leaves alone what `derived' is of.
ASSUME CountingAssumption ==
    /\ \A s \in Scenarios :
         /\ Sound(s.doc, s.derived) /\ Countable(s.doc, s.derived)
         /\ Whole(s.derived, SlotPaths({"max"}))
         /\ DOMAIN s.derived \cap (HitPoints \cup SlotPaths({"value", "override"})) = {}
         /\ DOMAIN s.liveAc \cap (HitPoints \cup SlotPaths({"value", "max", "override"})) = {}
         /\ \A b \in s.bodies : b.route = "intents" =>
              /\ Has(b, "kind") /\ b.kind \in {"set", "delta"}
              /\ LET n == IF b.kind = "set" THEN "value" ELSE "amount" IN Has(b, n) /\ b[n] \in Int
         /\ \A u \in s.edits :
              IF Has(u, "itemId") THEN Whole(u.data, ItemCounters)
              ELSE Whole(u.data, SheetCounters) /\ DOMAIN u.data \cap SlotPaths({"max", "override"}) = {}
    /\ \A e \in DOMAIN Compendium : Whole(Compendium[e], ItemCounters) /\ ItemSound(Compendium[e])

VARIABLES
    sc,          \* the scenario
    world,       \* Foundry's documents (see FoundryActs)
    req,         \* per request: its body and where it stands
    late,        \* calls given up on that Foundry has yet to execute
    faults, edits,
    performed,   \* history: what was executed for each request, in order
    troubled,    \* history: requests a call of which went wrong
    blamed       \* history: how an unsound value may have got into the document:
                 \* "stale" (a write computed from an older one), "no total"

vars == <<sc, world, req, late, faults, edits, performed, troubled, blamed>>
ghosts == <<performed, troubled, blamed>>

NoNumber == -99        \* NaN, which the update carries as null
NoHeal == <<>>
\* Where a request stands; with the document as it has read it, and as it left
\* it by its own calls, the calls still to be made, and whether what it was to
\* give was given.
Standing(stage, body) ==
    [stage |-> stage, reply |-> 0, body |-> body, known |-> <<>>, todo |-> <<>>, gave |-> TRUE]

Init ==
    /\ sc \in Scenarios
    /\ world = [doc |-> sc.doc, others |-> << >>, hp |-> [t \in Tokens |-> 3], scratch |-> {}]
    /\ req = [r \in Requests |-> Standing("idle", <<>>)]
    /\ late = {}
    /\ faults = 0 /\ edits = 0
    /\ performed = [r \in Requests |-> <<>>]
    /\ troubled = {} /\ blamed = {}

Reply(r, code) == req' = [req EXCEPT ![r] = [Standing("done", @.body) EXCEPT !.reply = code]]
Continue(r, known, todo, gave) ==
    req' = [req EXCEPT ![r] = [Standing("call", @.body) EXCEPT
              !.known = known, !.todo = todo, !.gave = gave]]
Fault == faults < MaxFaults /\ faults' = faults + 1

\* Two calls that are made in several places.
Roll(r, heal) == [do |-> "roll", by |-> r, heal |-> heal]
Activation(r, itemId, slotKey, via) ==
    [do |-> "activate", by |-> r, itemId |-> itemId, slotKey |-> slotKey, via |-> via]

-----------------------------------------------------------------------------
\* Reading: the document, then the details it is enriched with

\* The slots as they are now, and what Foundry derives; or a failed read.
SlotValues(doc) ==
    LET paths == {Dnd!SlotPath(p, "value") : p \in Dnd!SlotPools} \cap DOMAIN doc.sys
    IN [p \in paths |-> doc.sys[p]]
SystemDetails == SlotValues(world.doc) ++ sc.derived

\* The character as a fault-free read shows it.
Character == enrich(world.doc, SystemDetails, sc.liveAc)

NeedsDocument(body) == body.route # "roll"

(***************************************************************************)
(* A request arrives.  The dice tray asks for its roll at once; the others *)
(* first fetch the actor: one that is not found or cross-wired is a 404, a *)
(* read that fails otherwise a 502.  The rate limit and the ownership of   *)
(* the actor are checked before that, and a request refused for them       *)
(* changes nothing.                                                        *)
(***************************************************************************)
Receive(r) ==
    /\ req[r].stage = "idle"
    /\ \E body \in sc.bodies :
         \/ /\ NeedsDocument(body)
            /\ req' = [req EXCEPT ![r] = [Standing("details", body) EXCEPT !.known = world.doc]]
            /\ UNCHANGED faults
         \/ /\ NeedsDocument(body) /\ Fault
            /\ \E code \in {404, 502} :
                 req' = [req EXCEPT ![r] = [Standing("done", body) EXCEPT !.reply = code]]
         \/ /\ ~NeedsDocument(body)
            /\ req' = [req EXCEPT ![r] =
                 IF body.safe       \* isSafeDiceFormula
                 THEN [Standing("call", body) EXCEPT !.todo = <<Roll(r, NoHeal)>>]
                 ELSE [Standing("done", body) EXCEPT !.reply = 422]]
            /\ UNCHANGED faults
    /\ UNCHANGED <<sc, world, late, edits, ghosts>>

-----------------------------------------------------------------------------
\* What a validated action asks of the relay, call by call

ActivateCall(r, use, action) ==
    IF use = "cast-at-slot" THEN Activation(r, action.itemId, action.slotKey, use)
    ELSE Activation(r, action.itemId, 0, IF Has(action, "noTemplate") THEN "execute-js" ELSE "module")

RollCall(r, action) == Roll(r, At(action, "heal", NoHeal))

EffectTarget(actor, action) == At(action, "targetActorId", actor.id)
buffTargetAllowed(actor, action) ==
    EffectTarget(actor, action) \in {actor.id} \cup sc.party

CallsOf(r, actor, action) ==
    LET e == action.endpoint IN
       CASE e = "roll" -> <<RollCall(r, action)>>
         [] e \in {"use-item", "use-spell", "use-feature", "cast-at-slot"} ->
              <<ActivateCall(r, e, action)>>
         [] e = "use-and-roll" ->
              <<ActivateCall(r, action.use, action), RollCall(r, action)>>
         [] e = "cast-and-apply-effect" ->
              <<ActivateCall(r, action.use, action),
                [do |-> "effect", by |-> r, on |-> EffectTarget(actor, action)]>>
         [] e = "use-on-targets" ->
              <<[do |-> "targets", by |-> r, itemId |-> action.itemId, targets |-> action.targets,
                 slotKey |-> At(action, "slotKey", 0)]>>
         [] e = "equip-item" -> <<[do |-> "equip", by |-> r, itemId |-> action.itemId, to |-> action.to]>>
         [] e = "attune-item" -> <<[do |-> "attune", by |-> r, itemId |-> action.itemId, to |-> action.to]>>
         [] e = "update-item" ->
              <<[do |-> "updateItem", by |-> r, itemId |-> action.itemId, data |-> action.data]>>
         [] e = "remove-effect" ->
              <<[do |-> "removeEffect", by |-> r, effectId |-> action.effectId]>>
         [] OTHER -> <<[do |-> "command", by |-> r, command |-> e]>>

\* The gates that are checked before anything is activated.
Gate(actor, action) ==
    CASE action.endpoint = "cast-and-apply-effect" /\ ~buffTargetAllowed(actor, action) -> 403
      [] action.endpoint = "use-on-targets" /\ ~sc.inFight -> 409
      [] action.endpoint = "use-on-targets" /\ ~(action.targets \subseteq sc.fighters) -> 403
      [] OTHER -> 200

StatusOf(code) ==
    CASE code \in {"UNKNOWN_RESOURCE", "READ_ONLY"} -> 403
      [] code = "INVALID" -> 422
      [] code = "CONFLICT" -> 409
      [] OTHER -> 502

-----------------------------------------------------------------------------
\* Payloads

FieldsOf(kind) ==
    CASE kind \in {"check", "save"} -> {"mode"}
      [] kind = "attack" -> {"mode", "targets"}
      [] kind = "use" -> {"targets"}
      [] kind = "damage" -> {"critical", "slotLevel"}
      [] kind = "cast" -> {"slotLevel", "targetActorId", "targets"}
      [] kind \in {"equip", "prepare", "attune", "grip"} -> {"to"}
      [] kind = "move" -> {"containerId"}
      [] kind = "pool" -> {"attribute", "second", "modifier"}
      [] OTHER -> {}
Required(kind) == FieldsOf(kind) \cap {"to", "containerId"}

\* The fields its kind has, and no others; one to twelve targets.
parseActionIntent(body, kind) ==
    IF Required(kind) \subseteq DOMAIN body
       /\ (Has(body, "targets") => Cardinality(body.targets) \in 1..12)
    THEN [f \in (DOMAIN body \cap FieldsOf(kind)) \cup {"kind", "actionId"} |-> body[f]]
    ELSE Refusal("INVALID")

parseIntent(body) ==
    [f \in DOMAIN body \cap {"kind", "value", "amount", "expected"} |-> body[f]]

-----------------------------------------------------------------------------
\* The decision of each route: a status, or the calls to make

Refuse(code) == [code |-> code, todo |-> <<>>]
Ask(calls) == [code |-> 200, todo |-> calls]

DecideIntent(r, actor, body) ==
    LET found == Found(resources(actor), body.resourceId)
        d == CHOOSE x \in found : TRUE
        intent == parseIntent(body)
        update == buildUpdate(actor, d, intent)
    IN IF \A x \in found : ~x.writable THEN Refuse(403)
       ELSE IF Has(intent, "expected") /\ intent.expected # d.value THEN Refuse(409)
       ELSE IF Refused(update) THEN Refuse(StatusOf(update.error))
       ELSE Ask(<<[do |-> "update", by |-> r, update |-> update]>>)

\* Of the action that was built, or the refusal to.
DecideBuilt(r, actor, action) ==
    IF Refused(action) THEN Refuse(StatusOf(action.error))
    ELSE IF Gate(actor, action) # 200 THEN Refuse(Gate(actor, action))
    ELSE Ask(CallsOf(r, actor, action))

DecideAction(r, actor, body) ==
    LET found == {a \in Found(actions(actor), body.actionId) : a.kind = body.kind}
        intent == parseActionIntent(body, body.kind)
    IN IF found = {} THEN Refuse(403)
       ELSE IF Refused(intent) THEN Refuse(422)
       ELSE DecideBuilt(r, actor, buildAction(actor, intent, CHOOSE a \in found : TRUE))

\* Mutant: the scratch item is not deleted.
ScratchKept(r, actor, body) ==
    LET item == buildCustomItem(body.input)
    IN IF ~HasCustomItems(actor) THEN Refuse(404)
       ELSE IF Refused(item) THEN Refuse(422)
       ELSE Ask(<<[do |-> "create", by |-> r], [do |-> "giveMade", by |-> r, item |-> item]>>)

\* Made as a world item, given to the actor, and deleted in any case.
DecideItem(r, actor, body) ==
    LET item == buildCustomItem(body.input)
    IN IF ~HasCustomItems(actor) THEN Refuse(404)
       ELSE IF Refused(item) THEN Refuse(422)
       ELSE Ask(<<[do |-> "create", by |-> r], [do |-> "giveMade", by |-> r, item |-> item],
                  [do |-> "delete", by |-> r]>>)

DecideLibrary(r, actor, body) ==
    IF \/ body.collection \notin library(actor)
       \/ body.route = "add" /\ body.entry \notin DOMAIN Compendium
    THEN Refuse(404)
    ELSE IF body.route = "add"
    THEN IF ~canAdd(body.collection, Compendium[body.entry]) THEN Refuse(422)
         ELSE Ask(<<[do |-> "give", by |-> r, item |-> Compendium[body.entry]]>>)
    ELSE IF \/ body.itemId \notin ItemIds(actor)
            \/ ~canRemove(body.collection, ItemOf(actor, body.itemId))
    THEN Refuse(403)
    ELSE Ask(<<[do |-> "removeItem", by |-> r, itemId |-> body.itemId]>>)

Decision(r, actor, body) ==
    IF adapterFor(actor) = "none" THEN Refuse(IF body.route = "items" THEN 404 ELSE 502)
    ELSE CASE body.route = "intents" -> DecideIntent(r, actor, body)
           [] body.route = "actions" -> DecideAction(r, actor, body)
           [] body.route = "items" -> DecideItem(r, actor, body)
           [] body.route \in {"add", "remove"} -> DecideLibrary(r, actor, body)

Act(r, decision) ==
    IF decision.code # 200 THEN Reply(r, decision.code)
    ELSE Continue(r, req[r].known, decision.todo, TRUE)

(***************************************************************************)
(* The details arrive, or their read fails and the plain document serves;  *)
(* from there to the first call of the relay only the library route awaits *)
(* something, the read of the entry to add.  A compendium does not change, *)
(* so that read may go well at once: the call waits as long as it would.   *)
(***************************************************************************)
Decide(r) ==
    /\ req[r].stage = "details"
    /\ \E details \in {SystemDetails, << >>} :
         /\ IF details = << >> THEN Fault ELSE UNCHANGED faults
         /\ Act(r, Decision(r, enrich(req[r].known, details, sc.liveAc), req[r].body))
    /\ UNCHANGED <<sc, world, late, edits, ghosts>>

\* Or it fails (502), or brings another document (404).
EntryUnread(r) ==
    /\ req[r].stage = "details" /\ req[r].body.route = "add"
    /\ adapterFor(req[r].known) # "none" /\ req[r].body.collection \in library(req[r].known)
    /\ Fault
    /\ \E code \in {404, 502} : Reply(r, code)
    /\ UNCHANGED <<sc, world, late, edits, ghosts>>

-----------------------------------------------------------------------------
\* The relay client: how an answer comes back from a call

NeverThrows == {"create", "give", "giveMade", "removeItem", "removeEffect", "delete"}
\* Mutant: the error in the body of an activation is not read.
ErrorsUnread == {"targets", "attune", "command"} \cup NeverThrows
ReadsErrorBody == {"activate", "targets", "attune", "command"} \cup NeverThrows
ByScript(c) == c.do = "targets" \/ (c.do = "activate" /\ c.via # "module")

\* How Foundry says no: in a 200 body, or in a status of its own.  The script
\* of a targeted use says what the player may mend, and fails on a lost item.
Refusals(c) ==
    CASE c.do = "targets" ->
           IF c.itemId \in ItemIds(world.doc) THEN {"refused"} ELSE {"error"}
      [] c.do \in {"activate", "attune", "equip", "command"} -> {"error"}
      [] OTHER -> {"refused"}

\* What may go wrong, and whether the call was executed then.
Mishaps(c) ==
    {<<"timeout", x>> : x \in BOOLEAN} \cup {<<"lost", x>> : x \in BOOLEAN}
      \cup {<<"error", FALSE>>}
      \cup IF ByScript(c) THEN {<<"disabled", FALSE>>} ELSE {}

\* Mutants: a fallback after any failure, a timeout taken for a refusal.
FallbackAlways(c, answer) ==
    CASE answer = "ok" \/ c.do \in {"giveMade", "delete"} -> "next"
      [] c.do = "activate" /\ c.via = "execute-js" -> "fallback"
      [] OTHER -> "upstream"
TimeoutIsRefusal(c, answer) ==
    CASE answer = "ok" \/ c.do \in {"giveMade", "delete"} -> "next"
      [] c.do = "targets" -> "unprocessable"
      [] OTHER -> "upstream"

(***************************************************************************)
(* What the route makes of an answer: go on with the next call, fall back  *)
(* to the module's endpoint, or reply with a status.  A timeout of an      *)
(* activation is taken for an activation; that of a targeted use is not    *)
(* known to be one.  Execute-js being disabled was never an activation.    *)
(***************************************************************************)
AfterAnswer(c, answer) ==
    CASE answer = "ok" -> "next"
      [] c.do \in {"giveMade", "delete"} -> "next"
      [] c.do = "activate" /\ answer = "timeout" -> "next"
      [] c.do = "activate" /\ answer = "disabled" ->
           IF c.via = "execute-js" THEN "fallback" ELSE "unprocessable"
      [] c.do = "targets" /\ answer = "refused" -> "unprocessable"
      [] answer = "error" /\ c.do \notin ReadsErrorBody -> "next"
      [] OTHER -> "upstream"

\* The self-heal: the total is added to the hit points read at the start.
HealUpdate(r, heal, total) ==
    [do |-> "update", by |-> r,
     update |-> [data |-> Field(Dnd!HpPath("value"),
       IF total = NoNumber THEN NoNumber
       ELSE Min({heal.max, heal.current + Max({0, total})}))]]

Rest(r, c, total) ==
    LET rest == Tail(req[r].todo)
    IN IF c.do = "roll" /\ c.heal # NoHeal THEN <<HealUpdate(r, c.heal, total)>> \o rest ELSE rest

Answered(r, c, answer, total) ==
    LET then == AfterAnswer(c, answer)
        gave == req[r].gave /\ (c.do = "giveMade" => answer = "ok")
        rest == Rest(r, c, total)
        known == IF req[r].known = world.doc THEN world'.doc ELSE req[r].known
    IN CASE then = "fallback" ->
              Continue(r, req[r].known,
                       <<Activation(r, c.itemId, c.slotKey, "module")>> \o Tail(req[r].todo), req[r].gave)
         [] then = "unprocessable" -> Reply(r, 422)
         [] then = "upstream" -> Reply(r, 502)
         [] then = "next" ->
              IF rest # <<>> THEN Continue(r, known, rest, gave)
              ELSE IF ~gave THEN Reply(r, 502)
              ELSE IF NeedsDocument(req[r].body)
              THEN req' = [req EXCEPT ![r] = Standing("fresh", @.body)]
              ELSE Reply(r, 200)

\* A write of fields that were computed from the document as it was read.
Computed(c) == c.do = "update" \/ (c.do = "updateItem" /\ "container" \in DOMAIN c.data)
Blame(r, c) ==
    blamed' = blamed
      \cup (IF Computed(c) /\ req[r].known # world.doc THEN {"stale"} ELSE {})
      \cup (IF /\ c.do = "update" /\ ~Has(c.update, "itemId")
               /\ At(c.update.data, Dnd!HpPath("value"), 0) = NoNumber
            THEN {"no total"} ELSE {})

\* The targets that are hit, or fail to save.
Hits(c) == IF c.do = "targets" THEN SUBSET c.targets ELSE {{}}

Execute(c, hit) ==
    /\ world' = Executed(world, c, hit)
    /\ performed' = [performed EXCEPT ![c.by] = Append(@, c.do)]
    /\ Blame(c.by, c)

NotExecuted == UNCHANGED <<world, performed, blamed>>

CallGoesWell(r) ==
    /\ req[r].stage = "call"
    /\ LET c == Head(req[r].todo)
       IN /\ Possible(world, c)
          /\ \E hit \in Hits(c) : Execute(c, hit)
          /\ \E total \in Totals : Answered(r, c, "ok", total)
    /\ UNCHANGED <<sc, late, faults, edits, troubled>>

CallIsRefused(r) ==
    /\ req[r].stage = "call"
    /\ NotExecuted
    /\ LET c == Head(req[r].todo)
       IN /\ ~Possible(world, c)
          /\ \E answer \in Refusals(c) : Answered(r, c, answer, NoNumber)
    /\ UNCHANGED <<sc, late, faults, edits, troubled>>

(***************************************************************************)
(* A call goes wrong.  One that timed out and was not executed is late:    *)
(* Foundry may still do it.                                                *)
(***************************************************************************)
CallGoesWrong(r) ==
    /\ req[r].stage = "call" /\ Fault
    /\ LET c == Head(req[r].todo)
       IN \E m \in Mishaps(c) :
            /\ IF m[2] THEN Possible(world, c) /\ Execute(c, {}) ELSE NotExecuted
            /\ late' = IF m = <<"timeout", FALSE>> THEN late \cup {c} ELSE late
            /\ Answered(r, c, m[1], NoNumber)
    /\ troubled' = troubled \cup {r}
    /\ UNCHANGED <<sc, edits>>

ExecuteLate(c) ==
    /\ c \in late
    /\ late' = late \ {c}
    /\ IF Possible(world, c) THEN \E hit \in Hits(c) : world' = Executed(world, c, hit)
       ELSE UNCHANGED world
    /\ performed' = IF Possible(world, c) THEN [performed EXCEPT ![c.by] = Append(@, c.do)]
                    ELSE performed
    \* A late write was computed from a document of long ago.
    /\ blamed' = IF Computed(c) THEN blamed \cup {"stale"} ELSE blamed
    /\ UNCHANGED <<sc, req, faults, edits, troubled>>

\* The sheet is read afresh and replied.
FreshRead(r) ==
    /\ req[r].stage = "fresh"
    /\ \/ Reply(r, 200) /\ UNCHANGED faults
       \/ Reply(r, 502) /\ Fault
    /\ UNCHANGED <<sc, world, late, edits, ghosts>>

\* The GM edits the character, and never makes nonsense of what made sense.
GmEdits(u) ==
    /\ edits < MaxEdits /\ edits' = edits + 1
    /\ Applies(world.doc, u)
    /\ Sound(world.doc, sc.derived) => Sound(Applied(world.doc, u), sc.derived)
    /\ world' = [world EXCEPT !.doc = Applied(@, u)]
    /\ UNCHANGED <<sc, req, late, faults, ghosts>>

Next ==
    \/ \E r \in Requests :
         \/ Receive(r) \/ Decide(r) \/ EntryUnread(r)
         \/ CallGoesWell(r) \/ CallIsRefused(r) \/ CallGoesWrong(r)
         \/ FreshRead(r)
    \/ \E c \in late : ExecuteLate(c)
    \/ \E u \in sc.edits : GmEdits(u)

Spec == Init /\ [][Next]_vars
-----------------------------------------------------------------------------
\* Properties

\* Where in the list of what was executed a use is, or a copy of an item.
Activations(r) == {k \in DOMAIN performed[r] : performed[r][k] \in {"activate", "targets"}}
Copies(r) == {k \in DOMAIN performed[r] : performed[r][k] \in {"give", "giveMade"}}
AtMostOne(positions) == \A j, k \in positions : j = k
Replied(r, code) == req[r].stage = "done" /\ req[r].reply = code

(***************************************************************************)
(* One tap is one use: whatever times out, gets lost or falls back to      *)
(* another endpoint, a request never makes Foundry pay for an ability      *)
(* twice (activateAbility; the 408 branches of the actions route).         *)
(***************************************************************************)
ActivatedOnce == \A r \in Requests : AtMostOne(Activations(r))

(***************************************************************************)
(* A request that is told it was refused (4xx) has changed nothing in      *)
(* Foundry and will not: a forbidden target burns no slot, and a call      *)
(* reported as impossible was not executed.                                *)
(***************************************************************************)
RefusedMeansUntouched ==
    \A r \in Requests : \A code \in {403, 404, 409, 422} :
      Replied(r, code) => performed[r] = <<>> /\ \A c \in late : c.by # r

(***************************************************************************)
(* A 200 means it was done: unless a call of the request went wrong, it    *)
(* was executed, and a use or a cast not only rolled.  The exception is    *)
(* the equip toggle, whose client method does not read the error in a 200  *)
(* body.                                                                   *)
(***************************************************************************)
OkMeansDone ==
    \A r \in Requests : Replied(r, 200) /\ r \notin troubled =>
      LET body == req[r].body
      IN \/ body.route = "actions" /\ body.kind = "equip"
         \/ /\ performed[r] # <<>>
            /\ body.route = "actions" /\ body.kind \in {"use", "cast"} => Activations(r) # {}

(***************************************************************************)
(* A custom or library item arrives exactly once with a 200, at most once  *)
(* otherwise, and the scratch item made on the way is left behind only by  *)
(* a request that ran into trouble (create -> give -> delete).             *)
(***************************************************************************)
ItemsArriveOnce ==
    \A r \in Requests :
      /\ AtMostOne(Copies(r))
      /\ Replied(r, 200) /\ req[r].body.route \in {"items", "add"} /\ r \notin troubled
           => Copies(r) # {}
      /\ req[r].stage = "done" /\ r \in world.scratch => r \in troubled

(***************************************************************************)
(* Counters stay within their bounds, damage boxes within their track, and *)
(* no container ends up in its own contents, unless a write was computed   *)
(* from a document someone else has changed since, or a heal from a roll   *)
(* without a total.                                                        *)
(***************************************************************************)
SoundUnlessBlamed == blamed = {} => Sound(world.doc, sc.derived)

\* The last two look at the sheets between requests: every document is one.
Quiet == \A r \in Requests : req[r].stage \in {"idle", "done"}

(***************************************************************************)
(* However items are moved, given and deleted, the inventory shows each    *)
(* physical item exactly once, in one place (a container that lies in no   *)
(* other as the header of its section): nothing gets lost in a container   *)
(* that is gone, or in a cycle of containers.                              *)
(***************************************************************************)
ShownOnce ==
    Quiet /\ world.doc.systemId = "dnd5e" =>
      LET doc == world.doc
          view == Dnd!inventory(doc)
          lists == {<<"", view.carried>>} \cup {<<s.header.id, s.items>> : s \in view.sections}
          Where(i) == {l \in lists : \E row \in l[2] : row.id = i.id}
      IN \A i \in Dnd!physicalItems(doc) :
           IF i.type = "container" /\ Dnd!locationOf(doc, i) = ""
           THEN Where(i) = {} /\ \E s \in view.sections : s.header.id = i.id
           ELSE \E l \in lists : Where(i) = {l}

(***************************************************************************)
(* What a sheet offers is accepted, and what it shows is what is rolled:   *)
(* each action of the list, with the parameters its descriptor allows,     *)
(* passes buildAction on the same document (but for uses that are spent,   *)
(* magic that is not attuned to, slots that are gone, healing or harm      *)
(* without dice to show, and effects without an id whose name makes none), *)
(* and the roll of a stat has the bonus the stat shows.                    *)
(***************************************************************************)
Tap(a) == [kind |-> a.kind, actionId |-> a.id]
BareTaps(a) ==
    CASE a.kind \in {"equip", "attune", "prepare"} -> {Tap(a) ++ [to |-> b] : b \in BOOLEAN}
      [] a.kind = "grip" -> {Tap(a) ++ [to |-> "twoHanded"]}
      [] a.kind = "move" -> {Tap(a) ++ [containerId |-> ""]}
      [] a.kind = "cast" -> {Tap(a) ++ [slotLevel |-> l] : l \in At(a, "slotLevels", {0})}
      [] OTHER -> {Tap(a)}
Taps(a) ==
    BareTaps(a)
      \cup IF At(a, "targeting", Dnd!NoTargeting).mode = "none" THEN {}
           ELSE {x ++ [targets |-> {t}] : x \in BareTaps(a), t \in sc.fighters}
Excused(actor, a) ==
    \/ IsAt(a, "slotLevels", {})
    \/ a.kind = "endeffect" /\ ~Dnd!isEffectId(a.id[2])
    \/ /\ a.kind \in {"use", "cast"}
       /\ LET i == ItemOf(actor, a.id[2])
          IN \/ Dnd!usesExhausted(i)
             \/ "heal" \in {Dnd!effectTypeOf(i), Dnd!activityType(i)} /\ Dnd!healFormula(actor, i, 0) = <<>>
             \/ /\ a.kind = "use"
                /\ \/ Dnd!effectTypeOf(i) = "damage" /\ Dnd!itemDamageFormula(actor, i, 0) = <<>>
                   \/ Dnd!requiresAttunement(i) /\ ~Dnd!isAttuned(i)
OffersAreHonoured ==
    Quiet /\ world.doc.systemId = "dnd5e" =>
      LET actor == Character
          offered == actions(actor)
          Build(x, a) == buildAction(actor, x, a)
      IN /\ \A a \in offered : \A x \in Taps(a) : Excused(actor, a) \/ ~Refused(Build(x, a))
         /\ \A s \in toViewModel(actor).stats : \E a \in offered :
              a.id = s.actionId /\ Build(Tap(a), a).formula.bonus = s.value

=============================================================================
