-------------------------------- MODULE Page --------------------------------
(***************************************************************************)
(* The character page of the web client, apps/web/app/pages/actor/[id].vue:*)
(* two event streams with their retries, the sheet they and the answers of *)
(* the page's own requests bring, one busy flag per kind of request, the   *)
(* dialogs a tap goes through, and the overlay of a roll.                  *)
(*                                                                         *)
(* The gateway is what the page relies on: it sends the sheet when a       *)
(* stream opens and after every change, and answers each request with the  *)
(* sheet as it is then, or with an error.  A sheet is its version and the  *)
(* actions it offers; a combat frame is what EncounterView shows of the    *)
(* combat.                                                                 *)
(***************************************************************************)
EXTENDS EncounterView, TLC

CONSTANTS
    ActionIds,
    Descriptor,   \* action -> [kind, levels, targeting, targetable]
    Scenarios     \* records [starts, slots, offers, vanishing, combats, bounds]: whether
                  \* the device starts on line and with a cached sheet, the kinds of
                  \* request the player may make, the actions of the character, those
                  \* the GM may take away, the combats there may be, and the bounds on
                  \* taps, breaks (of the network), edits (of the GM) and faults (requests
                  \* that fail)

ASSUME PageAssumption ==
    \A s \in Scenarios :
        /\ s.vanishing \subseteq s.offers /\ s.offers \subseteq ActionIds
        /\ s.bounds \in [{"taps", "breaks", "edits", "faults"} -> Nat]
        \* combatant ids are the keys of the document's list
        /\ \A c \in s.combats : c # None =>
             /\ DOMAIN c = {"id", "round", "turn", "list", "hidden"}
             /\ c.list \in Seq(Combatants) /\ c.turn \in Nat \cup {None}
             /\ \A i, j \in DOMAIN c.list : c.list[i] = c.list[j] => i = j

VARIABLES
    sc,        \* the scenario: what the player may tap, what the GM may change
    world,     \* [ver, offers, combat]: the character and the fight
    online, news,   \* navigator.onLine; events of it not yet handled
    streams,   \* per kind: [conn, es, retry, sent, frames]
    page,      \* [at, sheet, encounter, seen, overtaken]
    fetches,   \* [asked, answers]: reads of the sheet under way
    calls,     \* per kind of request: the one under way, or None
    ui,        \* the dialogs: see Closed
    overlay,   \* the roll animation: "none", "spin", "hold", "reveal"
    left       \* what is left of the bounds

vars == <<sc, world, online, news, streams, page, fetches, calls, ui, overlay, left>>
network == <<online, news, streams>>
requests == <<fetches, calls>>

Kinds == {"sheet", "combat"}
Closed == [confirm |-> None, sheetFor |-> None, targetFor |-> None, pickerFor |-> None,
           tokens |-> None, actor |-> None]   \* tokens, actor: whom they were picked for
Spend(b) == left[b] > 0 /\ left' = [left EXCEPT ![b] = @ - 1]

SheetOf(w) == [ver |-> w.ver, offers |-> w.offers]
\* What the encounter stream shows of a combat.
Roster(combat) ==
    IF IsActive(combat) THEN [active |-> TRUE, turn |-> TurnPointer(combat), shown |-> Shown(combat)]
    ELSE [active |-> FALSE, turn |-> None, shown |-> <<>>]
Truth(kind) == IF kind = "sheet" THEN SheetOf(world) ELSE Roster(world.combat)

-----------------------------------------------------------------------------
\* The event streams

Down == [conn |-> "offline", es |-> "none", retry |-> FALSE, sent |-> None, frames |-> <<>>]
\* connectEvents, connectCombatEvents: whatever there was is closed first.
Connected(s, on) ==
    IF on THEN [Down EXCEPT !.conn = s.conn, !.es = "opening"] ELSE Down
Reconnecting(on) == Connected([Down EXCEPT !.conn = "reconnecting"], on)

Init ==
    /\ sc \in Scenarios
    /\ \E c \in sc.combats : world = [ver |-> 1, offers |-> sc.offers, combat |-> c]
    \* onMounted: a cached sheet is shown, the sheet asked for, the streams opened.
    /\ \E start \in sc.starts :
         /\ online = start.online /\ news = <<>>
         /\ page = [at |-> "page", encounter |-> Roster(None), seen |-> 0, overtaken |-> FALSE,
                    sheet |-> IF start.cached THEN [ver |-> 0, offers |-> sc.offers] ELSE None]
    /\ fetches = [asked |-> IF online THEN 1 ELSE 0, answers |-> {}]
    /\ streams = [k \in Kinds |-> Reconnecting(online)]
    /\ calls = [s \in sc.slots |-> None]
    /\ ui = Closed /\ overlay = "none"
    /\ left = sc.bounds

Here == page.at = "page"
AskSheet(f) == [f EXCEPT !.asked = @ + 1]

\* applySheet, with a sheet a stream or a request brought.
applySheet(p, sheet, pushed) ==
    [p EXCEPT !.sheet = sheet,
              !.seen = IF sheet.ver > @ THEN sheet.ver ELSE @,
              !.overtaken = ~pushed /\ sheet.ver < p.seen]
showNotLinked(p) == [p EXCEPT !.sheet = None]

\* The token is refused: back to the page one joins at, and all is unmounted.
Leave ==
    /\ page' = [page EXCEPT !.at = "join"]
    /\ streams' = [k \in Kinds |-> Down]
    /\ calls' = [s \in sc.slots |-> None]
    /\ fetches' = [asked |-> 0, answers |-> {}]
    /\ ui' = Closed /\ overlay' = "none"

\* onopen; the gateway sends what there is.
Opens(k) ==
    /\ online /\ streams[k].es = "opening"
    /\ streams' = [streams EXCEPT ![k] = [@ EXCEPT !.conn = "live", !.es = "open",
                                          !.sent = Truth(k), !.frames = <<Truth(k)>>]]
    /\ UNCHANGED <<sc, world, online, news, page, requests, ui, overlay, left>>

Pushes(k) ==
    /\ streams[k].es = "open" /\ streams[k].sent # Truth(k)
    /\ streams' = [streams EXCEPT ![k].sent = Truth(k),
                                  ![k].frames = Append(@, Truth(k))]
    /\ UNCHANGED <<sc, world, online, news, page, requests, ui, overlay, left>>

\* Mutant: pushed sheets are skipped while a request is under way.
FrameUnlessBusy(k) ==
    /\ streams[k].frames # <<>>
    /\ LET frame == Head(streams[k].frames)
           s == [streams[k] EXCEPT !.frames = Tail(@), !.conn = "live"]
       IN /\ streams' = [streams EXCEPT ![k] = s]
          /\ page' = IF k = "combat" THEN [page EXCEPT !.encounter = frame]
                     ELSE IF \E c \in sc.slots : calls[c] # None THEN page
                     ELSE applySheet(page, frame, TRUE)
    /\ UNCHANGED <<sc, world, online, news, requests, ui, overlay, left>>

FrameArrives(k) ==
    /\ streams[k].frames # <<>>
    /\ LET frame == Head(streams[k].frames)
           s == [streams[k] EXCEPT !.frames = Tail(@), !.conn = "live"]
       IN /\ streams' = [streams EXCEPT ![k] = s]
          /\ page' = IF k = "combat" THEN [page EXCEPT !.encounter = frame]
                     ELSE applySheet(page, frame, TRUE)
    /\ UNCHANGED <<sc, world, online, news, requests, ui, overlay, left>>

\* onerror: closed, and tried again after a while unless the device is offline.
Breaks(k) ==
    /\ streams[k].es # "none" /\ Spend("breaks")
    /\ streams' = [streams EXCEPT ![k] =
         IF online THEN [Down EXCEPT !.conn = "reconnecting", !.retry = TRUE] ELSE Down]
    /\ UNCHANGED <<sc, world, online, news, page, requests, ui, overlay>>

\* The timer of onerror.
Retry(k) ==
    /\ streams[k].retry
    /\ streams' = [streams EXCEPT ![k] = Connected(@, online)]
    /\ UNCHANGED <<sc, world, online, news, page, requests, ui, overlay, left>>

\* The device goes off and on line; the events are handled after it.
NetworkFlips ==
    /\ Here /\ Spend("breaks")
    /\ online' = ~online
    /\ news' = Append(news, online')
    /\ UNCHANGED <<sc, world, streams, page, requests, ui, overlay>>

\* Mutant: the combat stream is left alone.
OnlineSheetOnly ==
    /\ Here /\ news # <<>> /\ Head(news)
    /\ news' = Tail(news)
    /\ fetches' = AskSheet(fetches)
    /\ streams' = [streams EXCEPT !["sheet"] = Reconnecting(online)]
    /\ UNCHANGED <<sc, world, online, page, calls, ui, overlay, left>>

onOnline ==
    /\ Here /\ news # <<>> /\ Head(news)
    /\ news' = Tail(news)
    /\ fetches' = AskSheet(fetches)
    /\ streams' = [k \in Kinds |-> Reconnecting(online)]
    /\ UNCHANGED <<sc, world, online, page, calls, ui, overlay, left>>

onOffline ==
    /\ Here /\ news # <<>> /\ ~Head(news)
    /\ news' = Tail(news)
    /\ streams' = [k \in Kinds |-> Down]
    /\ UNCHANGED <<sc, world, online, page, requests, ui, overlay, left>>

-----------------------------------------------------------------------------
\* Reading the sheet

ServeFetch ==
    /\ fetches.asked > 0
    /\ \E answer \in {"ok", "failed", "unlinked", "unauthorized"} :
         /\ IF answer = "ok" THEN online /\ UNCHANGED left
            ELSE IF online THEN Spend("faults") ELSE answer = "failed" /\ UNCHANGED left
         /\ fetches' = [asked |-> fetches.asked - 1,
                        answers |-> fetches.answers \cup
                          {[status |-> answer, sheet |-> SheetOf(world)]}]
    /\ UNCHANGED <<sc, world, network, page, calls, ui, overlay>>

\* fetchSheet, its second half.
FetchArrives ==
    \E answer \in fetches.answers :
      /\ IF answer.status = "unauthorized" THEN Leave
         ELSE /\ fetches' = [fetches EXCEPT !.answers = @ \ {answer}]
              /\ page' = CASE answer.status = "ok" -> applySheet(page, answer.sheet, FALSE)
                           [] answer.status = "unlinked" -> showNotLinked(page)
                           [] OTHER -> page
              /\ UNCHANGED <<streams, calls, ui, overlay>>
      /\ UNCHANGED <<sc, world, online, news, left>>

\* The error card's button.
reload ==
    /\ Here /\ page.sheet = None
    /\ fetches.asked = 0 /\ fetches.answers = {} /\ Spend("taps")
    /\ fetches' = AskSheet(fetches)
    /\ streams' = [k \in Kinds |-> Connected(streams[k], online)]
    /\ UNCHANGED <<sc, world, online, news, page, calls, ui, overlay>>

-----------------------------------------------------------------------------
\* Requests

Offline == streams["sheet"].conn = "offline"
SheetSlots == {"intent", "box", "action", "pool", "item", "library", "remove", "move"}
\* Those that look at the connection before they send, and after a question.
LooksAtConn == sc.slots \ {"item", "library", "remove", "hp", "dice"}
\* The handlers that send the player to join again at a 401.
Rejoins == sc.slots \ {"library", "remove", "move"}
Animated == {"check", "save", "attack", "damage"}

NoIntent == [id |-> None, kind |-> "none", tokens |-> None, actor |-> None]
Intent(a) == [NoIntent EXCEPT !.id = a, !.kind = Descriptor[a].kind]

\* The dialogs are drawn over a sheet.
Drawn == page.sheet # None
Offered == IF page.sheet = None THEN {} ELSE page.sheet.offers
\* The action sheet is there only while its action is: see sheetAction.
VisibleSheet == IF ui.sheetFor \in Offered THEN ui.sheetFor ELSE None
NoDialog == {ui.confirm, VisibleSheet, ui.targetFor, ui.pickerFor} = {None}
\* "action" and "pool" share one busy flag.
Busy(slot) ==
    \E s \in sc.slots : calls[s] # None /\ (s = slot \/ {s, slot} = {"action", "pool"})

Sent(slot, intent) ==
    calls' = [calls EXCEPT ![slot] = [stage |-> "sent", status |-> "", sheet |-> None,
                                      intent |-> intent,
                                      again |-> slot = "box"]]

\* submitAction: silently not done when offline or busy.
submitAction(intent) ==
    IF Offline \/ Busy("action") THEN UNCHANGED <<calls, overlay>>
    ELSE /\ Sent("action", intent)
         /\ overlay' = IF intent.kind \in Animated THEN "spin" ELSE overlay

\* A tap on a sheet that no dialog covers.
Tap(slot) ==
    /\ Here /\ slot \in sc.slots /\ Drawn /\ NoDialog /\ Spend("taps")
    /\ ~Busy(slot) /\ (slot \in LooksAtConn => ~Offline)
    /\ UNCHANGED <<sc, world, network, page, fetches>>

Send(slot) == Sent(slot, NoIntent) /\ UNCHANGED <<ui, overlay>>
Ask(slot) == ui' = [ui EXCEPT !.confirm = slot] /\ UNCHANGED <<calls, overlay>>

\* Steppers and the numpad; a large change asks first.
submitIntent == Tap("intent") /\ (Send("intent") \/ Ask("intent"))
submitBoxChange == Tap("box") /\ Send("box")
\* onPoolSubmit, onRouse
onPoolSubmit == Tap("pool") /\ Send("pool")
\* onRest, onDeathSave, onEndConcentration, onConditionAction: two of them ask.
onRest ==
    /\ Tap("action")
    /\ Ask("action") \/ (submitAction(NoIntent) /\ UNCHANGED ui)
onCustomItemSubmit == Tap("item") /\ Send("item")
onLibraryAdd == Tap("library") /\ Send("library")
onRemove == Tap("remove") /\ Ask("remove")
onMove == Tap("move") /\ Send("move")
\* onMoveSubmit, onDash: the movement view they bring is not modelled.
onMoveSubmit == Tap("walk") /\ Send("walk")
onEndTurn ==
    /\ Tap("turnEnd") /\ page.encounter.active /\ streams["combat"].conn = "live"
    /\ Send("turnEnd")
applyCombatantHp == Tap("hp") /\ page.encounter.active /\ Send("hp")
\* The dice tray, and its event "rolling".
roll ==
    /\ Tap("dice") /\ Sent("dice", NoIntent)
    /\ overlay' = "spin" /\ UNCHANGED ui

\* answerConfirm; submitAction looks again, the other two do not.
Answer(yes) ==
    /\ Drawn /\ ui.confirm # None
    /\ ui' = [ui EXCEPT !.confirm = None]
    /\ IF ~yes THEN UNCHANGED <<calls, overlay>>
       ELSE IF ui.confirm = "action" THEN submitAction(NoIntent)
       ELSE Sent(ui.confirm, NoIntent) /\ UNCHANGED overlay
    /\ UNCHANGED <<sc, world, network, page, fetches, left>>

\* canTargetInCombat
CanTarget(a) ==
    /\ Descriptor[a].targeting
    /\ page.encounter.active /\ streams["combat"].conn = "live"

\* onCombatAction and onAction: targets first, then the slot, then the request.
TapAction(a) ==
    /\ a \in Offered /\ Tap("action")
    /\ LET d == Descriptor[a] IN
       CASE d.kind \in {"cast", "attack", "use"} /\ CanTarget(a) ->
              ui' = [ui EXCEPT !.targetFor = a] /\ UNCHANGED <<calls, overlay>>
         [] d.kind = "cast" /\ ~CanTarget(a) /\ d.targetable ->
              ui' = [ui EXCEPT !.pickerFor = a] /\ UNCHANGED <<calls, overlay>>
         [] d.kind = "cast" /\ ~CanTarget(a) /\ ~d.targetable /\ d.levels # "many" ->
              \* the row of the spell list opens its sheet, that of the
              \* actions casts at once, if there is a slot
              \/ ui' = [ui EXCEPT !.sheetFor = a] /\ UNCHANGED <<calls, overlay>>
              \/ d.levels # "none" /\ submitAction(Intent(a)) /\ UNCHANGED ui
         [] (d.kind \in {"attack", "cast"} /\ ~CanTarget(a) /\ ~d.targetable
               /\ (d.kind = "cast" => d.levels = "many")) \/ d.kind \in {"check", "save"} ->
              ui' = [ui EXCEPT !.sheetFor = a] /\ UNCHANGED <<calls, overlay>>
         [] OTHER -> submitAction(Intent(a)) /\ UNCHANGED ui

\* onCombatTargetPick and onTargetPick: `whose` is the action that asked.
AfterPick(whose, intent, closed, kept) ==
    LET d == Descriptor[whose] IN
    IF whose \notin Offered \/ (d.kind = "cast" /\ d.levels = "none")
    THEN ui' = closed /\ UNCHANGED <<calls, overlay>>
    ELSE IF d.kind = "cast" /\ d.levels = "many"
    THEN ui' = kept /\ UNCHANGED <<calls, overlay>>
    ELSE ui' = closed /\ submitAction(intent)

PickTokens ==
    /\ Drawn /\ ui.targetFor # None
    /\ LET a == ui.targetFor
           closed == [ui EXCEPT !.targetFor = None]
       IN AfterPick(a, [Intent(a) EXCEPT !.tokens = a], closed,
                    [closed EXCEPT !.tokens = a, !.sheetFor = a])
    /\ UNCHANGED <<sc, world, network, page, fetches, left>>

PickActor ==
    /\ Drawn /\ ui.pickerFor # None
    /\ LET a == ui.pickerFor
           closed == [ui EXCEPT !.pickerFor = None]
       IN \E chosen \in {None, a} :    \* the caster, or somebody else
            AfterPick(a, [Intent(a) EXCEPT !.actor = chosen], closed,
                      [closed EXCEPT !.actor = chosen, !.sheetFor = a])
    /\ UNCHANGED <<sc, world, network, page, fetches, left>>

\* onActionSubmit: what was picked before goes along, and is forgotten.
SubmitSheet ==
    /\ VisibleSheet # None
    /\ LET a == ui.sheetFor
           kind == Descriptor[a].kind
       IN submitAction([Intent(a) EXCEPT
            !.tokens = IF kind \in {"attack", "cast", "use"} THEN ui.tokens ELSE None,
            !.actor = IF kind = "cast" THEN ui.actor ELSE None])
    /\ ui' = [ui EXCEPT !.sheetFor = None, !.tokens = None, !.actor = None]
    /\ UNCHANGED <<sc, world, network, page, fetches, left>>

\* Mutant: what was picked outlives the action sheet.
CloseKeeps ==
    /\ Drawn /\ ui.confirm = None /\ ~NoDialog
    /\ ui' = [ui EXCEPT !.sheetFor = IF VisibleSheet # None THEN None ELSE @,
                        !.targetFor = None, !.pickerFor = None]
    /\ UNCHANGED <<sc, world, network, page, requests, overlay, left>>

\* closeActionSheet, and the close of the two pickers.
CloseDialog ==
    /\ Drawn /\ ui.confirm = None /\ ~NoDialog
    /\ ui' = IF VisibleSheet # None
             THEN [ui EXCEPT !.sheetFor = None, !.tokens = None, !.actor = None]
             ELSE [ui EXCEPT !.targetFor = None, !.pickerFor = None]
    /\ UNCHANGED <<sc, world, network, page, requests, overlay, left>>

-----------------------------------------------------------------------------
\* Answers

Statuses(slot) ==
    {"failed", "unauthorized"}
      \cup (IF slot \in {"intent", "box"} THEN {"conflict"} ELSE {})
      \cup (IF slot \in {"action", "pool"} THEN {"refused", "unlinked"} ELSE {})

\* The gateway answers; a write is in its answer and in the next push.  One
\* that failed for the page may have been done.
Serve(slot) ==
    /\ calls[slot] # None /\ calls[slot].stage = "sent"
    /\ \E status \in {"rolled", "done"} \cup Statuses(slot) :
         LET ok == status \in {"rolled", "done"} IN
         /\ IF ok THEN online /\ UNCHANGED left
            ELSE IF online THEN Spend("faults") ELSE status = "failed" /\ UNCHANGED left
         /\ \E written \in (IF slot \notin SheetSlots THEN {0} ELSE IF ok THEN {1}
                            ELSE IF status = "failed" THEN {0, 1} ELSE {0}) :
              /\ LET after == [world EXCEPT !.ver = @ + written]
                 IN /\ world' = after
                    /\ calls' = [calls EXCEPT
                         ![slot].stage = "answered", ![slot].status = status,
                         ![slot].sheet = IF slot = "hp" THEN Roster(after.combat)
                                         ELSE SheetOf(after)]
    /\ UNCHANGED <<sc, network, page, fetches, ui, overlay>>

Release(slot) == calls' = [calls EXCEPT ![slot] = None]

\* The roll is shown in the overlay for a while, or at once.
Finished(status, slot) ==
    IF slot \notin {"action", "dice"} THEN overlay
    ELSE IF status = "rolled" /\ overlay # "none" THEN "hold" ELSE "none"

ArrivesWell(slot) ==
    /\ calls[slot] # None /\ calls[slot].status \in {"rolled", "done"}
    /\ page' = CASE slot \in SheetSlots -> applySheet(page, calls[slot].sheet, FALSE)
                 [] slot = "hp" -> [page EXCEPT !.encounter = calls[slot].sheet]
                 [] OTHER -> page
    /\ overlay' = Finished(calls[slot].status, slot)
    \* submitBoxChange goes on with the second of two changes.
    /\ IF calls[slot].again
       THEN \/ Release(slot)
            \/ calls' = [calls EXCEPT ![slot].stage = "sent", ![slot].status = "",
                                      ![slot].again = FALSE]
       ELSE Release(slot)
    /\ UNCHANGED <<sc, world, network, fetches, ui, left>>

ArrivesBadly(slot) ==
    /\ calls[slot] # None /\ calls[slot].status \in Statuses(slot)
    /\ IF calls[slot].status = "unauthorized" /\ slot \in Rejoins THEN Leave
       ELSE /\ page' = CASE calls[slot].status = "conflict" -> applySheet(page, calls[slot].sheet, FALSE)
                         [] calls[slot].status = "unlinked" -> showNotLinked(page)
                         [] OTHER -> page
            /\ fetches' = IF calls[slot].status = "refused" THEN AskSheet(fetches) ELSE fetches
            /\ overlay' = Finished("failed", slot)
            /\ Release(slot)
            /\ UNCHANGED <<streams, ui>>
    /\ UNCHANGED <<sc, world, online, news, left>>

\* The overlay's timer: a hung request, the shortest show, the reveal.
OverlayTimer ==
    /\ overlay # "none"
    /\ overlay' = IF overlay = "hold" THEN "reveal" ELSE "none"
    /\ UNCHANGED <<sc, world, network, page, requests, ui, left>>

-----------------------------------------------------------------------------
\* The table

\* The GM changes the character, takes an action from it or gives it back.
GmEdits ==
    /\ Spend("edits")
    /\ \E offers \in {sc.offers} \cup {sc.offers \ {a} : a \in sc.vanishing} :
         world' = [world EXCEPT !.ver = @ + 1, !.offers = offers]
    /\ UNCHANGED <<sc, network, page, requests, ui, overlay>>

FightMoves ==
    /\ Spend("edits")
    /\ \E c \in sc.combats \ {world.combat} : world' = [world EXCEPT !.combat = c]
    /\ UNCHANGED <<sc, network, page, requests, ui, overlay>>

Player ==
    \/ reload \/ PickTokens \/ PickActor \/ SubmitSheet \/ CloseDialog
    \/ \E yes \in BOOLEAN : Answer(yes)
    \/ submitIntent \/ submitBoxChange \/ onPoolSubmit \/ onRest \/ onCustomItemSubmit
    \/ onLibraryAdd \/ onRemove \/ onMove \/ onMoveSubmit \/ onEndTurn
    \/ applyCombatantHp \/ roll
    \/ \E a \in ActionIds : TapAction(a)
Network ==
    \/ NetworkFlips \/ GmEdits \/ FightMoves
    \/ \E k \in Kinds : Breaks(k)
Frames == \E k \in Kinds : Opens(k) \/ Pushes(k) \/ FrameArrives(k) \/ Retry(k)
Events == onOnline \/ onOffline
Answers == ServeFetch \/ FetchArrives
             \/ \E slot \in sc.slots : Serve(slot) \/ ArrivesWell(slot) \/ ArrivesBadly(slot)

Machine == Frames \/ Events \/ Answers \/ OverlayTimer
Next == Player \/ Network \/ Machine

(***************************************************************************)
(* The browser handles its events and timers, and a request gets an answer *)
(* or an error in the end: while any of that is due, some of it happens.   *)
(* Nothing is asked of the player, the network or the GM.                  *)
(***************************************************************************)
Spec == Init /\ [][Next]_vars /\ WF_vars(Machine)

-----------------------------------------------------------------------------
\* Properties

NothingUnderWay == fetches = [asked |-> 0, answers |-> {}] /\ \A s \in sc.slots : calls[s] = None
UpToDate(k) ==
    streams[k].es = "open" /\ streams[k].frames = <<>> /\ streams[k].sent = Truth(k)

(***************************************************************************)
(* Once the stream has delivered, the page shows the character as it is,   *)
(* whatever requests are under way; the one way to show an older sheet is  *)
(* an answer that was read before, and came after, a pushed one (applySheet*)
(* takes sheets in the order they come).                                   *)
(***************************************************************************)
SettledIsFresh ==
    UpToDate("sheet") /\ page.sheet # None =>
      /\ page.seen = world.ver
      /\ page.sheet = SheetOf(world) \/ page.overtaken

(***************************************************************************)
(* The targets that go with an action were picked for it.  They are kept   *)
(* while the slot is chosen, and the action sheet may vanish meanwhile,    *)
(* because its action does: then they wait for the next sheet that opens.  *)
(***************************************************************************)
PickedForThis ==
    "action" \in sc.slots /\ calls["action"] # None =>
        LET intent == calls["action"].intent IN
        {intent.tokens, intent.actor} \subseteq {None, intent.id} \cup sc.vanishing

Position(l, c) == CHOOSE i \in DOMAIN l : l[i] = c

\* What the page shows of a fight are exactly the visible combatants, the
\* higher initiative first, equals in the document's order; the turn is never
\* at a combatant that is not shown, and hiding some does not move it to
\* another (view: the index counts the hidden combatants, too).
ShownInOrder ==
    \A k \in 1..Len(streams["combat"].frames) :
      streams["combat"].frames[k].active /\ streams["combat"].frames[k] = Roster(world.combat) =>
        LET frame == streams["combat"].frames[k]
            combat == world.combat
            open == TurnPointer([combat EXCEPT !.hidden = {}])
        IN /\ Entries(frame.shown) = Entries(combat.list) \ combat.hidden
           /\ \A i, j \in DOMAIN frame.shown : i < j =>
                \/ Initiative[frame.shown[i]] > Initiative[frame.shown[j]]
                \/ /\ Initiative[frame.shown[i]] = Initiative[frame.shown[j]]
                   /\ Position(combat.list, frame.shown[i]) < Position(combat.list, frame.shown[j])
           /\ frame.turn \in Entries(frame.shown) \cup {None}
           /\ open \notin combat.hidden => frame.turn = open

(***************************************************************************)
(* On a device that stays on line the page comes to rest whatever happened *)
(* before: both streams are live again and have delivered, every busy flag *)
(* is released, and no overlay is left (connectEvents, onerror, onOnline,  *)
(* the finally clauses, startRollAnim's safety net).                       *)
(***************************************************************************)
AtRest ==
    /\ NothingUnderWay /\ overlay = "none"
    /\ \A k \in Kinds : streams[k].conn = "live" /\ UpToDate(k)
PageRecovers == <>[](Here /\ online) => <>[]AtRest
=============================================================================
