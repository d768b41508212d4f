----------------------------- MODULE PageProofs -----------------------------
(***************************************************************************)
(* What the character page promises, for every character, table and        *)
(* network.  Two chains of facts: every sheet anywhere, in a frame, an     *)
(* answer or on the page, is one the character has had (Fits), so one of   *)
(* the present version is the present sheet, and the last frame sent is    *)
(* the last to arrive (StreamOk); and what is picked in a dialog belongs   *)
(* to the action sheet under it, unless the action has vanished (UiOk).    *)
(***************************************************************************)
EXTENDS Page, EncounterViewProofs, SequenceTheorems, TLAPS

\* A sheet the character has had; w is the world, c the scenario.
Fits(c, w, s) ==
  /\ s = [ver |-> s.ver, offers |-> s.offers]
  /\ s.ver \in Nat /\ s.ver <= w.ver
  /\ c.offers \ c.vanishing \subseteq s.offers /\ s.offers \subseteq c.offers
  /\ s.ver = w.ver => s.offers = w.offers

WorldOk(c, w) == DOMAIN w = {"ver", "offers", "combat"} /\ Fits(c, w, SheetOf(w))

PageOk(c, w, p) ==
  /\ DOMAIN p = {"at", "sheet", "encounter", "seen", "overtaken"}
  /\ p.seen \in Nat /\ p.seen <= w.ver
  /\ p.sheet # None => Fits(c, w, p.sheet)

\* What the stream sent last is shown, or something newer, or it was overtaken.
Delivered(s, p) ==
  /\ p.seen >= s.sent.ver
  /\ p.sheet # None => p.overtaken \/ p.sheet.ver >= s.sent.ver

Sheets(c, w) == {x \in [ver : Nat, offers : SUBSET c.offers] : Fits(c, w, x)}
Stream(s) == DOMAIN s = {"conn", "es", "retry", "sent", "frames"}
StreamOk(c, w, s, p) ==
  /\ s.frames \in Seq(Sheets(c, w))
  /\ s.es = "open" =>
       /\ Fits(c, w, s.sent)
       /\ s.frames = <<>> => Delivered(s, p)
       /\ s.frames # <<>> => s.frames[Len(s.frames)] = s.sent

AnswersOk(c, w, f) ==
  DOMAIN f = {"asked", "answers"} /\ \A a \in f.answers : Fits(c, w, a.sheet)

\* Targets of this action, or left over from one that has vanished.
Own(c, i) == {i.tokens, i.actor} \subseteq {None, i.id} \cup c.vanishing
CallOk(c, w, slot, x) ==
  /\ DOMAIN x = {"stage", "status", "sheet", "intent", "again"}
  /\ slot \in SheetSlots /\ x.status # "" => Fits(c, w, x.sheet)
  /\ slot = "action" => Own(c, x.intent)
CallsOk(c, w, cs) ==
  /\ DOMAIN cs = c.slots
  /\ \A slot \in c.slots : cs[slot] # None => CallOk(c, w, slot, cs[slot])

UiOk(c, u) ==
  /\ DOMAIN u = {"confirm", "sheetFor", "targetFor", "pickerFor", "tokens", "actor"}
  /\ {u.sheetFor, u.targetFor, u.pickerFor} \subseteq {None} \cup c.offers
  /\ {u.tokens, u.actor} \subseteq {None, u.sheetFor} \cup c.vanishing
  /\ u.targetFor # None \/ u.pickerFor # None => u.sheetFor \in {None} \cup c.vanishing
  /\ u.targetFor = None \/ u.pickerFor = None

StreamsOk(c, w, ss, p) ==
  /\ DOMAIN ss = Kinds /\ \A k \in Kinds : Stream(ss[k])
  /\ StreamOk(c, w, ss["sheet"], p)

Inv ==
  /\ sc \in Scenarios
  /\ WorldOk(sc, world) /\ PageOk(sc, world, page)
  /\ StreamsOk(sc, world, streams, page)
  /\ AnswersOk(sc, world, fetches) /\ CallsOk(sc, world, calls) /\ UiOk(sc, ui)

-----------------------------------------------------------------------------
\* The world moves on: sheets stay what they were.
LEMMA FitsLater ==
  ASSUME NEW c, NEW w, NEW v, NEW s, Fits(c, w, s), WorldOk(c, w),
         v.ver \in Nat, v.ver >= w.ver, v.ver = w.ver => v.offers = w.offers
  PROVE  Fits(c, v, s)
<1>1. w.ver \in Nat
  BY DEF WorldOk, Fits, SheetOf
<1>2. QED
  BY <1>1 DEF Fits

LEMMA WorldMoves ==
  ASSUME Inv, sc' = sc, WorldOk(sc, world'), world'.ver >= world.ver,
         world'.ver = world.ver => world'.offers = world.offers,
         UNCHANGED <<page, streams, fetches, ui>>, CallsOk(sc, world', calls')
  PROVE  Inv'
<1>1. world'.ver \in Nat /\ world.ver \in Nat
  BY DEF Inv, WorldOk, Fits, SheetOf
<1>2. \A s : Fits(sc, world, s) => Fits(sc, world', s)
  BY <1>1, FitsLater DEF Inv
<1>3. PageOk(sc, world', page)
  BY <1>1, <1>2 DEF Inv, PageOk
<1>4. StreamsOk(sc, world', streams, page)
  <2>1. Sheets(sc, world) \subseteq Sheets(sc, world')
    BY <1>2 DEF Sheets
  <2>2. \A s : s \in Seq(Sheets(sc, world)) => s \in Seq(Sheets(sc, world'))
    BY <2>1
  <2>3. QED
    BY <1>2, <2>2 DEF Inv, StreamsOk, StreamOk
<1>5. AnswersOk(sc, world', fetches)
  BY <1>2 DEF Inv, AnswersOk
<1>6. QED
  BY <1>3, <1>4, <1>5 DEF Inv

\* A stream that is closed, or opened anew, holds nothing.
LEMMA FreshStreams ==
  ASSUME NEW c, NEW w, NEW p
  PROVE  /\ Stream(Down) /\ StreamOk(c, w, Down, p)
         /\ \A s, on : Stream(Connected(s, on)) /\ StreamOk(c, w, Connected(s, on), p)
         /\ \A on : Stream(Reconnecting(on)) /\ StreamOk(c, w, Reconnecting(on), p)
<1> DEFINE Fresh(t) == Stream(t) /\ StreamOk(c, w, t, p)
<1>1. Fresh(Down)
  BY DEF Down, Stream, StreamOk
<1>2. \A s, on : Fresh(Connected(s, on))
  <2> TAKE s, on
  <2>1. CASE on
    <3>1. Connected(s, on) = [Down EXCEPT !.conn = s.conn, !.es = "opening"]
      BY <2>1 DEF Connected
    <3>2. Fresh([Down EXCEPT !.conn = s.conn, !.es = "opening"])
      BY DEF Down, Stream, StreamOk
    <3> HIDE DEF Fresh
    <3>3. QED
      BY <3>1, <3>2
  <2>2. CASE ~on
    <3>1. Connected(s, on) = Down
      BY <2>2 DEF Connected
    <3> HIDE DEF Fresh
    <3>2. QED
      BY <3>1, <1>1
  <2>3. QED
    BY <2>1, <2>2
<1>3. \A on : Fresh(Reconnecting(on))
  <2> HIDE DEF Fresh
  <2>1. QED
    BY <1>2 DEF Reconnecting
<1>4. QED
  BY <1>1, <1>2, <1>3

Framed(p, s) == applySheet(p, s, TRUE)
Brought(p, s) == applySheet(p, s, FALSE)

\* A frame is shown: it is the newest the page has seen.
LEMMA FrameShown ==
  ASSUME NEW c, NEW w, NEW p, NEW s,
         PageOk(c, w, p), Fits(c, w, s), WorldOk(c, w), NEW q, q = Framed(p, s)
  PROVE  PageOk(c, w, q) /\ q.sheet = s /\ q.seen >= s.ver
BY DEF Framed, applySheet, PageOk, Fits, WorldOk, SheetOf

\* An answer brings a sheet: an older one than was seen is known to be.
LEMMA AnswerShown ==
  ASSUME NEW c, NEW w, NEW p, NEW s, NEW stream,
         PageOk(c, w, p), Fits(c, w, s), WorldOk(c, w), StreamOk(c, w, stream, p)
  PROVE  PageOk(c, w, Brought(p, s)) /\ StreamOk(c, w, stream, Brought(p, s))
<1> DEFINE q == applySheet(p, s, FALSE)
<1>1. /\ PageOk(c, w, q) /\ q.sheet = s
      /\ q.seen >= p.seen /\ q.seen >= s.ver
  BY DEF applySheet, PageOk, Fits, WorldOk, SheetOf
<1>2. s.ver >= p.seen \/ q.overtaken
  <2> DEFINE r(v) == [p EXCEPT !.sheet = s, !.seen = IF s.ver > @ THEN s.ver ELSE @,
                              !.overtaken = v]
  <2>1. \A v : r(v).overtaken = v
    BY DEF PageOk
  <2>2. q = r(~FALSE /\ s.ver < p.seen)
    BY DEF applySheet
  <2> HIDE DEF q, r
  <2>3. q.overtaken = (~FALSE /\ s.ver < p.seen)
    BY <2>1, <2>2, Zenon
  <2>4. s.ver \in Nat /\ p.seen \in Nat
    BY DEF PageOk, Fits
  <2>5. s.ver < p.seen \/ s.ver >= p.seen
    BY <2>4
  <2>6. QED
    BY <2>3, <2>5, Zenon
<1>3. q.seen \in Nat /\ p.seen \in Nat /\ s.ver \in Nat
  BY <1>1 DEF PageOk, Fits
<1> HIDE DEF q
<1>4. ASSUME stream.es = "open", stream.frames = <<>> PROVE Delivered(stream, q)
  <2>1. stream.sent.ver \in Nat /\ p.seen >= stream.sent.ver
    BY <1>4 DEF StreamOk, Fits, Delivered
  <2>2. QED
    BY <1>1, <1>2, <1>3, <2>1 DEF Delivered
<1>5. StreamOk(c, w, stream, q)
  BY <1>4 DEF StreamOk
<1>6. QED
  BY <1>1, <1>5 DEF q, Brought

\* The page loses its sheet, or shows another combat.
LEMMA PageKept ==
  ASSUME NEW c, NEW w, NEW p, NEW q, NEW stream,
         PageOk(c, w, p), StreamOk(c, w, stream, p),
         q = showNotLinked(p) \/ (\E e : q = [p EXCEPT !.encounter = e]) \/ q = p
  PROVE  PageOk(c, w, q) /\ StreamOk(c, w, stream, q)
<1>1. DOMAIN q = DOMAIN p /\ q.seen = p.seen /\ q.overtaken = p.overtaken
  BY DEF showNotLinked, PageOk
<1>2. q.sheet = p.sheet \/ q.sheet = None
  BY DEF showNotLinked, PageOk
<1>3. QED
  BY <1>1, <1>2 DEF PageOk, StreamOk, Delivered

-----------------------------------------------------------------------------
\* The player

\* The player sends a request or opens and closes dialogs.
LEMMA Taps ==
  ASSUME Inv, UNCHANGED <<sc, world, streams, page, fetches>>, UiOk(sc, ui'),
         \/ UNCHANGED calls
         \/ \E slot, intent : Sent(slot, intent) /\ (slot = "action" => Own(sc, intent))
  PROVE  Inv'
<1>1. CASE UNCHANGED calls
  BY <1>1 DEF Inv
<1>2. CASE \E slot, intent : Sent(slot, intent) /\ (slot = "action" => Own(sc, intent))
  <2>1. PICK slot, intent : Sent(slot, intent) /\ (slot = "action" => Own(sc, intent))
    BY <1>2
  <2>2. DOMAIN calls' = DOMAIN calls
    BY <2>1 DEF Sent
  <2>3. ASSUME NEW s \in sc.slots, calls'[s] # None
        PROVE  CallOk(sc, world, s, calls'[s])
    <3>1. CASE s = slot
      BY <2>1, <2>3, <3>1 DEF Sent, CallOk, Inv, CallsOk
    <3>2. CASE s # slot
      BY <2>1, <2>3, <3>2 DEF Sent, Inv, CallsOk
    <3>3. QED
      BY <3>1, <3>2
  <2>4. CallsOk(sc, world, calls')
    BY <2>2, <2>3 DEF CallsOk, Inv
  <2>5. QED
    BY <2>4 DEF Inv
<1>3. QED
  BY <1>1, <1>2

\* A request made without a dialog takes no targets along.
LEMMA NoIntentOwn == Own(sc, NoIntent) /\ \A a : Own(sc, Intent(a))
BY DEF Own, NoIntent, Intent

\* A request that does not go with a target.
LEMMA Plain ==
  ASSUME Inv, UNCHANGED <<sc, world, streams, page, fetches>>, UiOk(sc, ui'),
         UNCHANGED calls \/ (\E slot : Sent(slot, NoIntent)) \/ submitAction(NoIntent)
  PROVE  Inv'
BY Taps, NoIntentOwn DEF submitAction

\* A question leaves the other dialogs alone.
LEMMA UiSame ==
  ASSUME Inv, UNCHANGED <<sc, ui>> \/ (sc' = sc /\ \E slot : ui' = [ui EXCEPT !.confirm = slot])
  PROVE  UiOk(sc, ui')
BY DEF Inv, UiOk

\* Taps that send or ask at once, and the answer to a question.
LEMMA Simple ==
  ASSUME Inv,
         \/ submitIntent \/ submitBoxChange \/ onPoolSubmit \/ onRest \/ onCustomItemSubmit
         \/ onLibraryAdd \/ onRemove \/ onMove \/ onMoveSubmit \/ onEndTurn
         \/ applyCombatantHp \/ roll \/ \E yes \in BOOLEAN : Answer(yes)
  PROVE  Inv'
<1>1. UNCHANGED <<sc, world, streams, page, fetches>>
  BY DEF submitIntent, submitBoxChange, onPoolSubmit, onRest, onCustomItemSubmit, onLibraryAdd,
         onRemove, onMove, onMoveSubmit, onEndTurn, applyCombatantHp, roll, Answer, Tap, network
<1>2. UNCHANGED <<sc, ui>> \/ (sc' = sc /\ \E slot : ui' = [ui EXCEPT !.confirm = slot])
  BY DEF submitIntent, submitBoxChange, onPoolSubmit, onRest, onCustomItemSubmit, onLibraryAdd,
         onRemove, onMove, onMoveSubmit, onEndTurn, applyCombatantHp, roll, Answer, Tap, Send, Ask
<1>3. UNCHANGED calls \/ (\E slot : Sent(slot, NoIntent)) \/ submitAction(NoIntent)
  BY DEF submitIntent, submitBoxChange, onPoolSubmit, onRest, onCustomItemSubmit, onLibraryAdd,
         onRemove, onMove, onMoveSubmit, onEndTurn, applyCombatantHp, roll, Answer, Tap, Send, Ask
<1>4. QED
  BY <1>1, <1>2, <1>3, UiSame, Plain

\* With no dialog over the sheet, an action sheet that waits has lost its action.
LEMMA Waiting ==
  ASSUME Inv, Drawn, NoDialog
  PROVE  ui.sheetFor \in {None} \cup sc.vanishing /\ ui.targetFor = None /\ ui.pickerFor = None
<1>1. VisibleSheet = None /\ ui.targetFor = None /\ ui.pickerFor = None
  BY DEF NoDialog
<1>2. ui.sheetFor = None \/ ui.sheetFor \notin page.sheet.offers
  BY <1>1 DEF VisibleSheet, Offered, Drawn
<1>3. sc.offers \ sc.vanishing \subseteq page.sheet.offers
  BY DEF Inv, PageOk, Fits, Drawn
<1>4. ui.sheetFor \in {None} \cup sc.offers
  BY DEF Inv, UiOk
<1>5. QED
  BY <1>1, <1>2, <1>3, <1>4

\* A tap on an action: a picker or its sheet opens, or it is sent as it is.
LEMMA TapActionOk ==
  ASSUME Inv, NEW a, TapAction(a)
  PROVE  Inv'
<1>1. UNCHANGED <<sc, world, streams, page, fetches>> /\ Drawn /\ NoDialog /\ a \in Offered
  BY DEF TapAction, Tap, network
<1>2. a \in sc.offers
  BY <1>1 DEF Offered, Inv, PageOk, Fits, Drawn
<1>3. \/ ui' = [ui EXCEPT !.targetFor = a] /\ UNCHANGED calls
      \/ ui' = [ui EXCEPT !.pickerFor = a] /\ UNCHANGED calls
      \/ ui' = [ui EXCEPT !.sheetFor = a] /\ UNCHANGED calls
      \/ submitAction(Intent(a)) /\ UNCHANGED ui
  BY DEF TapAction
<1>4. UiOk(sc, ui')
  BY <1>1, <1>2, <1>3, Waiting DEF UiOk, Inv
<1>5. UNCHANGED calls \/ Sent("action", Intent(a))
  BY <1>3 DEF submitAction
<1>6. QED
  BY <1>1, <1>4, <1>5, Taps, NoIntentOwn

\* A pick goes with the action that asked for it, now or when its sheet is submitted.
LEMMA PickOk ==
  ASSUME Inv, PickTokens \/ PickActor
  PROVE  Inv'
<1>1. UNCHANGED <<sc, world, streams, page, fetches>>
  BY DEF PickTokens, PickActor, network
<1>2. CASE PickTokens
  <2> DEFINE a == ui.targetFor
             closed == [ui EXCEPT !.targetFor = None]
             kept == [closed EXCEPT !.tokens = a, !.sheetFor = a]
             intent == [Intent(a) EXCEPT !.tokens = a]
  <2>1. ui.targetFor # None /\ AfterPick(a, intent, closed, kept)
    BY <1>2 DEF PickTokens
  <2>2. UiOk(sc, closed) /\ UiOk(sc, kept)
    BY <2>1 DEF Inv, UiOk
  <2>3. Own(sc, intent)
    BY DEF Own, Intent, NoIntent
  <2> HIDE DEF closed, kept, intent
  <2>4. ui' = closed \/ ui' = kept
    BY <2>1 DEF AfterPick
  <2>5. UNCHANGED calls \/ Sent("action", intent)
    BY <2>1 DEF AfterPick, submitAction
  <2>6. UiOk(sc, ui')
    BY <2>2, <2>4
  <2>7. QED
    BY <1>1, <2>3, <2>5, <2>6, Taps
<1>3. CASE PickActor
  <2> DEFINE a == ui.pickerFor
             closed == [ui EXCEPT !.pickerFor = None]
             kept(x) == [closed EXCEPT !.actor = x, !.sheetFor = a]
             intent(x) == [Intent(a) EXCEPT !.actor = x]
  <2>1. PICK x \in {None, a} : AfterPick(a, intent(x), closed, kept(x))
    BY <1>3 DEF PickActor
  <2>2. ui.pickerFor # None
    BY <1>3 DEF PickActor
  <2>3. UiOk(sc, closed) /\ UiOk(sc, kept(x))
    BY <2>2 DEF Inv, UiOk
  <2>4. Own(sc, intent(x))
    BY DEF Own, Intent, NoIntent
  <2> HIDE DEF closed, kept, intent
  <2>5. ui' = closed \/ ui' = kept(x)
    BY <2>1 DEF AfterPick
  <2>6. UNCHANGED calls \/ Sent("action", intent(x))
    BY <2>1 DEF AfterPick, submitAction
  <2>7. UiOk(sc, ui')
    BY <2>3, <2>5
  <2>8. QED
    BY <1>1, <2>4, <2>6, <2>7, Taps
<1>4. QED
  BY <1>2, <1>3

\* The action sheet is submitted, or a dialog closed: what was picked is forgotten.
LEMMA SheetOk ==
  ASSUME Inv, SubmitSheet \/ CloseDialog
  PROVE  Inv'
<1>1. UNCHANGED <<sc, world, streams, page, fetches>>
  BY DEF SubmitSheet, CloseDialog, network, requests
<1>2. CASE SubmitSheet
  <2>1. UiOk(sc, ui')
    BY <1>2 DEF SubmitSheet, UiOk, Inv
  <2>2. PICK tokens \in {None, ui.tokens}, actor \in {None, ui.actor} :
          submitAction([Intent(ui.sheetFor) EXCEPT !.tokens = tokens, !.actor = actor])
    BY <1>2 DEF SubmitSheet
  <2> DEFINE intent == [Intent(ui.sheetFor) EXCEPT !.tokens = tokens, !.actor = actor]
  <2>3. intent.id = ui.sheetFor /\ intent.tokens = tokens /\ intent.actor = actor
    BY DEF Intent, NoIntent
  <2>4. {tokens, actor} \subseteq {None, ui.sheetFor} \cup sc.vanishing
    BY DEF Inv, UiOk
  <2>5. Own(sc, intent)
    BY <2>3, <2>4 DEF Own
  <2> HIDE DEF intent
  <2>6. UNCHANGED calls \/ Sent("action", intent)
    BY <2>2 DEF submitAction, intent
  <2>7. QED
    BY <1>1, <2>1, <2>5, <2>6, Taps
<1>3. CASE CloseDialog
  <2>1. UNCHANGED calls
    BY <1>3 DEF CloseDialog, requests
  <2>2. UiOk(sc, ui')
    BY <1>3 DEF CloseDialog, UiOk, Inv
  <2>3. QED
    BY <1>1, <2>1, <2>2, Taps
<1>4. QED
  BY <1>2, <1>3

-----------------------------------------------------------------------------
\* The streams

\* One stream changes, or all of them; the page may show what a frame brought.
LEMMA StreamsMove ==
  ASSUME Inv, UNCHANGED <<sc, world, calls, ui>>, AnswersOk(sc, world, fetches'),
         StreamsOk(sc, world, streams', page'), PageOk(sc, world, page')
  PROVE  Inv'
BY DEF Inv

\* Streams are closed and opened anew.
LEMMA Reconnected ==
  ASSUME Inv, reload \/ onOnline \/ onOffline \/ \E k \in Kinds : Breaks(k) \/ Retry(k)
  PROVE  Inv'
<1>1. UNCHANGED <<sc, world, calls, ui, page>>
  BY DEF reload, onOnline, onOffline, Breaks, Retry, requests
<1>2. fetches' = fetches \/ fetches' = AskSheet(fetches)
  BY DEF reload, onOnline, onOffline, Breaks, Retry, requests
<1>3. AnswersOk(sc, world, fetches')
  BY <1>2 DEF Inv, AnswersOk, AskSheet
<1> DEFINE Fresh(s) == Stream(s) /\ StreamOk(sc, world, s, page)
<1>4. Fresh(Down) /\ (\A s, on : Fresh(Connected(s, on))) /\ (\A on : Fresh(Reconnecting(on)))
  BY FreshStreams
<1>5. Fresh([Down EXCEPT !.conn = "reconnecting", !.retry = TRUE])
  BY DEF Down, Stream, StreamOk
<1>6. DOMAIN streams = Kinds /\ (\A k \in Kinds : Stream(streams[k])) /\ Fresh(streams["sheet"])
  BY DEF Inv, StreamsOk, Kinds
<1> HIDE DEF Fresh
<1> DEFINE Moved == DOMAIN streams' = Kinds /\ \A j \in Kinds : streams'[j] = streams[j] \/ Fresh(streams'[j])
<1>7. Moved
  <2>1. CASE reload
    BY <2>1, <1>4 DEF reload
  <2>2. CASE onOnline
    BY <2>2, <1>4 DEF onOnline
  <2>3. CASE onOffline
    BY <2>3, <1>4 DEF onOffline
  <2>4. ASSUME NEW k \in Kinds, Breaks(k) PROVE  Moved
    BY <2>4, <1>4, <1>5, <1>6 DEF Breaks
  <2>5. ASSUME NEW k \in Kinds, Retry(k) PROVE  Moved
    BY <2>5, <1>4, <1>6 DEF Retry
  <2>6. QED
    BY <2>1, <2>2, <2>3, <2>4, <2>5
<1>8. StreamsOk(sc, world, streams', page)
  <2>1. "sheet" \in Kinds
    BY DEF Kinds
  <2>2. QED
    BY <1>6, <1>7, <2>1 DEF StreamsOk, Fresh
<1>9. QED
  BY <1>1, <1>3, <1>8, StreamsMove DEF Inv

\* The present sheet is one the character has.
LEMMA Present == ASSUME Inv PROVE Fits(sc, world, SheetOf(world)) /\ SheetOf(world) \in Sheets(sc, world)
BY DEF Inv, WorldOk, Fits, Sheets, SheetOf

\* The gateway sends the sheet as it is.
LEMMA Sends ==
  ASSUME Inv, NEW k \in Kinds, Opens(k) \/ Pushes(k)
  PROVE  Inv'
<1>1. UNCHANGED <<sc, world, calls, ui, page, fetches>>
  BY DEF Opens, Pushes, requests
<1>2. PICK s : Stream(s) /\ streams' = [streams EXCEPT ![k] = s] /\ s.sent = Truth(k)
               /\ s.frames \in {<<Truth(k)>>, Append(streams[k].frames, Truth(k))}
  <2>1. Stream(streams[k]) /\ k \in DOMAIN streams
    BY DEF Inv, StreamsOk
  <2>2. CASE Opens(k)
    <3> DEFINE s == [streams[k] EXCEPT !.conn = "live", !.es = "open",
                                         !.sent = Truth(k), !.frames = <<Truth(k)>>]
    <3>2. Stream(s) /\ s.sent = Truth(k) /\ s.frames = <<Truth(k)>>
      BY <2>1 DEF Stream
    <3>3. streams' = [streams EXCEPT ![k] = s]
      BY <2>2 DEF Opens
    <3> HIDE DEF s
    <3>4. QED
      BY <3>2, <3>3
  <2>3. CASE Pushes(k)
    <3> DEFINE s == [streams[k] EXCEPT !.sent = Truth(k), !.frames = Append(@, Truth(k))]
    <3>2. Stream(s) /\ s.sent = Truth(k) /\ s.frames = Append(streams[k].frames, Truth(k))
      BY <2>1 DEF Stream
    <3>3. streams' = [streams EXCEPT ![k] = s]
      BY <2>1, <2>3 DEF Pushes
    <3> HIDE DEF s
    <3>4. QED
      BY <3>2, <3>3
  <2>4. QED
    BY <2>2, <2>3
<1>3. StreamsOk(sc, world, streams', page)
  <2>1. DOMAIN streams' = Kinds /\ \A j \in Kinds : Stream(streams'[j])
    BY <1>2 DEF Inv, StreamsOk
  <2>2. CASE k = "combat"
    BY <1>2, <2>1, <2>2 DEF Inv, StreamsOk
  <2>3. CASE k = "sheet"
    <3>1. streams'["sheet"] = s /\ s.sent = SheetOf(world) /\ streams["sheet"].frames \in Seq(Sheets(sc, world))
      BY <1>2, <2>3 DEF Inv, StreamsOk, Truth, StreamOk, Kinds
    <3>2. s.frames \in {<<SheetOf(world)>>, Append(streams["sheet"].frames, SheetOf(world))}
      BY <1>2, <2>3 DEF Truth
    <3>3. s.frames \in Seq(Sheets(sc, world)) /\ s.frames # <<>> /\ s.frames[Len(s.frames)] = SheetOf(world)
      <4> DEFINE new == SheetOf(world)
      <4>1. new \in Sheets(sc, world)
        BY Present
      <4> HIDE DEF new
      <4>2. \A f \in Seq(Sheets(sc, world)) :
              LET g == Append(f, new)
              IN g \in Seq(Sheets(sc, world)) /\ g # <<>> /\ g[Len(g)] = new
        BY <4>1, AppendProperties
      <4>3. LET g == <<new>> IN g \in Seq(Sheets(sc, world)) /\ g # <<>> /\ g[Len(g)] = new
        BY <4>1
      <4>4. QED
        BY <3>1, <3>2, <4>2, <4>3 DEF new
    <3>4. StreamOk(sc, world, s, page)
      BY <3>1, <3>3, Present DEF StreamOk
    <3>5. QED
      BY <2>1, <3>1, <3>4 DEF StreamsOk
  <2>4. QED
    BY <2>2, <2>3 DEF Kinds
<1>4. QED
  BY <1>1, <1>3, StreamsMove DEF Inv

\* The page handles the oldest frame; when it was the last, it is what was sent last.
LEMMA FrameOk ==
  ASSUME Inv, NEW k \in Kinds, FrameArrives(k)
  PROVE  Inv'
<1>1. UNCHANGED <<sc, world, calls, ui, fetches>>
  BY DEF FrameArrives, requests
<1> DEFINE old == streams[k]
           s == [old EXCEPT !.frames = Tail(@), !.conn = "live"]
<1>2. /\ old.frames # <<>> /\ streams' = [streams EXCEPT ![k] = s]
      /\ page' = IF k = "combat" THEN [page EXCEPT !.encounter = Head(old.frames)]
                 ELSE applySheet(page, Head(old.frames), TRUE)
  BY DEF FrameArrives
<1>3. Stream(old) /\ DOMAIN streams = Kinds /\ (\A j \in Kinds : Stream(streams[j]))
      /\ StreamOk(sc, world, streams["sheet"], page) /\ PageOk(sc, world, page)
  BY DEF Inv, StreamsOk
<1>4. Stream(s) /\ s.frames = Tail(old.frames) /\ s.es = old.es /\ s.sent = old.sent
  BY <1>3 DEF Stream
<1> HIDE DEF s
<1>5. DOMAIN streams' = Kinds /\ \A j \in Kinds : Stream(streams'[j])
  BY <1>2, <1>3, <1>4
<1>6. CASE k = "combat"
  <2>1. streams'["sheet"] = streams["sheet"]
    BY <1>2, <1>3, <1>6 DEF Kinds
  <2>2. PageOk(sc, world, page') /\ StreamOk(sc, world, streams["sheet"], page')
    BY <1>2, <1>3, <1>6, PageKept
  <2>3. QED
    BY <1>1, <1>5, <2>1, <2>2, StreamsMove DEF StreamsOk, Inv
<1>7. CASE k = "sheet"
  <2> DEFINE frames == old.frames
  <2>1. frames \in Seq(Sheets(sc, world)) /\ frames # <<>>
    BY <1>2, <1>3, <1>7 DEF StreamOk
  <2>2. Head(frames) \in Sheets(sc, world) /\ Tail(frames) \in Seq(Sheets(sc, world))
    BY <2>1
  <2>3. page' = Framed(page, Head(frames))
    BY <1>2, <1>7 DEF Framed
  <2>4. Fits(sc, world, Head(frames)) /\ WorldOk(sc, world)
    BY <2>2 DEF Sheets, Inv
  <2>5. PageOk(sc, world, page') /\ page'.sheet = Head(frames) /\ page'.seen >= Head(frames).ver
    BY <1>3, <2>3, <2>4, FrameShown
  <2>6. ASSUME old.es = "open", Tail(frames) = <<>> PROVE Delivered(s, page')
    <3>1. Head(frames) = frames[Len(frames)]
      <4>1. Len(Tail(frames)) = Len(frames) - 1 /\ Len(Tail(frames)) = 0
        BY <2>1, <2>6, HeadTailProperties
      <4>2. Len(frames) = 1 /\ Head(frames) = frames[1]
        BY <2>1, <4>1
      <4>3. QED
        BY <4>2
    <3>2. Head(frames) = s.sent
      BY <1>3, <1>4, <1>7, <2>1, <2>6, <3>1 DEF StreamOk
    <3>3. s.sent.ver \in Nat
      BY <2>4, <3>2 DEF Fits
    <3>4. QED
      BY <2>5, <3>2, <3>3 DEF Delivered
  <2>7. Tail(frames) # <<>> => Tail(frames)[Len(Tail(frames))] = frames[Len(frames)]
    BY <2>1
  <2>8. StreamOk(sc, world, s, page')
    BY <1>3, <1>4, <1>7, <2>1, <2>2, <2>6, <2>7 DEF StreamOk
  <2>9. streams'["sheet"] = s
    BY <1>2, <1>3, <1>7 DEF Kinds
  <2>10. QED
    BY <1>1, <1>5, <2>5, <2>8, <2>9, StreamsMove DEF StreamsOk, Inv
<1>8. QED
  BY <1>6, <1>7 DEF Kinds

-----------------------------------------------------------------------------
\* Answers

\* Nothing is left of a page one leaves.
LEMMA LeaveOk ==
  ASSUME Inv, Leave, UNCHANGED <<sc, world>>
  PROVE  Inv'
<1> DEFINE p == [page EXCEPT !.at = "join"]
<1>1. DOMAIN p = DOMAIN page /\ p.sheet = page.sheet /\ p.seen = page.seen
  BY DEF Inv, PageOk
<1>2. page' = p
  BY DEF Leave
<1> HIDE DEF p
<1>3. PageOk(sc, world, page')
  BY <1>1, <1>2 DEF Inv, PageOk
<1>4. StreamsOk(sc, world, streams', page')
  BY FreshStreams DEF Leave, StreamsOk, Kinds
<1>5. AnswersOk(sc, world, fetches')
  BY DEF Leave, AnswersOk
<1>6. CallsOk(sc, world, calls')
  BY DEF Leave, CallsOk
<1>7. UiOk(sc, ui')
  BY DEF Leave, UiOk, Closed
<1>8. QED
  BY <1>3, <1>4, <1>5, <1>6, <1>7 DEF Inv

\* What an answer does to the page: it brings a sheet, takes it, or neither.
LEMMA AnswerOk ==
  ASSUME Inv, NEW q,
         \/ \E s : Fits(sc, world, s) /\ q = Brought(page, s)
         \/ q = showNotLinked(page) \/ (\E e : q = [page EXCEPT !.encounter = e]) \/ q = page
  PROVE  PageOk(sc, world, q) /\ StreamsOk(sc, world, streams, q)
<1>1. PageOk(sc, world, page) /\ WorldOk(sc, world) /\ StreamOk(sc, world, streams["sheet"], page)
  BY DEF Inv, StreamsOk
<1>2. CASE \E s : Fits(sc, world, s) /\ q = Brought(page, s)
  <2>1. PICK s : Fits(sc, world, s) /\ q = Brought(page, s)
    BY <1>2
  <2>2. PageOk(sc, world, q) /\ StreamOk(sc, world, streams["sheet"], q)
    BY <1>1, <2>1, AnswerShown
  <2>3. QED
    BY <2>2 DEF Inv, StreamsOk
<1>3. CASE q = showNotLinked(page) \/ (\E e : q = [page EXCEPT !.encounter = e]) \/ q = page
  <2>1. PageOk(sc, world, q) /\ StreamOk(sc, world, streams["sheet"], q)
    BY <1>1, <1>3, PageKept
  <2>2. QED
    BY <2>1 DEF Inv, StreamsOk
<1>4. QED
  BY <1>2, <1>3

\* A read of the sheet, from the character to the page.
LEMMA FetchOk ==
  ASSUME Inv, ServeFetch \/ FetchArrives
  PROVE  Inv'
<1>1. CASE ServeFetch
  <2>1. UNCHANGED <<sc, world, calls, ui, page, streams>>
    BY <1>1 DEF ServeFetch, network
  <2>2. PICK answer : fetches' = [asked |-> fetches.asked - 1,
                        answers |-> fetches.answers \cup {[status |-> answer, sheet |-> SheetOf(world)]}]
    BY <1>1 DEF ServeFetch
  <2>3. AnswersOk(sc, world, fetches')
    BY <2>2, Present DEF AnswersOk, Inv
  <2>4. QED
    BY <2>1, <2>3 DEF Inv
<1>2. CASE FetchArrives
  <2>1. PICK answer \in fetches.answers :
          /\ IF answer.status = "unauthorized" THEN Leave
             ELSE /\ fetches' = [fetches EXCEPT !.answers = @ \ {answer}]
                  /\ page' = CASE answer.status = "ok" -> applySheet(page, answer.sheet, FALSE)
                               [] answer.status = "unlinked" -> showNotLinked(page)
                               [] OTHER -> page
                  /\ UNCHANGED <<streams, calls, ui, overlay>>
          /\ UNCHANGED <<sc, world, online, news, left>>
    BY <1>2 DEF FetchArrives
  <2>2. CASE answer.status = "unauthorized"
    BY <2>1, <2>2, LeaveOk
  <2>3. CASE answer.status # "unauthorized"
    <3>1. Fits(sc, world, answer.sheet)
      BY DEF Inv, AnswersOk
    <3>2. \/ page' = Brought(page, answer.sheet)
          \/ page' = showNotLinked(page) \/ page' = page
      BY <2>1, <2>3 DEF Brought
    <3>3. PageOk(sc, world, page') /\ StreamsOk(sc, world, streams, page')
      BY <3>1, <3>2, AnswerOk
    <3>4. AnswersOk(sc, world, fetches')
      BY <2>1, <2>3 DEF Inv, AnswersOk
    <3>5. QED
      BY <2>1, <2>3, <3>3, <3>4, StreamsMove
  <2>4. QED
    BY <2>2, <2>3
<1>3. QED
  BY <1>1, <1>2

\* The gateway answers a request, and may have written.
LEMMA ServeOk ==
  ASSUME Inv, NEW slot \in sc.slots, Serve(slot)
  PROVE  Inv'
<1>1. UNCHANGED <<sc, page, streams, fetches, ui>>
  BY DEF Serve, network
<1> DEFINE Written(status, written) ==
             LET after == [world EXCEPT !.ver = @ + written]
             IN /\ world' = after
                /\ calls' = [calls EXCEPT
                     ![slot].stage = "answered", ![slot].status = status,
                     ![slot].sheet = IF slot = "hp" THEN Roster(after.combat) ELSE SheetOf(after)]
<1>0. PICK status : \E written \in {0, 1} : Written(status, written)
  <2> DEFINE Faults(status) == IF status \in {"rolled", "done"} THEN online /\ UNCHANGED left
               ELSE IF online THEN Spend("faults") ELSE status = "failed" /\ UNCHANGED left
             Writes(status) == IF slot \notin SheetSlots THEN {0} ELSE IF status \in {"rolled", "done"} THEN {1}
                               ELSE IF status = "failed" THEN {0, 1} ELSE {0}
  <2>1. \E status \in {"rolled", "done"} \cup Statuses(slot) :
          Faults(status) /\ \E written \in Writes(status) : Written(status, written)
    BY Zenon DEF Serve
  <2>2. \A status : Writes(status) \subseteq {0, 1}
    OBVIOUS
  <2> HIDE DEF Written, Writes, Faults
  <2>3. QED
    BY <2>1, <2>2, Zenon
<1>2. PICK written \in {0, 1} : Written(status, written)
  BY <1>0
<1>3. calls[slot] # None /\ DOMAIN calls = sc.slots
  BY DEF Serve, Inv, CallsOk
<1>4. DOMAIN world = {"ver", "offers", "combat"} /\ world.ver \in Nat /\ Fits(sc, world, SheetOf(world))
  BY DEF Inv, WorldOk, Fits, SheetOf
<1>5. DOMAIN world' = DOMAIN world /\ world'.ver = world.ver + written /\ world'.offers = world.offers
  BY <1>2, <1>4
<1>6. world'.ver \in Nat /\ world'.ver >= world.ver
  BY <1>4, <1>5
<1>7. WorldOk(sc, world') /\ Fits(sc, world', SheetOf(world'))
  BY <1>4, <1>5, <1>6 DEF WorldOk, Fits, SheetOf
<1>8. \A s : Fits(sc, world, s) => Fits(sc, world', s)
  BY <1>5, <1>6, FitsLater DEF Inv
<1>9. CallsOk(sc, world', calls')
  <2>1. DOMAIN calls' = sc.slots
    BY <1>2, <1>3
  <2>2. ASSUME NEW j \in sc.slots, calls'[j] # None PROVE CallOk(sc, world', j, calls'[j])
    <3>1. CASE j = slot
      <4>1. CallOk(sc, world, slot, calls[slot])
        BY <1>3 DEF Inv, CallsOk
      <4>2. PICK sheet : calls' = [calls EXCEPT ![slot].stage = "answered", ![slot].status = status,
                                                ![slot].sheet = sheet]
                         /\ (slot # "hp" => sheet = SheetOf(world'))
        BY <1>2
      <4>3. /\ DOMAIN calls'[slot] = DOMAIN calls[slot]
            /\ calls'[slot].sheet = sheet /\ calls'[slot].intent = calls[slot].intent
        BY <1>3, <4>1, <4>2 DEF CallOk
      <4>4. QED
        BY <1>7, <3>1, <4>1, <4>2, <4>3 DEF CallOk, SheetSlots
    <3>2. CASE j # slot
      <4>1. calls'[j] = calls[j]
        BY <1>2, <1>3, <3>2
      <4>2. CallOk(sc, world, j, calls[j])
        BY <2>2, <4>1 DEF Inv, CallsOk
      <4>3. QED
        BY <1>8, <4>1, <4>2 DEF CallOk
    <3>3. QED
      BY <3>1, <3>2
  <2>3. QED
    BY <2>1, <2>2 DEF CallsOk
<1>10. world'.ver = world.ver => world'.offers = world.offers
  BY <1>5
<1>11. QED
  BY <1>1, <1>6, <1>7, <1>9, <1>10, WorldMoves

\* An answer arrives.
LEMMA WellOk ==
  ASSUME Inv, NEW slot \in sc.slots, ArrivesWell(slot)
  PROVE  Inv'
<1>1. UNCHANGED <<sc, world, streams, fetches, ui>>
  BY DEF ArrivesWell, network
<1>2. calls[slot] # None /\ calls[slot].status # "" /\ CallOk(sc, world, slot, calls[slot])
  BY DEF ArrivesWell, Inv, CallsOk
<1>3. \/ slot \in SheetSlots /\ page' = Brought(page, calls[slot].sheet)
      \/ page' = [page EXCEPT !.encounter = calls[slot].sheet] \/ page' = page
  <2>1. CASE slot \in SheetSlots
    BY <2>1 DEF ArrivesWell, Brought, SheetSlots
  <2>2. CASE slot = "hp"
    BY <2>2 DEF ArrivesWell, SheetSlots
  <2>3. CASE slot \notin SheetSlots /\ slot # "hp"
    BY <2>3 DEF ArrivesWell
  <2>4. QED
    BY <2>1, <2>2, <2>3
<1>4. slot \in SheetSlots => Fits(sc, world, calls[slot].sheet)
  BY <1>2 DEF CallOk
<1>5. PageOk(sc, world, page') /\ StreamsOk(sc, world, streams, page')
  BY <1>3, <1>4, AnswerOk
<1>6. \/ calls' = [calls EXCEPT ![slot] = None]
      \/ calls' = [calls EXCEPT ![slot].stage = "sent", ![slot].status = "", ![slot].again = FALSE]
  BY DEF ArrivesWell, Release
<1>7. DOMAIN calls' = DOMAIN calls /\ \A j \in sc.slots : j # slot => calls'[j] = calls[j]
  BY <1>6 DEF Inv, CallsOk
<1>8. calls'[slot] # None => CallOk(sc, world, slot, calls'[slot])
  <2>1. CASE calls' = [calls EXCEPT ![slot] = None]
    BY <2>1 DEF Inv, CallsOk
  <2>2. CASE calls' = [calls EXCEPT ![slot].stage = "sent", ![slot].status = "", ![slot].again = FALSE]
    <3>1. slot \in DOMAIN calls
      BY DEF Inv, CallsOk
    <3>2. /\ DOMAIN calls'[slot] = DOMAIN calls[slot] /\ calls'[slot].status = ""
          /\ calls'[slot].intent = calls[slot].intent
      BY <1>2, <2>2, <3>1 DEF CallOk
    <3>3. QED
      BY <1>2, <3>2 DEF CallOk
  <2>3. QED
    BY <1>6, <2>1, <2>2
<1>9. CallsOk(sc, world, calls')
  BY <1>7, <1>8 DEF CallsOk, Inv
<1>10. QED
  BY <1>1, <1>5, <1>9 DEF Inv

\* An error arrives, some with the sheet as it is.
LEMMA BadlyOk ==
  ASSUME Inv, NEW slot \in sc.slots, ArrivesBadly(slot)
  PROVE  Inv'
<1>1. UNCHANGED <<sc, world>> /\ calls[slot] # None /\ calls[slot].status \in Statuses(slot)
      /\ CallOk(sc, world, slot, calls[slot])
  BY DEF ArrivesBadly, Inv, CallsOk
<1>2. CASE calls[slot].status = "unauthorized" /\ slot \in Rejoins
  BY <1>1, <1>2, LeaveOk DEF ArrivesBadly
<1>3. CASE ~(calls[slot].status = "unauthorized" /\ slot \in Rejoins)
  <2>1. /\ page' = CASE calls[slot].status = "conflict" -> applySheet(page, calls[slot].sheet, FALSE)
                     [] calls[slot].status = "unlinked" -> showNotLinked(page)
                     [] OTHER -> page
        /\ fetches' = IF calls[slot].status = "refused" THEN AskSheet(fetches) ELSE fetches
        /\ Release(slot) /\ UNCHANGED <<streams, ui>>
    BY <1>3 DEF ArrivesBadly
  <2>2. calls[slot].status = "conflict" => Fits(sc, world, calls[slot].sheet)
    BY <1>1 DEF Statuses, SheetSlots, CallOk
  <2>3. \/ calls[slot].status = "conflict" /\ page' = Brought(page, calls[slot].sheet)
        \/ page' = showNotLinked(page) \/ page' = page
    BY <2>1 DEF Brought
  <2>4. PageOk(sc, world, page') /\ StreamsOk(sc, world, streams, page')
    BY <2>2, <2>3, AnswerOk
  <2>5. AnswersOk(sc, world, fetches')
    BY <2>1 DEF Inv, AnswersOk, AskSheet
  <2>6. CallsOk(sc, world, calls')
    BY <2>1 DEF Inv, CallsOk, Release
  <2>7. QED
    BY <1>1, <2>1, <2>4, <2>5, <2>6 DEF Inv
<1>4. QED
  BY <1>2, <1>3

-----------------------------------------------------------------------------
\* The table

\* The GM edits the character, or runs the fight.
LEMMA TableOk ==
  ASSUME Inv, GmEdits \/ FightMoves
  PROVE  Inv'
<1>1. UNCHANGED <<sc, page, streams, fetches, calls, ui>>
  BY DEF GmEdits, FightMoves, network, requests
<1>2. world.ver \in Nat /\ DOMAIN world = {"ver", "offers", "combat"} /\ Fits(sc, world, SheetOf(world))
  BY DEF Inv, WorldOk, Fits, SheetOf
<1>3. /\ DOMAIN world' = DOMAIN world
      /\ \/ world'.ver = world.ver /\ world'.offers = world.offers
         \/ /\ world'.ver = world.ver + 1
            /\ sc.offers \ sc.vanishing \subseteq world'.offers /\ world'.offers \subseteq sc.offers
  <2>1. CASE GmEdits
    <3>1. PICK offers \in {sc.offers} \cup {sc.offers \ {a} : a \in sc.vanishing} :
            world' = [world EXCEPT !.ver = @ + 1, !.offers = offers]
      BY <2>1 DEF GmEdits
    <3>2. sc.offers \ sc.vanishing \subseteq offers /\ offers \subseteq sc.offers
      OBVIOUS
    <3>3. QED
      BY <1>2, <3>1, <3>2
  <2>2. CASE FightMoves
    BY <1>2, <2>2 DEF FightMoves
  <2>3. QED
    BY <2>1, <2>2
<1>4. world'.ver \in Nat /\ world'.ver >= world.ver /\ (world'.ver = world.ver => world'.offers = world.offers)
  BY <1>2, <1>3
<1>5. WorldOk(sc, world')
  BY <1>2, <1>3, <1>4 DEF WorldOk, Fits, SheetOf
<1>6. CallsOk(sc, world', calls')
  <2>1. \A s : Fits(sc, world, s) => Fits(sc, world', s)
    BY <1>4, FitsLater DEF Inv
  <2>2. QED
    BY <1>1, <2>1 DEF CallsOk, CallOk, Inv
<1>7. QED
  BY <1>1, <1>4, <1>5, <1>6, WorldMoves

\* The page starts with a cached sheet or with none.
LEMMA InitOk == Init => Inv
<1> SUFFICES ASSUME Init PROVE Inv
  OBVIOUS
<1>1. /\ sc \in Scenarios /\ sc.vanishing \subseteq sc.offers
      /\ DOMAIN world = {"ver", "offers", "combat"} /\ world.ver = 1 /\ world.offers = sc.offers
  BY PageAssumption DEF Init
<1>2. WorldOk(sc, world)
  BY <1>1 DEF WorldOk, Fits, SheetOf
<1>3. PageOk(sc, world, page)
  <2>1. /\ DOMAIN page = {"at", "sheet", "encounter", "seen", "overtaken"} /\ page.seen = 0
        /\ page.sheet \in {None, [ver |-> 0, offers |-> sc.offers]}
    BY DEF Init
  <2>2. QED
    BY <1>1, <2>1 DEF PageOk, Fits
<1>4. StreamsOk(sc, world, streams, page)
  BY FreshStreams DEF Init, StreamsOk, Kinds
<1>5. AnswersOk(sc, world, fetches) /\ CallsOk(sc, world, calls) /\ UiOk(sc, ui)
  BY DEF Init, AnswersOk, CallsOk, UiOk, Closed
<1>6. QED
  BY <1>1, <1>2, <1>3, <1>4, <1>5 DEF Inv

\* Every step keeps the invariant.
LEMMA StepOk == Inv /\ [Next]_vars => Inv'
<1> SUFFICES ASSUME Inv, [Next]_vars PROVE Inv'
  OBVIOUS
<1>1. CASE Player
  <2>1. ASSUME NEW a \in ActionIds, TapAction(a) PROVE Inv'
    BY <2>1, TapActionOk
  <2>2. CASE reload
    BY <2>2, Reconnected
  <2>3. CASE PickTokens \/ PickActor
    BY <2>3, PickOk
  <2>4. CASE SubmitSheet \/ CloseDialog
    BY <2>4, SheetOk
  <2>5. QED
    BY <1>1, <2>1, <2>2, <2>3, <2>4, Simple DEF Player
<1>2. CASE Network
  <2>1. CASE NetworkFlips
    BY <2>1 DEF NetworkFlips, requests, Inv
  <2>2. QED
    BY <1>2, <2>1, TableOk, Reconnected DEF Network
<1>3. CASE Machine
  <2>1. CASE OverlayTimer
    BY <2>1 DEF OverlayTimer, network, requests, Inv
  <2>2. CASE Frames
    BY <2>2, Sends, FrameOk, Reconnected DEF Frames
  <2>3. CASE Events
    BY <2>3, Reconnected DEF Events
  <2>4. CASE Answers
    BY <2>4, FetchOk, ServeOk, WellOk, BadlyOk DEF Answers
  <2>5. QED
    BY <1>3, <2>1, <2>2, <2>3, <2>4 DEF Machine
<1>4. CASE UNCHANGED vars
  BY <1>4 DEF vars, Inv
<1>5. QED
  BY <1>1, <1>2, <1>3, <1>4 DEF Next

(***************************************************************************)
(* What the properties of the page rest on: every sheet under way is one   *)
(* the character has had, and the dialogs agree with one another.          *)
(***************************************************************************)
THEOREM SheetsFit == Spec => []Inv
BY InitOk, StepOk, PTL DEF Spec

(***************************************************************************)
(* Once the stream has delivered, the page shows the character as it is,   *)
(* or knows that an older answer came in after it (SettledIsFresh), for    *)
(* every number of taps, edits, breaks and faults.                         *)
(***************************************************************************)
THEOREM PageIsFresh == Spec => []SettledIsFresh
<1>1. Inv => SettledIsFresh
  <2> SUFFICES ASSUME Inv, UpToDate("sheet"), page.sheet # None
               PROVE  page.seen = world.ver /\ (page.sheet = SheetOf(world) \/ page.overtaken)
    BY DEF SettledIsFresh
  <2>1. Delivered(streams["sheet"], page) /\ streams["sheet"].sent = SheetOf(world)
    BY DEF Inv, StreamsOk, StreamOk, UpToDate, Truth
  <2>2. world.ver \in Nat /\ SheetOf(world).ver = world.ver
    BY DEF Inv, WorldOk, Fits, SheetOf
  <2>3. page.seen = world.ver
    BY <2>1, <2>2 DEF Inv, PageOk, Delivered
  <2>4. page.overtaken \/ page.sheet.ver >= world.ver
    BY <2>1, <2>2 DEF Delivered
  <2>5. ASSUME page.sheet.ver >= world.ver PROVE page.sheet = SheetOf(world)
    BY <2>2, <2>5 DEF Inv, PageOk, Fits, SheetOf
  <2>6. QED
    BY <2>3, <2>4, <2>5
<1>2. QED
  BY <1>1, SheetsFit, PTL

(***************************************************************************)
(* The targets that go with an action were picked for it, or for one the   *)
(* GM has taken away (PickedForThis): onCombatTargetPick, onTargetPick,    *)
(* onActionSubmit and closeActionSheet, in any order.                      *)
(***************************************************************************)
THEOREM TargetsArePicked == Spec => []PickedForThis
<1>1. Inv => PickedForThis
  BY DEF Inv, CallsOk, CallOk, Own, PickedForThis
<1>2. QED
  BY <1>1, SheetsFit, PTL

-----------------------------------------------------------------------------
\* The fight that is on is one of the scenario's.
Fought == sc \in Scenarios /\ DOMAIN world = {"ver", "offers", "combat"} /\ world.combat \in sc.combats

LEMMA FoughtNext == Fought /\ [Next]_vars => Fought'
<1> SUFFICES ASSUME Fought, [Next]_vars PROVE Fought'
  OBVIOUS
<1>1. CASE UNCHANGED <<sc, world>>
  BY <1>1 DEF Fought
<1>2. CASE \E slot \in sc.slots : Serve(slot)
  <2>1. sc' = sc /\ \E n \in {0, 1} : world' = [world EXCEPT !.ver = @ + n]
    BY <1>2 DEF Serve
  <2>2. PICK n \in {0, 1} : world' = [world EXCEPT !.ver = @ + n]
    BY <2>1
  <2>3. QED
    BY <2>1, <2>2 DEF Fought
<1>3. CASE GmEdits
  <2>1. sc' = sc /\ \E offers : world' = [world EXCEPT !.ver = @ + 1, !.offers = offers]
    BY <1>3 DEF GmEdits
  <2>2. PICK offers : world' = [world EXCEPT !.ver = @ + 1, !.offers = offers]
    BY <2>1
  <2>3. QED
    BY <2>1, <2>2 DEF Fought
<1>4. CASE FightMoves
  <2>1. sc' = sc /\ \E c \in sc.combats \ {world.combat} : world' = [world EXCEPT !.combat = c]
    BY <1>4 DEF FightMoves
  <2>2. PICK c \in sc.combats : world' = [world EXCEPT !.combat = c]
    BY <2>1
  <2>3. QED
    BY <2>1, <2>2 DEF Fought
<1>5. QED
  <2>1. CASE Player
    <3>1. UNCHANGED <<sc, world>>
      BY <2>1 DEF Player, reload, PickTokens, PickActor, SubmitSheet, CloseDialog, Answer, submitIntent,
         submitBoxChange, onPoolSubmit, onRest, onCustomItemSubmit, onLibraryAdd, onRemove, onMove,
         onMoveSubmit, onEndTurn, applyCombatantHp, roll, TapAction, Tap
    <3>2. QED
      BY <1>1, <3>1
  <2>2. CASE Network
    <3>1. UNCHANGED <<sc, world>> \/ GmEdits \/ FightMoves
      BY <2>2 DEF Network, NetworkFlips, Breaks
    <3>2. QED
      BY <1>1, <1>3, <1>4, <3>1
  <2>3. CASE Machine
    <3>1. UNCHANGED <<sc, world>> \/ \E slot \in sc.slots : Serve(slot)
      BY <2>3 DEF Machine, Frames, Opens, Pushes, FrameArrives, Retry, Events, onOnline, onOffline, Answers,
         ServeFetch, FetchArrives, ArrivesWell, ArrivesBadly, OverlayTimer
    <3>2. QED
      BY <1>1, <1>2, <3>1
  <2>4. QED
    BY <1>1, <2>1, <2>2, <2>3 DEF Next, vars

\* What is shown of a fight: the entries in order, the turn where it is.
LEMMA RosterInOrder ==
  ASSUME NEW m, Roll(m.list), DOMAIN m = {"id", "round", "turn", "list", "hidden"},
         m.turn \in Nat \cup {None}, \A i, j \in DOMAIN m.list : m.list[i] = m.list[j] => i = j
  PROVE  LET shown == Shown(m)
             turn == TurnPointer(m)
             open == TurnPointer([m EXCEPT !.hidden = {}])
         IN /\ Entries(shown) = Entries(m.list) \ m.hidden
            /\ \A i, j \in DOMAIN shown : i < j =>
                 \/ Initiative[shown[i]] > Initiative[shown[j]]
                 \/ /\ Initiative[shown[i]] = Initiative[shown[j]]
                    /\ Position(m.list, shown[i]) < Position(m.list, shown[j])
            /\ turn \in Entries(shown) \cup {None}
            /\ open \notin m.hidden => turn = open
<1> DEFINE list == m.list
           shown == Shown(m)
           acting == Sorted(list)[m.turn + 1]
<1>1. Entries(shown) = Entries(list) \ m.hidden
  BY ShownEntries
<1>2. PICK p : Shows(p, shown, list, m.hidden)
  BY ShownPicks
<1>3. \A c, i : i \in DOMAIN list /\ list[i] = c => Position(list, c) = i
  BY DEF Position
<1>4. /\ DOMAIN shown = 1..Len(shown) /\ p \in [1..Len(shown) -> DOMAIN list]
      /\ \A k \in 1..Len(shown) : shown[k] = list[p[k]]
      /\ \A k, l \in 1..Len(shown) : k < l => Precedes(list, p[k], p[l])
  <2> HIDE DEF shown, list
  <2>1. QED
    BY <1>2 DEF Shows, Roll
<1>5. ASSUME NEW i \in DOMAIN shown, NEW j \in DOMAIN shown, i < j
      PROVE  \/ Initiative[shown[i]] > Initiative[shown[j]]
             \/ /\ Initiative[shown[i]] = Initiative[shown[j]]
                /\ Position(list, shown[i]) < Position(list, shown[j])
  <2> HIDE DEF shown, list
  <2>1. i \in 1..Len(shown) /\ j \in 1..Len(shown) /\ Precedes(list, p[i], p[j])
    BY <1>4, <1>5
  <2>2. p[i] \in DOMAIN list /\ p[j] \in DOMAIN list /\ shown[i] = list[p[i]] /\ shown[j] = list[p[j]]
    BY <1>4, <2>1
  <2>3. Position(list, shown[i]) = p[i] /\ Position(list, shown[j]) = p[j]
    BY <1>3, <2>2
  <2>4. QED
    BY <2>1, <2>2, <2>3 DEF Precedes
<1>6. ASSUME m.turn # None, m.turn < Len(list)
      PROVE  acting \in Entries(list)
  <2>1. m.turn + 1 \in DOMAIN list /\ DOMAIN Sorted(list) = DOMAIN list
    BY <1>6, SortedPermutes DEF Roll
  <2>2. Place(list, m.turn + 1) \in DOMAIN list /\ acting = list[Place(list, m.turn + 1)]
    BY <2>1, SortedPermutes
  <2>3. QED
    BY <2>2 DEF Entries
<1>7. TurnPointer(m) = IF m.turn # None /\ m.turn < Len(list) /\ acting \notin m.hidden THEN acting ELSE None
  BY DEF TurnPointer
<1>8. TurnPointer([m EXCEPT !.hidden = {}]) = IF m.turn # None /\ m.turn < Len(list) THEN acting ELSE None
  <2>1. /\ [m EXCEPT !.hidden = {}].turn = m.turn /\ [m EXCEPT !.hidden = {}].list = list
        /\ [m EXCEPT !.hidden = {}].hidden = {}
    OBVIOUS
  <2>2. QED
    BY <2>1 DEF TurnPointer
<1> HIDE DEF acting, shown
<1>9. TurnPointer(m) \in Entries(shown) \cup {None}
  BY <1>1, <1>6, <1>7
<1>10. TurnPointer([m EXCEPT !.hidden = {}]) \notin m.hidden => TurnPointer(m) = TurnPointer([m EXCEPT !.hidden = {}])
  BY <1>7, <1>8
<1>11. QED
  BY <1>1, <1>5, <1>9, <1>10 DEF shown

\* The page shows the visible combatants in the order of the fight, and the
\* turn where it is (view), for every set of combatants, list and initiative.
THEOREM FightIsShownInOrder == Spec => []ShownInOrder
<1>1. Init => Fought
  BY DEF Init, Fought
<1>2. Fought => ShownInOrder
  <2> SUFFICES ASSUME Fought, NEW k \in 1..Len(streams["combat"].frames),
                      streams["combat"].frames[k].active,
                      streams["combat"].frames[k] = Roster(world.combat)
               PROVE  LET frame == streams["combat"].frames[k]
                          combat == world.combat
                          open == TurnPointer([combat EXCEPT !.hidden = {}])
                      IN /\ Entries(frame.shown) = Entries(combat.list) \ combat.hidden
                         /\ \A i, j \in DOMAIN frame.shown : i < j =>
                              \/ Initiative[frame.shown[i]] > Initiative[frame.shown[j]]
                              \/ /\ Initiative[frame.shown[i]] = Initiative[frame.shown[j]]
                                 /\ Position(combat.list, frame.shown[i]) < Position(combat.list, frame.shown[j])
                         /\ frame.turn \in Entries(frame.shown) \cup {None}
                         /\ open \notin combat.hidden => frame.turn = open
    BY DEF ShownInOrder
  <2> DEFINE frame == streams["combat"].frames[k]
             m == world.combat
  <2>1. IsActive(m) /\ frame.shown = Shown(m) /\ frame.turn = TurnPointer(m)
    <3>1. CASE IsActive(m)
      <4>1. frame = [active |-> TRUE, turn |-> TurnPointer(m), shown |-> Shown(m)]
        BY <3>1 DEF Roster
      <4>2. QED
        BY <3>1, <4>1
    <3>2. CASE ~IsActive(m)
      <4>1. frame = [active |-> FALSE, turn |-> None, shown |-> <<>>]
        BY <3>2 DEF Roster
      <4>2. QED
        BY <4>1
    <3>3. QED
      BY <3>1, <3>2
  <2>2. /\ Roll(m.list) /\ DOMAIN m = {"id", "round", "turn", "list", "hidden"}
        /\ m.turn \in Nat \cup {None} /\ \A i, j \in DOMAIN m.list : m.list[i] = m.list[j] => i = j
    BY <2>1, PageAssumption DEF Fought, Roll, IsActive
  <2> HIDE DEF m
  <2>3. /\ Entries(Shown(m)) = Entries(m.list) \ m.hidden
        /\ \A i, j \in DOMAIN Shown(m) : i < j =>
             \/ Initiative[Shown(m)[i]] > Initiative[Shown(m)[j]]
             \/ /\ Initiative[Shown(m)[i]] = Initiative[Shown(m)[j]]
                /\ Position(m.list, Shown(m)[i]) < Position(m.list, Shown(m)[j])
        /\ TurnPointer(m) \in Entries(Shown(m)) \cup {None}
        /\ TurnPointer([m EXCEPT !.hidden = {}]) \notin m.hidden
              => TurnPointer(m) = TurnPointer([m EXCEPT !.hidden = {}])
    BY <2>2, RosterInOrder
  <2>4. /\ Entries(frame.shown) = Entries(m.list) \ m.hidden
        /\ \A i, j \in DOMAIN frame.shown : i < j =>
             \/ Initiative[frame.shown[i]] > Initiative[frame.shown[j]]
             \/ /\ Initiative[frame.shown[i]] = Initiative[frame.shown[j]]
                /\ Position(m.list, frame.shown[i]) < Position(m.list, frame.shown[j])
        /\ frame.turn \in Entries(frame.shown) \cup {None}
        /\ TurnPointer([m EXCEPT !.hidden = {}]) \notin m.hidden
              => frame.turn = TurnPointer([m EXCEPT !.hidden = {}])
    <3> HIDE DEF frame
    <3>1. QED
      BY <2>1, <2>3
  <2>5. QED
    BY <2>4 DEF m
<1>3. QED
  BY <1>1, <1>2, FoughtNext, PTL DEF Spec
=============================================================================
