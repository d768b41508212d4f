------------------------------- MODULE Live --------------------------------
(***************************************************************************)
(* The live-update layer of the gateway: apps/gateway/src/live.ts          *)
(* (LiveManager, ActorWatcher) together with the SSE route of app.ts that  *)
(* attaches browsers to it.                                                *)
(*                                                                         *)
(* One ActorWatcher per watched actor re-fetches the sheet when the shared *)
(* relay hook stream announces a change (or, while streamUp is false, on a *)
(* timer) and fans it out to its clients.  Every `await` of the code is a  *)
(* point where other callbacks run, so each handler is cut there: a fetch  *)
(* is sent, read at Foundry, and answered in three separate steps.         *)
(*                                                                         *)
(* Outside src/apps/gateway and therefore modelled by what the gateway     *)
(* relies on: the Foundry world (doc, torn, the hooks an edit fires), the  *)
(* relay connection (sLoop, transit) and the browsers.                     *)
(***************************************************************************)
EXTENDS Naturals, FiniteSets

CONSTANTS
    Actors,        \* actor ids
    Clients,       \* browser connections that may open /api/actors/:id/events
    Watchers,      \* pool of ActorWatcher objects, reused once garbage
    Streams,       \* pool of AbortControllers, each with its two loops
    SectionIds,    \* section ids a rebuilt sheet may have
    CoreSections,  \* the sections that are not derived from embedded items
    Hps,           \* the rest of a sheet's content
    None,          \* null
    BulkEdits,     \* BOOLEAN: may one edit change several sections at once?
    TornReads,     \* BOOLEAN: can a read overlap an unfinished item write?
    FetchFaults,   \* BOOLEAN: can a fetch fail?
    RelayDrops,    \* BOOLEAN: can the relay refuse, break or close a stream?
    IdentityChanges,  \* BOOLEAN: can the relay identity change?
    AppCloses,     \* BOOLEAN: can the app be closed?
    MaxEdits       \* bound: edits of the world

MIN_VANISHED_SECTIONS == 2

Sheet == [secs : SUBSET SectionIds, hp : Hps]

ASSUME LiveAssumption ==
    /\ IsFiniteSet(SectionIds) /\ CoreSections \subseteq SectionIds
    /\ {BulkEdits, TornReads, FetchFaults, RelayDrops, IdentityChanges, AppCloses} \subseteq BOOLEAN
    /\ MaxEdits \in Nat /\ Hps # {}
    /\ Watchers # {} /\ Streams # {}
    /\ None \notin Actors \cup Watchers \cup Streams \cup Sheet

VARIABLES
    doc, torn,                 \* Foundry: the sheet the actor's document renders to; items mid-write?
    watcherOf,                 \* LiveManager.watchers: actor -> watcher or None
    wActor, wStopped,          \* per watcher: its actor (None: unused object), stopped
    wLast, wSuspect,           \* lastJson (and with it lastSectionIds), suspectJson
    wFetch, wAnswer, wPending, \* refreshing with its fetch, the fetched json, pendingRefresh
    streamAc, streamUp,        \* LiveManager.streamAc, LiveManager.streamUp
    sActive,                   \* per controller: created and not aborted
    sLoop, sPoll, sWait,       \* where streamLoop and pollLoop stand; refreshes pollLoop awaits
    transit,                   \* hook events the relay has sent on a subscription and we not yet read
    cPhase, cActor, cView,     \* per connection: where the route stands, its actor, last sheet written
    cWatcher,                  \* the watcher a connection's detach closure captured
    closed,                    \* the app is closing
    edits,                     \* edits so far, for the bound
    missed                     \* history: the last read failed or was partial, or the world changed
                               \* after it with no event for us

foundryVars == <<doc, torn, edits>>
watcherVars == <<watcherOf, wActor, wStopped, wLast, wSuspect, wFetch, wAnswer, wPending>>
streamVars  == <<streamAc, streamUp, sActive, sLoop, sPoll, sWait>>
clientVars  == <<cPhase, cActor, cView, cWatcher, closed>>
vars == <<foundryVars, watcherVars, streamVars, clientVars, transit, missed>>

----------------------------------------------------------------------------
(* Helpers of the code.                                                    *)

\* Whole sections vanished at once and none appeared.
IsSuspiciousSectionLoss(prev, next) ==
    /\ next \subseteq prev
    /\ Cardinality(prev \ next) >= MIN_VANISHED_SECTIONS

\* What a read of actor a may return now: the document, a copy without its
\* embedded items while they are being written, or nothing.
ReadResults(a) ==
    {doc[a]} \cup (IF torn[a] THEN {[doc[a] EXCEPT !.secs = @ \cap CoreSections]} ELSE {})
             \cup (IF FetchFaults THEN {None} ELSE {})

ActiveWatchers == {watcherOf[a] : a \in Actors} \ {None}

ClientsOf(w) == {c \in Clients : cWatcher[c] = w}

\* Mutant of Refresh: an event during a fetch is not remembered.
RefreshForgets(W) ==
    /\ wFetch'   = [w \in Watchers |-> IF w \in W /\ wFetch[w] = "none" THEN "sent" ELSE wFetch[w]]
    /\ wPending' = [w \in Watchers |-> IF w \in W THEN FALSE ELSE wPending[w]]

\* refresh() on every watcher of W: a running one only sets pendingRefresh.
Refresh(W) ==
    /\ wFetch'   = [w \in Watchers |-> IF w \in W /\ wFetch[w] = "none" THEN "sent" ELSE wFetch[w]]
    /\ wPending' = [w \in Watchers |-> IF w \in W THEN wFetch[w] # "none" ELSE wPending[w]]

\* A stopped watcher that has no fetch in flight is garbage: its object may
\* be used again.  F gives the fetch state after the step.
Release(W, F) ==
    LET dead == {w \in W : F[w] = "none"} IN
    /\ wActor'   = [w \in Watchers |-> IF w \in dead THEN None ELSE wActor[w]]
    /\ wStopped' = [w \in Watchers |-> (w \in W \/ wStopped[w]) /\ w \notin dead]
    /\ wLast'    = [w \in Watchers |-> IF w \in dead THEN None ELSE wLast[w]]
    /\ wSuspect' = [w \in Watchers |-> IF w \in dead THEN None ELSE wSuspect[w]]

\* The events still in transit on the current stream are lost with it.
LoseTransit ==
    missed' = [a \in Actors |-> missed[a] \/ (streamAc # None /\ transit[streamAc][a] > 0)]

\* ensureStream when no stream exists: both loops start, and streamLoop runs
\* synchronously up to its subscribeHooks call.
EnsureStream(active) ==
    \E s \in Streams :
        /\ sLoop[s] = "idle" /\ sPoll[s] = "idle"
        /\ streamAc' = s
        /\ streamUp' = TRUE
        /\ sActive'  = [active EXCEPT ![s] = TRUE]
        /\ sLoop'    = [sLoop EXCEPT ![s] = "open"]
        /\ sPoll'    = [sPoll EXCEPT ![s] = "delay"]

\* The abort half of restartStream and stopStreamIfIdle.
Aborted == [s \in Streams |-> sActive[s] /\ s # streamAc]

StopStream ==
    /\ streamAc' = None
    /\ streamUp' = FALSE
    /\ sActive'  = Aborted
    /\ LoseTransit
    /\ UNCHANGED <<sLoop, sPoll>>

\* Also a mutant of StopStreamIfIdle: the stream is never stopped.
KeepStream == UNCHANGED <<streamAc, streamUp, sActive, sLoop, sPoll, missed>>

\* stopStreamIfIdle, after the map was changed.
StopStreamIfIdle ==
    IF streamAc # None /\ (\A b \in Actors : watcherOf'[b] = None)
    THEN StopStream ELSE KeepStream

----------------------------------------------------------------------------
Init ==
    /\ doc = [a \in Actors |-> [secs |-> SectionIds, hp |-> CHOOSE h \in Hps : TRUE]]
    /\ torn = [a \in Actors |-> FALSE]
    /\ watcherOf = [a \in Actors |-> None]
    /\ wActor = [w \in Watchers |-> None]
    /\ wStopped = [w \in Watchers |-> FALSE]
    /\ wLast = [w \in Watchers |-> None]
    /\ wSuspect = [w \in Watchers |-> None]
    /\ wFetch = [w \in Watchers |-> "none"]
    /\ wAnswer = [w \in Watchers |-> None]
    /\ wPending = [w \in Watchers |-> FALSE]
    /\ streamAc = None
    /\ streamUp = FALSE
    /\ sActive = [s \in Streams |-> FALSE]
    /\ sLoop = [s \in Streams |-> "idle"]
    /\ sPoll = [s \in Streams |-> "idle"]
    /\ sWait = [s \in Streams |-> {}]
    /\ transit = [s \in Streams |-> [a \in Actors |-> 0]]
    /\ cPhase = [c \in Clients |-> "off"]
    /\ cActor = [c \in Clients |-> None]
    /\ cView = [c \in Clients |-> None]
    /\ cWatcher = [c \in Clients |-> None]
    /\ closed = FALSE
    /\ edits = 0
    /\ missed = [a \in Actors |-> FALSE]

----------------------------------------------------------------------------
(* The Foundry world and the relay's delivery of hooks (external).         *)

\* An edit fires one hook for the actor document, or one for each item that
\* came or went; an item more or less is at most a section more or less.
HooksFired(s, t) ==
    LET n == Cardinality((s.secs \ t.secs) \cup (t.secs \ s.secs)) IN
    IF n > 1 THEN n ELSE 1

\* n hooks of actor a reach the subscription if one is established;
\* otherwise the change goes by unannounced.
Announce(a, n) ==
    IF streamAc # None /\ sLoop[streamAc] = "live"
    THEN /\ transit' = [transit EXCEPT ![streamAc][a] = @ + n]
         /\ UNCHANGED missed
    ELSE /\ missed' = [missed EXCEPT ![a] = TRUE]
         /\ UNCHANGED transit

\* Somebody edits the actor.  The item writes may take until Settle.
Edit(a) ==
    /\ edits < MaxEdits
    /\ ~torn[a]
    /\ \E s \in Sheet \ {doc[a]} :
        /\ HooksFired(doc[a], s) > 1 => BulkEdits
        /\ doc' = [doc EXCEPT ![a] = s]
        /\ Announce(a, HooksFired(doc[a], s))
    /\ \E t \in {FALSE, TornReads} : torn' = [torn EXCEPT ![a] = t]
    /\ edits' = edits + 1
    /\ UNCHANGED <<watcherVars, streamVars, clientVars>>

\* The last embedded item is written and its hook fires.
Settle(a) ==
    /\ torn[a]
    /\ torn' = [torn EXCEPT ![a] = FALSE]
    /\ Announce(a, 1)
    /\ UNCHANGED <<doc, edits, watcherVars, streamVars, clientVars>>

----------------------------------------------------------------------------
(* The route /api/actors/:id/events and attach / detach / stopAll.         *)

\* The request arrives: fetchActor is called and awaited.
Connect(c, a) ==
    /\ cPhase[c] = "off"
    /\ ~closed
    /\ cPhase' = [cPhase EXCEPT ![c] = "fetching"]
    /\ cActor' = [cActor EXCEPT ![c] = a]
    /\ UNCHANGED <<foundryVars, watcherVars, streamVars, cView, cWatcher, closed, transit, missed>>

\* The document is read; the answer is on its way (no document: 404).
ReadInitial(c) ==
    /\ cPhase[c] = "fetching"
    /\ \E r \in ReadResults(cActor[c]) :
        /\ cPhase' = [cPhase EXCEPT ![c] = IF r = None THEN "off" ELSE "ready"]
        /\ cActor' = [cActor EXCEPT ![c] = IF r = None THEN None ELSE @]
        /\ cView'  = [cView EXCEPT ![c] = r]
    /\ UNCHANGED <<foundryVars, watcherVars, streamVars, cWatcher, closed, transit, missed>>

\* attach(): c joins the watcher of its actor.  The first client makes the
\* watcher, primed with its sheet, and the first watcher opens the stream.
JoinWatcher(c) ==
    LET a == cActor[c] IN
    \/ /\ watcherOf[a] # None
       /\ cWatcher' = [cWatcher EXCEPT ![c] = watcherOf[a]]
       /\ UNCHANGED <<watcherVars, streamVars, missed>>
    \/ /\ watcherOf[a] = None
       /\ \E w \in Watchers :
             /\ wActor[w] = None
             /\ watcherOf' = [watcherOf EXCEPT ![a] = w]
             /\ wActor' = [wActor EXCEPT ![w] = a]
             /\ wLast' = [wLast EXCEPT ![w] = cView[c]]
             /\ cWatcher' = [cWatcher EXCEPT ![c] = w]
       /\ missed' = [missed EXCEPT ![a] = cView[c] # doc[a]]
       /\ IF streamAc = None
          THEN EnsureStream(sActive) /\ UNCHANGED sWait
          ELSE UNCHANGED streamVars
       /\ UNCHANGED <<wStopped, wSuspect, wFetch, wAnswer, wPending>>

\* The route resumes: it writes the initial sheet and attaches.
Attach(c) ==
    /\ cPhase[c] = "ready"
    /\ cPhase' = [cPhase EXCEPT ![c] = "attached"]
    /\ JoinWatcher(c)
    /\ UNCHANGED <<foundryVars, cActor, cView, closed, transit>>

\* The browser goes away while the route still awaits the first fetch: no
\* listener is registered yet.
DropEarly(c) ==
    /\ cPhase[c] \in {"fetching", "ready"}
    /\ cPhase' = [cPhase EXCEPT ![c] = "gone"]
    /\ UNCHANGED <<foundryVars, watcherVars, streamVars, cActor, cView, cWatcher, closed, transit, missed>>

\* Mutant of ResumeGone: the route does not look whether the socket is
\* destroyed already.
ResumeGoneUnnoticed(c) ==
    /\ cPhase[c] = "gone" /\ cView[c] # None
    /\ JoinWatcher(c)
    /\ UNCHANGED <<foundryVars, cPhase, cActor, cView, closed, transit>>

\* attach() and detach() of an actor in one turn.  A watcher other clients
\* share is as before; one made here is garbage again.  A stream made here is
\* aborted, which leaves its two loops winding down.
AttachAndDetach(a) ==
    IF watcherOf[a] = None /\ streamAc = None
    THEN \E s \in Streams :
            /\ sLoop[s] = "idle" /\ sPoll[s] = "idle"
            /\ sLoop' = [sLoop EXCEPT ![s] = "open"]
            /\ sPoll' = [sPoll EXCEPT ![s] = "delay"]
    ELSE UNCHANGED <<sLoop, sPoll>>

\* The route resumes for a browser that is gone.  The first read failed, or
\* the route attaches, finds the socket destroyed and cleans up, all before
\* anything else runs.
ResumeGone(c) ==
    /\ cPhase[c] = "gone"
    /\ cPhase' = [cPhase EXCEPT ![c] = "off"]
    /\ cActor' = [cActor EXCEPT ![c] = None]
    /\ cView' = [cView EXCEPT ![c] = None]
    /\ \/ cView[c] = None /\ FetchFaults /\ UNCHANGED <<sLoop, sPoll>>
       \/ AttachAndDetach(cActor[c])
    /\ UNCHANGED <<foundryVars, watcherVars, streamAc, streamUp, sActive, sWait, cWatcher, closed,
                   transit, missed>>

\* c is the last client of its watcher.
LastOut(c) == ClientsOf(cWatcher[c]) = {c}

\* cleanup() of an attached connection: detach; the last one out stops the
\* watcher and, if no watcher is left, the stream.
Detach(c) ==
    LET a == cActor[c]
        w == cWatcher[c] IN
    /\ cPhase[c] = "attached"
    /\ cPhase' = [cPhase EXCEPT ![c] = "off"]
    /\ cActor' = [cActor EXCEPT ![c] = None]
    /\ cView' = [cView EXCEPT ![c] = None]
    /\ cWatcher' = [cWatcher EXCEPT ![c] = None]
    /\ watcherOf' = [watcherOf EXCEPT ![a] = IF LastOut(c) /\ @ = w THEN None ELSE @]
    /\ Release(IF LastOut(c) THEN {w} ELSE {}, wFetch)
    /\ IF LastOut(c) THEN StopStreamIfIdle ELSE KeepStream
    /\ UNCHANGED <<foundryVars, wFetch, wAnswer, wPending, sWait, closed, transit>>

\* app.close(): every connection's cleanup runs, then stopAll.
CloseApp ==
    /\ AppCloses /\ ~closed
    /\ closed' = TRUE
    /\ cPhase' = [c \in Clients |-> IF cPhase[c] = "attached" THEN "off" ELSE cPhase[c]]
    /\ cActor' = [c \in Clients |-> IF cPhase[c] = "attached" THEN None ELSE cActor[c]]
    /\ cView' = [c \in Clients |-> IF cPhase[c] = "attached" THEN None ELSE cView[c]]
    /\ cWatcher' = [c \in Clients |-> None]
    /\ watcherOf' = [a \in Actors |-> None]
    /\ Release(ActiveWatchers, wFetch)
    /\ StopStreamIfIdle
    /\ UNCHANGED <<foundryVars, wFetch, wAnswer, wPending, sWait, transit>>

----------------------------------------------------------------------------
(* ActorWatcher.refresh.                                                   *)

\* Foundry serves the fetch of w.
FetchRead(w) ==
    LET a == wActor[w] IN
    /\ wFetch[w] = "sent"
    /\ \E r \in ReadResults(a) :
        /\ wAnswer' = [wAnswer EXCEPT ![w] = r]
        /\ missed' = [missed EXCEPT ![a] = IF watcherOf[a] = w THEN r # doc[a] ELSE @]
    /\ wFetch' = [wFetch EXCEPT ![w] = "read"]
    /\ UNCHANGED <<foundryVars, watcherOf, wActor, wStopped, wLast, wSuspect, wPending,
                   streamVars, clientVars, transit>>

\* Mutant of EndOfTurn: refresh() ends without a look at pendingRefresh.
EndOfTurnAtOnce(w) ==
    /\ wFetch' = [wFetch EXCEPT ![w] = "none"]
    /\ wPending' = [wPending EXCEPT ![w] = FALSE]
    /\ wAnswer' = [wAnswer EXCEPT ![w] = None]
    /\ sWait' = [s \in Streams |-> sWait[s] \ {w}]

\* One turn of the do-while ends: with another one if pendingRefresh was set
\* meanwhile, else with the end of refresh(), which a pollLoop may await.
EndOfTurn(w) ==
    /\ wFetch' = [wFetch EXCEPT ![w] = IF wPending[w] THEN "sent" ELSE "none"]
    /\ wPending' = [wPending EXCEPT ![w] = FALSE]
    /\ wAnswer' = [wAnswer EXCEPT ![w] = None]
    /\ sWait' = [s \in Streams |-> IF wPending[w] THEN sWait[s] ELSE sWait[s] \ {w}]

\* The answer arrives after stop(): it is dropped.
FetchDropped(w) ==
    /\ wFetch[w] = "read" /\ wStopped[w]
    /\ wFetch' = [wFetch EXCEPT ![w] = "none"]
    /\ wPending' = [wPending EXCEPT ![w] = FALSE]
    /\ wAnswer' = [wAnswer EXCEPT ![w] = None]
    /\ sWait' = [s \in Streams |-> sWait[s] \ {w}]
    /\ Release({w}, wFetch')
    /\ UNCHANGED <<foundryVars, watcherOf, streamAc, streamUp, sActive, sLoop, sPoll,
                   clientVars, transit, missed>>

Suspicious(w, json) ==
    /\ json # wSuspect[w]
    /\ IsSuspiciousSectionLoss(wLast[w].secs, json.secs)

\* The answer is null or the sheet already shown: nothing to do.
Same(w) ==
    /\ wAnswer[w] \in {None, wLast[w]}
    /\ UNCHANGED <<wLast, wSuspect, cView>>

\* The answer looks like a partial read: hold it back once.
HoldBack(w) ==
    /\ wAnswer[w] \notin {None, wLast[w]}
    /\ Suspicious(w, wAnswer[w])
    /\ wSuspect' = [wSuspect EXCEPT ![w] = wAnswer[w]]
    /\ UNCHANGED <<wLast, cView>>

\* Mutant of Broadcast: suspectJson is not reset.
BroadcastKeepsSuspect(w) ==
    /\ wAnswer[w] \notin {None, wLast[w]}
    /\ ~Suspicious(w, wAnswer[w])
    /\ wLast' = [wLast EXCEPT ![w] = wAnswer[w]]
    /\ cView' = [c \in Clients |-> IF c \in ClientsOf(w) THEN wAnswer[w] ELSE cView[c]]
    /\ UNCHANGED wSuspect

\* Send the answer to every client of w.
Broadcast(w) ==
    /\ wAnswer[w] \notin {None, wLast[w]}
    /\ ~Suspicious(w, wAnswer[w])
    /\ wSuspect' = [wSuspect EXCEPT ![w] = None]
    /\ wLast' = [wLast EXCEPT ![w] = wAnswer[w]]
    /\ cView' = [c \in Clients |-> IF c \in ClientsOf(w) THEN wAnswer[w] ELSE cView[c]]

FetchDone(w) ==
    /\ wFetch[w] = "read" /\ ~wStopped[w]
    /\ Same(w) \/ HoldBack(w) \/ Broadcast(w)
    /\ EndOfTurn(w)
    /\ UNCHANGED <<foundryVars, watcherOf, wActor, wStopped, streamAc, streamUp, sActive, sLoop, sPoll,
                   cPhase, cActor, cWatcher, closed, transit, missed>>

----------------------------------------------------------------------------
(* streamLoop.                                                             *)

\* Mutants of SetUp: an old loop clobbers its successor's flag; the flag is
\* never taken back.
SetUpClobbers(s, up) == streamUp' = up
SetUpForGood(s, up)  == streamUp' = (streamUp \/ (streamAc = s /\ up))

\* setUp(up) of the loop of controller s.
SetUp(s, up) == streamUp' = IF streamAc = s THEN up ELSE streamUp

\* The relay accepts the subscription: from here on hooks are sent on it.
StreamOpens(s) ==
    /\ sLoop[s] = "open" /\ sActive[s]
    /\ sLoop' = [sLoop EXCEPT ![s] = "live"]
    /\ UNCHANGED <<foundryVars, watcherVars, clientVars, streamAc, streamUp, sActive, sPoll, sWait,
                   transit, missed>>

\* Mutant of Deliver: one hook is taken off the wire twice.
DeliverTwice(s, a) ==
    /\ sLoop[s] = "live" /\ transit[s][a] > 0
    /\ transit' = [transit EXCEPT ![s][a] = @ - 2]
    /\ Refresh({watcherOf[a]} \ {None})
    /\ UNCHANGED <<foundryVars, watcherOf, wActor, wStopped, wLast, wSuspect, wAnswer,
                   streamVars, clientVars, missed>>

\* onEvent: a hook of actor a is read; its watcher, if any, refreshes.
Deliver(s, a) ==
    /\ sLoop[s] = "live" /\ transit[s][a] > 0
    /\ transit' = [transit EXCEPT ![s][a] = @ - 1]
    /\ Refresh({watcherOf[a]} \ {None})
    /\ UNCHANGED <<foundryVars, watcherOf, wActor, wStopped, wLast, wSuspect, wAnswer,
                   streamVars, clientVars, missed>>

\* subscribeHooks settles: aborted by us, or refused, broken or closed by
\* the relay.  Then the loop ends or waits its backoff.
StreamEnds(s) ==
    /\ sLoop[s] \in {"open", "live"}
    /\ sActive[s] => RelayDrops
    /\ SetUp(s, FALSE)
    /\ sLoop' = [sLoop EXCEPT ![s] = IF sActive[s] THEN "delay" ELSE "idle"]
    /\ transit' = [transit EXCEPT ![s] = [a \in Actors |-> 0]]
    /\ IF streamAc = s THEN LoseTransit ELSE UNCHANGED missed
    /\ UNCHANGED <<foundryVars, watcherVars, clientVars, streamAc, sActive, sPoll, sWait>>

\* The backoff delay is over or cut short by the abort.
BackoffOver(s) ==
    /\ sLoop[s] = "delay"
    /\ sLoop' = [sLoop EXCEPT ![s] = IF sActive[s] THEN "open" ELSE "idle"]
    /\ IF sActive[s] THEN SetUp(s, TRUE) ELSE UNCHANGED streamUp
    /\ UNCHANGED <<foundryVars, watcherVars, clientVars, streamAc, sActive, sPoll, sWait,
                   transit, missed>>

\* restartStream: the relay identity changed.
RestartStream ==
    /\ streamAc # None
    /\ IdentityChanges
    /\ EnsureStream(Aborted)
    /\ LoseTransit
    /\ UNCHANGED <<foundryVars, watcherVars, clientVars, sWait, transit>>

----------------------------------------------------------------------------
(* pollLoop.                                                               *)

\* The pollMs timer fires, or the abort cuts it short.
PollFires(s) ==
    /\ sPoll[s] = "delay"
    /\ sPoll' = [sPoll EXCEPT ![s] = "due"]
    /\ UNCHANGED <<foundryVars, watcherVars, clientVars, streamAc, streamUp, sActive, sLoop, sWait,
                   transit, missed>>

\* The loop looks at the signal and at streamUp.
PollSkips(s) ==
    /\ sPoll[s] = "due"
    /\ ~sActive[s] \/ streamUp
    /\ sPoll' = [sPoll EXCEPT ![s] = IF sActive[s] THEN "delay" ELSE "idle"]
    /\ UNCHANGED <<foundryVars, watcherVars, clientVars, streamAc, streamUp, sActive, sLoop, sWait,
                   transit, missed>>

\* The stream is down: refresh every watcher and await the refreshes that
\* this started (one already running returns at once).
PollRefreshes(s) ==
    /\ sPoll[s] = "due"
    /\ sActive[s] /\ ~streamUp
    /\ Refresh(ActiveWatchers)
    /\ sWait' = [sWait EXCEPT ![s] = {w \in ActiveWatchers : wFetch[w] = "none"}]
    /\ sPoll' = [sPoll EXCEPT ![s] = "wait"]
    /\ UNCHANGED <<foundryVars, watcherOf, wActor, wStopped, wLast, wSuspect, wAnswer,
                   streamAc, streamUp, sActive, sLoop, clientVars, transit, missed>>

\* Promise.all resolved: wait for the next tick, or end.
PollDone(s) ==
    /\ sPoll[s] = "wait" /\ sWait[s] = {}
    /\ sPoll' = [sPoll EXCEPT ![s] = IF sActive[s] THEN "delay" ELSE "idle"]
    /\ UNCHANGED <<foundryVars, watcherVars, clientVars, streamAc, streamUp, sActive, sLoop, sWait,
                   transit, missed>>

----------------------------------------------------------------------------
Environment ==
    \/ \E a \in Actors : Edit(a) \/ Settle(a)
    \/ \E c \in Clients :
        \/ \E a \in Actors : Connect(c, a)
        \/ DropEarly(c) \/ Detach(c)
    \/ CloseApp
    \/ RestartStream

Route(c) == ReadInitial(c) \/ Attach(c) \/ ResumeGone(c)

RefreshStep(w) == FetchRead(w) \/ FetchDropped(w) \/ FetchDone(w)

StreamStep(s) ==
    \/ StreamOpens(s) \/ StreamEnds(s) \/ BackoffOver(s)
    \/ \E a \in Actors : Deliver(s, a)

PollStep(s) == PollFires(s) \/ PollSkips(s) \/ PollRefreshes(s) \/ PollDone(s)

Next ==
    \/ Environment
    \/ \E c \in Clients : Route(c)
    \/ \E w \in Watchers : RefreshStep(w)
    \/ \E s \in Streams : StreamStep(s) \/ PollStep(s)

Spec == Init /\ [][Next]_vars
----------------------------------------------------------------------------
(* Properties.                                                             *)

\* Every variable keeps its type.
TypeOK ==
    /\ doc \in [Actors -> Sheet] /\ torn \in [Actors -> BOOLEAN]
    /\ watcherOf \in [Actors -> Watchers \cup {None}]
    /\ wActor \in [Watchers -> Actors \cup {None}] /\ wStopped \in [Watchers -> BOOLEAN]
    /\ wLast \in [Watchers -> Sheet \cup {None}] /\ wSuspect \in [Watchers -> Sheet \cup {None}]
    /\ wFetch \in [Watchers -> {"none", "sent", "read"}]
    /\ wAnswer \in [Watchers -> Sheet \cup {None}] /\ wPending \in [Watchers -> BOOLEAN]
    /\ streamAc \in Streams \cup {None} /\ streamUp \in BOOLEAN
    /\ sActive \in [Streams -> BOOLEAN]
    /\ sLoop \in [Streams -> {"idle", "open", "live", "delay"}]
    /\ sPoll \in [Streams -> {"idle", "delay", "due", "wait"}]
    /\ sWait \in [Streams -> SUBSET Watchers]
    /\ transit \in [Streams -> [Actors -> Nat]]
    /\ cPhase \in [Clients -> {"off", "fetching", "ready", "gone", "attached"}]
    /\ cActor \in [Clients -> Actors \cup {None}] /\ cView \in [Clients -> Sheet \cup {None}]
    /\ cWatcher \in [Clients -> Watchers \cup {None}]
    /\ closed \in BOOLEAN
    /\ edits \in Nat
    /\ missed \in [Actors -> BOOLEAN]

\* No leak and no orphan: the map holds exactly the watchers somebody is
\* attached to, each under its own actor and not stopped; nobody is attached
\* to a watcher outside the map.  (attach, detach, stopAll and the
\* already-destroyed check of the route.)
WatchersMatchClients ==
    /\ \A a \in Actors : LET w == watcherOf[a] IN
         w # None => wActor[w] = a /\ ~wStopped[w] /\ ClientsOf(w) # {}
    /\ \A c \in Clients : cWatcher[c] # None =>
         /\ cPhase[c] = "attached"
         /\ cActor[c] # None /\ watcherOf[cActor[c]] = cWatcher[c]

\* The relay subscription exists exactly while somebody watches.
StreamIffWatched == (streamAc # None) <=> \E a \in Actors : watcherOf[a] # None

\* One world-level subscription: of all the loops still running, only those
\* of the current controller are not on their way out, and streamUp speaks
\* of that controller's subscription whatever an older loop does late.
OneStream ==
    /\ \A s \in Streams : sActive[s] <=> s = streamAc
    /\ streamAc # None => sLoop[streamAc] # "idle" /\ sPoll[streamAc] # "idle"
    /\ streamUp <=> streamAc # None /\ sLoop[streamAc] \in {"open", "live"}

\* A held-back sheet is one that would be suspicious now: it is compared with
\* the sheet the clients have, not with an older one.
SuspectIsCurrent ==
    \A w \in Watchers : wSuspect[w] # None =>
        /\ wLast[w] # None
        /\ IsSuspiciousSectionLoss(wLast[w].secs, wSuspect[w].secs)

InSync(w) == wLast[w] = doc[wActor[w]] \/ wSuspect[w] = doc[wActor[w]]

\* Actor a, watched by w, is current or something under way will make it so:
\* an event, a pending refresh, a fetch not yet served, or one that was served
\* the document as it is.
Caught(a, w) ==
    \/ streamAc # None /\ transit[streamAc][a] > 0
    \/ wPending[w]
    \/ wFetch[w] = "sent"
    \/ wFetch[w] = "read" /\ wAnswer[w] = doc[a]
    \/ wFetch[w] = "none" /\ InSync(w)

\* No lost wakeup: if the last read returned the whole document and every
\* change since then reached the subscription, then the watcher has the current sheet (shown or held back)
\* or is about to get it, however events, coalesced refreshes and late
\* answers interleave.
NoLostUpdate ==
    \A a \in Actors : watcherOf[a] # None /\ ~missed[a] => Caught(a, watcherOf[a])

----------------------------------------------------------------------------
(* Liveness.                                                               *)

\* Promises settle and timers fire: Node schedules them all, and its fetch
\* gives up on a silent server after minutes, so a fetch ends too.
SchedulerFairness ==
    /\ \A c \in Clients : WF_vars(Route(c))
    /\ \A w \in Watchers : WF_vars(RefreshStep(w))
    /\ \A s \in Streams :
        /\ WF_vars(~sActive[s] /\ StreamEnds(s)) /\ WF_vars(BackoffOver(s))
        /\ WF_vars(PollStep(s))
        /\ \A a \in Actors : WF_vars(Deliver(s, a))

\* The relay answers: asked again and again for a subscription it accepts in
\* the end, and an item write that was begun is finished.
RelayFairness ==
    /\ \A s \in Streams : SF_vars(StreamOpens(s))
    /\ \A a \in Actors : WF_vars(Settle(a))

FairSpec == Spec /\ SchedulerFairness /\ RelayFairness

\* A change whose event reached us ends up shown (or held back), unless the
\* last client leaves, the stream is lost, or the read made for it fails or
\* is partial and no further read follows.  (refresh() drops a failed read
\* and nothing repeats it while streamUp holds, so more cannot be said.)
AnnouncedChangesArrive ==
    \A a \in Actors :
        (watcherOf[a] # None /\ ~missed[a]) ~>
            (watcherOf[a] = None \/ missed[a] \/ InSync(watcherOf[a]))

\* No relay to rely on: it accepts or refuses each attempt as it likes, but
\* an attempt ends, and the poll timer is not in lockstep with the attempts:
\* some ticks fall into the backoff delays.  Reads may fail any number of
\* times, but asked again and again Foundry gives the whole document.
PollFairSpec ==
    /\ Spec /\ SchedulerFairness
    /\ \A a \in Actors : WF_vars(Settle(a))
    /\ \A w \in Watchers : SF_vars(FetchRead(w) /\ wAnswer'[w] = doc[wActor[w]])
    /\ \A s \in Streams :
        /\ WF_vars(StreamOpens(s) \/ (sLoop[s] = "open" /\ StreamEnds(s)))
        /\ SF_vars(~streamUp /\ PollFires(s)) /\ SF_vars(PollRefreshes(s))

\* While no subscription can be established, polling keeps every watched
\* sheet in step with the world.
PollCatchesUp ==
    \A a \in Actors :
        <>[](watcherOf[a] # None /\ \A s \in Streams : sLoop[s] # "live")
            => []<>(watcherOf[a] # None /\ InSync(watcherOf[a]))

----------------------------------------------------------------------------
(* What the repository's texts say and the code does not do.               *)

\* docs/API.md:281: a `sheet` event "whenever the actor changes in Foundry".
EveryChangeReachesClients ==
    \A c \in Clients :
        cPhase[c] = "attached" ~> (cPhase[c] # "attached" \/ cView[c] = doc[cActor[c]])
=============================================================================
