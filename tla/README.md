# Foundry's Unseen Servant — formal model

TLA+ modules, TLC configurations and TLAPS proofs for Foundry's Unseen Servant, a
companion web app for tables that play in Foundry VTT: the gateway, the sidecar,
the relay client, the two system adapters and the character page.

    browsers (PWA) --HTTP/SSE--> gateway --REST/SSE--> relay --> Foundry world
                                    ^
                     key file, status file (shared volume)
                                    |
                             bootstrap sidecar --REST--> relay

The gateway is one Node process: code runs without interruption between two
`await`s, and everything else (answers, timers, frames, new requests,
disconnects) may happen in between, in any order.  The models cut each handler
at its `await`s and nowhere else; the sidecar's passes and the page's handlers
are cut the same way.

Contents: 1 the system, 2 the modules and runs, 3–10 one section per part,
11 finding and observations, 12 what is proved, 13 what is only model-checked,
14 not modelled, 15 what is left.

## 1. The system

| Component | State | Operations | What is hard | What makes it correct |
|---|---|---|---|---|
| Live sheets (`live.ts`, SSE route of `app.ts`) | watchers per actor, last and held-back sheet, refresh flags, one hook subscription with two loops | attach, detach, refresh, stream loop, poll loop, restart, stopAll | every `await` lets other callbacks run; aborted loops end late; reads may be partial; hooks are lost while the stream is down | no leaked watcher or stream, no announced change forgotten, clients catch up |
| Encounter mirror (`encounters.ts`, encounter routes) | mirrored combat, actor cache, reseed flags, fetch queue, last view sent | start, reseed, hook frames, actor fetches, reconcile, restart, view | REST reads race pushed frames; frames are lost around a reconnect; cross-wired answers | mirror converges, listeners see the current view, nothing hidden or exact leaks into it |
| Movement budget, dash, end of turn (`movement-budget.ts`, `movement.ts`, `app.ts`) | feet spent and dash per combat, round, combatant | GET/POST movement, dash, turn end | check and spend straddle a relay call; late answers; stale mirror | budget is charged for what moved, a turn is never ended twice |
| Player store (`player-store.ts`) | player list, write queue, watcher timer, the file | create, rotate, remove, reload | hand edits race mutations; crashes | file and memory agree in the end, no resurrected token |
| Client-id resolver, key source (`client-id-resolver.ts`, `key-source.ts`, `server.ts`), GM roll feed (`app.ts`) | resolved world, reason, key, probe; open feeds | probe, reload, fan-out, open, close | rotation and adoption while something is awaited | the world is never switched; no stream of an old identity stays |
| Bootstrap sidecar (`apps/bootstrap`) | key file, scopes file, backoff times, status | converge pass | crashes between two files, lost answers, wiped volumes, partial grants | a valid key and an online world in the end, few keys minted |
| Write routes (`app.ts`), relay client (`foundry-client`) | none of their own; Foundry's documents | intents, actions, dice tray, custom items, library | read-modify-write over a relay, chains of calls that break off, timeouts | one effect per request, statuses that are true |
| Adapters (`adapter-dnd5e`, `adapter-wod5e`, `adapter-sdk`) | none | view model, resources, actions, buildUpdate, buildAction | two bounds on one track, containers in containers, lists written apart from the checks | writes stay within bounds, what is offered is accepted |
| Web client (`apps/web`) | sheet, streams, busy flags, dialogs, overlay | frames, requests, dialogs, reconnect | pushed sheets race answers, dialogs outlive what they are about | newest sheet shown, the page recovers |

## 2. Modules and runs

| Module | What it is |
|---|---|
| `Live`, `MCLive`, `LiveProofs` | `live.ts` with the sheet SSE route |
| `EncounterView`, `EncounterViewProofs` | the pure part of `encounters.ts`: picking the combat, sorting, filtering, turn pointer, cells |
| `Encounters`, `MCEncounters`, `EncountersProofs` | `EncounterManager` with the encounter SSE and hp routes; extends `EncounterView` |
| `Movement`, `MCMovement`, `MovementProofs` | the movement, dash and end-of-turn routes, `movement-budget.ts`, `movement.ts` |
| `PlayerOps` | lists of players, and what a request or a hand edit makes of one |
| `PlayerList` | abstract specification: what `players.yaml` promises |
| `PlayerStore`, `MCPlayerStore`, `PlayerStoreProofs` | `player-store.ts` with the admin routes; implements `PlayerList` |
| `RelayHost` | the relay's accounts, keys and client rows, and the shared volume (external) |
| `KeyKeeper` | abstract specification: what the sidecar promises to those who use its key |
| `Sidecar`, `MCSidecar` | the converge loop of `apps/bootstrap`; implements `KeyKeeper` |
| `Identity` | the gateway's key source, client-id resolver and identity fan-out |
| `Stack`, `MCStack`, `StackProofs` | `RelayHost`, `KeyKeeper` and `Identity` composed; the proofs also put `Sidecar` in the place of `KeyKeeper` |
| `FoundryDoc` | documents, and what an update does to one |
| `Dnd5eActor`, `Dnd5eResources`, `Dnd5eItems`, `Dnd5eActions`, `Dnd5eView` | `adapter-dnd5e` |
| `Wod5e` | `adapter-wod5e` |
| `Adapters` | `adapter-sdk` and the registry: which adapter an actor has, and its operations |
| `FoundryActs` | what Foundry does with each call of the write routes (external) |
| `Writes`, `MCWrites`, `WritesProofs` | the write routes of `app.ts` and the calls of the relay client; extends `Adapters`, `FoundryActs` |
| `Page`, `MCPage`, `PageProofs` | the script of the character page; extends `EncounterView` for the combat frames it gets |

Definitions with the comment "Mutant ..." are plausible bugs in the definition
that follows.  No action uses them; each shows that a property would notice.

| Run | Instance | Shows |
|---|---|---|
| `live_lifecycle` | 2 browsers, 2 watchers, 2 controllers, sheets of 2 sections, one edit | watchers, map and subscription stay consistent; the held-back sheet is the right one |
| `live_fair` | 2 browsers, 2 edits, a relay that drops and refuses, reads that fail | no announced change is lost; all sheets catch up |
| `live_attach_race` | as above, a relay that never fails | the finding of section 11 |
| `enc_actors` | a player character, a monster, crossed answers, hp write | every browser has the current view; exact hit points only of player characters |
| `enc_fights` | 2 fights, lost and garbled frames, identity changes, shutdown | re-reads happen after they were asked for; one pair of loops; the mirror is cleared only for a reason |
| `enc_fair` | failing reads, broken stream, frames lost on an open one | the mirror catches up, the loops go on |
| `movement` | 2 combatants, 2 requests, 2 fights of 2 rounds | nobody pays for what did not happen, the cap holds in calm behaviours, no one else's turn is skipped |
| `players` | 4 requests, a hand edit, a crash | the store implements `PlayerList`; revoked tokens stay revoked; edits are picked up |
| `sidecar` | 2 worlds, 3 faults, an upgrade of the scopes | the sidecar implements `KeyKeeper`, believes no stale scopes file, converges |
| `stack` | 3 client rows of 2 worlds, 2 faults, 3 keys, 1 feed | no stream of an old identity, no other world, convergence |
| `writes` | 7 scenarios, 2 requests, one call that goes wrong, one edit of the GM | see section 8 |
| `page` | 6 scenarios | see section 9 |

## 3. Live sheets: `Live`

`LiveManager` keeps one `ActorWatcher` per watched actor and one hook
subscription at the relay, made by the first `attach` and aborted after the
last `detach`.

| Model | Code |
|---|---|
| `watcherOf`, `wActor`, `wStopped` | `LiveManager.watchers`, `ActorWatcher.actorId`, `.stopped`; watchers come from a pool and are used again once stopped and without a fetch in flight, which is when the real object is garbage |
| `wLast`, `wSuspect`, `wPending` | `lastJson` with `lastSectionIds`, `suspectJson`, `pendingRefresh` |
| `wFetch`, `wAnswer` | `refreshing` with the position of its read: sent, served by Foundry with this answer, none |
| `streamAc`, `sActive`, `streamUp` | the current `AbortController`, the ones not aborted, `streamUp` |
| `sLoop`, `sPoll`, `sWait` | where each controller's `streamLoop` and `pollLoop` stand, and the refreshes a poll tick awaits |
| `transit` | events the relay has sent and the loop has not yet read, counted per actor: `refresh()` depends on nothing else in them |
| `cPhase`, `cActor`, `cView`, `cWatcher` | a connection of the SSE route: before, between and after its two awaits, the last sheet written, what its `detach` closure captured |
| `doc`, `torn` | Foundry: the sheet an actor renders to (its section ids, and the rest as one value), and whether its items are being written |
| `Edit`, `Settle`, `StreamOpens`, `StreamEnds` | Foundry and the relay (external) |
| `ReadInitial`, `Attach`, `ResumeGone`, `Detach`, `DropEarly`, `CloseApp` | the SSE route, `attach` (`JoinWatcher`), the returned detach, `stopAll`; a browser that went away during the first read is attached and detached in one turn (`AttachAndDetach`), which may leave an aborted stream winding down |
| `FetchRead`, `FetchDropped`, `FetchDone` | `refresh()`, cut at its read; `FetchDone` contains the comparison, the partial-read test, the broadcast and the loop back for `pendingRefresh` |
| `Deliver`, `BackoffOver`, `RestartStream` | `streamLoop`, `restartStream` |
| `PollFires`, `PollSkips`, `PollRefreshes`, `PollDone` | `pollLoop` |

`missed[a]` is a history variable: the last read failed or was partial, or the
actor changed after it without an event that reaches us.  It says where
`NoLostUpdate` and `AnnouncedChangesArrive` promise nothing: what the relay
lost, and a read that fails after its event, which the code does not repeat
while `streamUp` holds (section 11).

Bounds.  In `live_lifecycle` the second watcher and controller let an old one still
be winding down while its successor works, which is where leaks and late writes
would come from; nothing in the code relates three of them.  A sheet of two
sections, one of them core, can lose its other section, which is what
`FetchDone` looks at (the items section of the code is such a one); reads are
torn or fail.  `live_fair` has one actor, as actors share only the subscription, and two edits: one
to be coalesced into the refresh of the other.

Fairness.  `SchedulerFairness`: timers fire, promises settle and queued callbacks
run, which Node guarantees; a read ends because Node's `fetch` gives up on a
silent server.  `PollFairSpec` adds that an item write that has begun is finished,
that an attempt to subscribe ends one way or the other, that the poll timer
is not in lockstep with the attempts, so that some ticks fall into the backoff
delays, in which `streamUp` is false, and that a read which is asked for again and
again succeeds in full in the end.  It does not say that the relay ever accepts.
`FairSpec` does (`RelayFairness`); it is used by `live_attach_race` only, which thus
does not depend on a failing relay or a failing read.  The constants of
`live_fair` exclude identity changes without end, which polling cannot overcome.

## 4. Encounter mirror: `EncounterView`, `Encounters`

The mirror is fed by REST reads of all combats (`reseed`) and by hook frames, and
every change of it ends in `emit()`.

| Model | Code |
|---|---|
| `combat`, `actorCache`, `fetching`, `lastEmitted` | `combat`, `actorCache` (`Absent`: no entry, `None`: null), `fetchingActorIds`, `lastEmittedJson` |
| `reseed`, `pending`, `answer`, `runner` | `reseeding` with the position of its read, `reseedPending`, the combat picked from a served answer, and which of `start`, `subscribeLoop`, `reconcileLoop` awaits the loop's end |
| `fetch` | the head of `seedQueue` once served; the order of the queue is not kept: any queued actor may be next |
| `refresh` | the hp route: guards passed, written, its `refreshActor` read served (one request at a time) |
| `loopAc`, `active`, `sLoop`, `rLoop` | the controllers with `subscribeLoop` and `reconcileLoop` |
| `frames` | hook frames in order, per controller |
| `listeners`, `feed` | attached browsers and the last view written to each |
| `Start`, `StartResumes`, `RestartStream`, `Stop` | the lifecycle methods |
| `ReseedRead`, `ReseedFails`, `ReseedApplies` | `reseed`, cut at its read |
| `FetchRead`, `FetchDone` | `ensureActorCached` |
| `HandleCombat`, `HandleDelete`, `HandleCombatant`, `HandleActor` | `handleHookEvent` |
| `SubscribeResumes`, `BackoffOver`, `ReconcileTick`, `ReconcileResumes` | the loops |
| `Attach`, `Detach`, `HpRequest`, `HpFails`, `HpWrite`, `RefreshRead`, `RefreshDone` | the routes |
| `CreateCombat`, `ChangeCombat`, `SwitchCombat`, `DeleteCombat`, `EditActor`, `StreamOpens`, `StreamEnds` | Foundry and the relay (external) |

`asked` (a reseed was asked for, and no read served or failed since) and `mVersion` (which
version of the world the mirror shows) are history variables.

Bounds: one edit of the world per behaviour (`MaxEdits`).  An edit, a read and a frame
are the three things that can be out of order, and a read served before and
applied after a frame needs one edit only; coalescing, retries and reconnects are
not bounded.  One browser: browsers are independent but for `listeners` being
empty or not, and the proofs cover any number.  `enc_fair` has one controller, so `LoopsMoveOn`
is checked for `stop()` and for breaks of the stream, not for `restartStream`, whose safety is in
`enc_fights` (`OneLoop`).

Fairness.  `Scheduling`: timers fire, every bounded await (`boundedGetEncounters`,
the actor fetches) ends, aborted streams end.  `PromptRelay`: the relay again and again
answers a read before another is asked for, and accepts a subscription; without
it `reseed()` may loop for as long as requests keep coming in, and what awaits it
(the reconnect) waits as long.

What the pure part shows of a combat is stated in `Page` (`ShownInOrder`) and checked in the run `page`,
over every list of two or three of three combatants, two of them with equal
initiative, every hidden set and every turn index, indices out of range included.

## 5. Movement and end of turn: `Movement`

The routes ask the mirror who is acting, which `Encounters` has shown to be any
state the fight has had, so `Movement` composes with it by that interface:
`log` is the fight's history and `mirror` the index of what is shown.

| Model | Code |
|---|---|
| `log`, `mirror`, `pos` | Foundry's combat over time (external), the `EncounterManager`, the tokens (external) |
| `budget` | `MovementBudgetTracker.entries`, a partial function of (combat, round, combatant) |
| `req` | a request per slot, with its position: before the scene was read, before the speed was, sent to the relay, executed, given up but perhaps still to be executed |
| `ValidateMove`, `Occupied`, `Covered`, `Chebyshev` | `movement.ts` |
| `InCombat`, `YourTurn`, `Accessed`, `RemainingFt` | `combatMoveContext`, whose `prune` happens in every access |
| `MoveAsked`, `SceneRead`, `ReadFails`, `MoveChecked`, `MoveAnswered`, `MoveGivenUp` | POST movement, cut at its three awaits |
| `MoveExecuted`, `EndExecuted`, `LateLost` | Foundry executes what it was sent, late or not, or never does |
| `GetMovement`, `Dash` | the other two routes after their reads, where nothing is awaited |
| `EndAsked`, `EndAnswered`, `EndGivenUp` | POST turn/end |

`walked`, `dashes` and `ended` are history variables: what was moved and granted under
each key, and which states of the fight were ended by a player's request.  `calm` is chosen at the start and says whether the behaviour is free of the
three things the code lets break the cap: overlapping moves of one actor (the
comment at `app.ts:1213` accepts them), calls given up that are executed after all,
and a mirror that goes back, after which `prune` has forgotten the round's
spending and speed and dash may be had a second time.  `SpeedIsKept` is about
calm behaviours, the other properties about all.

Bounds: a player's token and a combatant the GM hides, two requests at a
time, two fights of two rounds, up to four states of the world (`MaxLog`), which is
what a round trip through both turns and into the next round takes.  Behaviours
that are not calm stop asking for moves when a turn has seen `MaxWalked` feet, and
dash `MaxDashes` times a key, as the refilled budget would let them go on for ever.

Left out: ownership and the rate limiter; an actor with several combatants, of
which `combatantByActorId` takes the first; the GM turning a turn back, which acts on
the budget as a mirror going back does; the rounding of pixels to cells.  A late end of
turn may end the same combatant's turn in a later round, as the script compares
the combatant only.  `EndsOneTurn` does not say otherwise: it says that taps,
repetitions and late executions together end at most one turn of a round in a
player's name, so that nobody else's is skipped.

## 6. Player store: `PlayerOps`, `PlayerList`, `PlayerStore`

| Model | Code |
|---|---|
| `file`, `tmp` | `players.yaml` and the temporary file beside it |
| `players`, `writeQueue`, `running` | `FilePlayerStore.players`, the promise chain of `mutate()`, the mutation at work with the position of its `persist()` |
| `event`, `reloadTimer` | what `fs.watch` has to report, the debounce timer |
| `Mutate`, `TurnComes`, `TmpWritten`, `Renamed`, `Persisted`, `WriteFails` | an admin route, and `mutate`/`persist` cut at their awaits |
| `Watched`, `Reload` | the watcher's callback and `reload()` |
| `EditorOpens`, `EditorTears`, `EditorSaves`, `EditorLoses` | a hand edit, whose write may be seen half done, or go to a file that was renamed away |
| `Crash`, `Restart` | the process; a bad file keeps it from starting |

`PlayerList` is what an operator may rely on: each request takes effect at most once and whole, on the
list as it is or on one that a hand edit has replaced meanwhile, whose effect is
then lost.  That exception is needed: a hand edit that is saved between the computation of
the next list and the rename, or not yet reloaded, is overwritten.  `PlayerStore` implements `PlayerList`
under an explicit refinement mapping (`Promised == INSTANCE PlayerList WITH list <- list, ...`): the abstract
list is the file, and while an editor has it half written what was there before; `done`, `opened` and
`outdated` are history variables.

The run has two spellings of one name (creating refuses a name in any
spelling, rotating and removing want it exactly), a create in each spelling, a
rotate, a remove, one hand edit and one crash: hazards here need one mutation
and one edit or crash at an inconvenient point, and a second mutation to be
damaged by it.

Fairness (`EditsArePickedUp`): the event loop goes on and the disk answers, an
editor that has begun to write finishes, a crashed process is restarted (the
compose file says so).

## 7. Keys, worlds and streams: `RelayHost`, `KeyKeeper`, `Sidecar`, `Identity`, `Stack`

`RelayHost` has what the sidecar and the gateway share: the relay with its keys and the client
rows of paired worlds, and the key file on the shared volume.  Things that go
wrong outside (the relay stops or is wiped, the volume is wiped, a world is
unpaired or goes offline, a call is lost) are bounded together by `MaxFaults`.

`Sidecar` is one converge pass after the other: each wait for the relay ends one
action, `pc` is the place in the pass.

| Model | Code |
|---|---|
| `keyFile`, `scopesFile` | `relay.env` and `relay.env.scopes.json`, written one after the other |
| `key`, `pc` | `runConvergePass`'s key, and where it stands |
| `authBackoff`, `sessionBackoff` | less than the backoff time since the last attempt; in memory only, so a restart clears them |
| `canonical` | the scopes this version asks for; it may be upgraded once |
| `phase` | the phase in `status.json` |

`KeyKeeper` is what the sidecar promises: it mints another key only when
something made that necessary (`excuses` counts such events: a lost answer, a wiped
database or volume, a death between minting and persisting, an upgrade), only the newest key is put on the volume,
and only paired worlds are brought online.

`Identity` is the gateway: the key it last read, the client row it adopted, the
probe under way with the key it was sent with, and per stream the identity it
was opened with.  `FireIdentityChanged` is the fan-out of `server.ts` and `app.ts`; a
feed that is cleaned up while its history is awaited is "gone" and does not subscribe.

`Stack` composes `RelayHost`, `KeyKeeper` and `Identity` (`StackInit`, `StackNext`, `StackSpec`), so the
gateway is checked against what the sidecar promises, and `sidecar` shows that the promise is
kept.  That the two fit together, `Sidecar` itself in the place of `KeyKeeper`, would be too large
to check and is proved instead (`SidecarFitsTheStack`, `DeployedIsSound`).

Bounds: three rows of two worlds, one of them paired twice, is what the
rule "same world, other row" needs to differ from "another world"; two or
three faults let a wipe meet a lost answer or a death.  `MaxKeys` is never in the
way (`KeysAssumption`).

Fairness (`SidecarConverges`, `GatewayConverges`): the passes go on, timers expire, the relay
that stopped comes back.  Faults are finite by their bound; this is how
"once they are left alone" is said.

## 8. Writing: `FoundryDoc`, the adapters, `FoundryActs`, `Writes`

A document is a record of the fields the adapters read: `sys` and each item are functions
from the paths the code uses to values, lists are sequences.  A path of `sys` is the tuple of its keys
(`<<"spells", p, "value">>` for `spells.${p}.value`), so that two paths are equal only if their keys are; an item's
are few and kept as they are written (`"uses.spent"`).  An update
is such a function, too, as in the code, and is put together with `++` from single fields
(`Field`).  The items of an actor are a list whose members have different ids (`Embeds`), as Foundry's embedded
collections do; the GM edits anything but these ids and types, puts things into containers only, and never makes
nonsense of a sheet that made sense (the guard of `GmEdits`: what he does with a sheet that no longer does is free);
new items get an id no item has.

The adapters are pure: `resources`, `buildUpdate`, `actions`, `buildAction`, the inventory and
the view model are operators, with labels and wording left out.  `Adapters` dispatches on the system
as `registry.ts` does.  They are checked where they are used, in `writes`: two requests
of the players and an edit of the GM bring the documents into states from which the
lists are computed again.

`Writes` has one action per await of the routes:

| Model | Code |
|---|---|
| `req[r].stage` | idle; details (the document is read, its details are awaited); call (of the relay); fresh (the sheet is read again); done |
| `Receive`, `Decide`, `EntryUnread`, `FreshRead` | the routes before their first call and after their last; `EntryUnread` is the read of a library entry that fails (one that goes well is part of `Decide`, as a compendium does not change) |
| `CallsOf`, `Rest`, `AfterAnswer`, `Answered` | the calls of each endpoint in order, and what its catch clauses make of an answer |
| `Mishaps`, `Refusals`, `ReadsErrorBody` | the relay client: a timeout, a lost answer, an error in a 200 body, a refusal, execute-js disabled |
| `CallGoesWell`, `CallIsRefused`, `CallGoesWrong`, `ExecuteLate` | Foundry (external); a call that timed out may have been executed, may be later, or never |
| `world`, `Executed`, `Possible` | Foundry's documents, and what it does with each call (external) |

`performed`, `troubled` and `blamed` are history variables: what was executed for each request,
which requests had a call go wrong, and the two known ways for an unsound value to get in (a write
computed from a document that has changed since, a heal whose roll has no total).

Properties: one tap is one use, whatever falls back or times out (`ActivatedOnce`);
a 4xx has changed nothing (`RefusedMeansUntouched`); a 200 did something unless a call went wrong
(`OkMeansDone`, with the equip toggle as the exception the code makes); items arrive once and leave no
scratch item (`ItemsArriveOnce`); counters, damage tracks and containers stay sound unless blamed
(`SoundUnlessBlamed`); the inventory shows every item once (`ShownOnce`); what a sheet
offers is accepted and rolls what it shows (`OffersAreHonoured`).  The last is about every tap the page
can make of an action (`Taps`: each slot level offered, each way of a toggle, with and without a target); a tap
is excused from being accepted (`Excused`) where the code lists what it then refuses: spent uses, an item that must be attuned to,
a heal or a damage without dice, a cast for which no slot is left, and the end of an effect that goes by a slug no id looks like (`isEffectId`).

Bounds.  Seven scenarios (`MCWrites`): a caster and her slots, targets of an encounter, the
same without one, gear with containers, rests and death saves, a vampire, and a system without an
adapter.  In each of them two requests with any of the scenario's bodies, one call
that goes wrong and one edit of the GM (119 031 states): two writers, or one and a mishap, are what the hazards need.
The two requests are symmetric.  The proofs have no such bounds.

Left out: the rate limit and the ownership of actors (a request refused for them changes
nothing), portraits, searching and previewing the library.

## 9. The character page: `Page`

`Page` is the script of `pages/actor/[id].vue` over a gateway reduced to what the page relies
on: a stream sends what there is when it opens, and every change; a request is answered
with the sheet as it is then, or with an error, and a request that failed may have been done.

| Model | Code |
|---|---|
| `streams` | per event stream: the connection state shown, the `EventSource`, the retry timer, and the frames under way |
| `page` | the sheet and the encounter shown; `seen` (newest version so far) and `overtaken` are history |
| `fetches`, `calls` | reads of the sheet under way; one busy flag per kind of request |
| `ui` | the dialogs: confirmation, action sheet, target pickers, and whom they were picked for |
| `overlay` | the roll animation |
| `Opens`, `Pushes`, `FrameArrives`, `Breaks`, `Retry`, `onOnline`, `onOffline` | `connectEvents`, `connectCombatEvents` and their handlers |
| `submitIntent` ... `roll`, `TapAction`, `PickTokens`, `PickActor`, `SubmitSheet`, `CloseDialog`, `Answer` | the handlers of taps and dialogs |
| `Serve`, `ArrivesWell`, `ArrivesBadly` | the answer of a request and its catch and finally clauses |

Six scenarios (`MCPage`): the network and the streams; taps on actions with a GM who takes one
away; two kinds of writes at a time; rolls; the remaining requests; and, for
`ShownInOrder`, every small combat.  A scenario bounds taps, breaks of the network,
edits and failed requests.

Fairness: the browser handles its events and timers and a request ends; nothing
is asked of the player, the network or the GM (`PageRecovers` is about devices that stay on line).

Abstracted: the roll animation is switched on; the movement view's data, slot and
critical-hit hints, library search and preview, and the carousel are left out.

## 10. How the parts are composed

- `Page` reads the encounter stream through the operators of `EncounterView`, the ones `Encounters` is
  built on.
- `Movement` relies on the mirror being some state the fight has had, which is what `Encounters`
  makes of it.
- `Stack` relies on `KeyKeeper`; `Sidecar` implements it.
- `PlayerStore` implements `PlayerList`.
- `Writes` calls the adapters' operators on the documents its own calls and the GM change.

## 11. Finding and observations

`live_attach_race`: TLC finds a change between a browser's first read and the moment its
subscription is open that is not sent until a later change; `docs/API.md:282` says that the sheet
is sent whenever the actor changes.

Met while modelling, without a run of their own:

Live sheets and encounters
- Three deletions of single items, two of which coalesce into one refresh, look like a
  partial read, and the sheet is held back until the next change (`live.ts:95-96`).
- A read that fails or is cross-wired after its event is dropped (`live.ts:188-190`) and,
  as polling is off while `streamUp` holds (`live.ts:347`), the sheet stays old until the
  next event, although `docs/API.md:282` says that it is sent whenever the actor changes.
- `streamUp` is true during a connection attempt, so poll ticks are skipped while
  one hangs (`live.ts:347`), and a reconnect re-reads nothing (`live.ts:305`).
- A REST answer older than an applied frame overwrites it; the next read repairs
  it (`encounters.ts:312-316`, `329`).  The mirror may thus go back, and with it the movement budget may be refilled.
- An actor once cached is not fetched again, so hit points that change while no subscription
  is open stay wrong in the view (`encounters.ts:357`; `docs/API.md:331-332`).
- `start()` awaits a reseed that may fail or coalesce, and opens the stream either
  way: the "seed before subscribing" of `encounters.ts:463-464` is best effort.
- With no browser listening nothing re-reads the combats, so a change between the
  seed and the subscription is seen only with the next frame or listener.
- A `createCombat` or `updateCombat` frame of a combat prepared beside the current
  one replaces it in the mirror until the next re-read (`encounters.ts:404`).
- `docs/API.md:333` lists `event: ping` for the encounter stream; the route sends the
  current view again instead (`app.ts:1990`).  The model has no action for it: by
  `ListenersCurrent` it writes what each browser already has.

Keys, worlds, players
- The comment of `main.ts:178` ("keep the last sticky status untouched") does not hold while placing the
  module keeps failing.
- A feed that is cleaned up while its history is awaited leaves its ping interval behind
  (`app.ts:1114`); `rollStreamCleanups` are not run when the app closes.
- A valid key whose scopes have drifted starves the session steps while the auth
  attempts are backed off.
- The probe prefers the first listed row of the cached world; two rows of one
  world, none of them cached, are reported as "multiple-worlds-online".
- A hand edit of the player file that is not yet reloaded is overwritten by a console request.

Writing
- The self-heal of use-and-roll is computed from hit points read before the
  activation, so it may lower them (`app.ts:1530-1534`).
- A roll without a total is a heal of NaN, which is written as null.
- The equip toggle does not read the error in a 200 body, although the comment at
  its sibling `attuneItem` says that the status alone cannot signal a failure.
- Equip, update and rest answer a timeout with 502 although the call may have been executed.
- The optimistic lock is check-then-act; PLAN.md:259 accepts the last write winning.
- So is the check against container cycles: two moves, each legal, can make one.
- An effect without an id is offered for removal by the slug of its name (`adapter-dnd5e`, 1252-1261), and refused
  if that has a hyphen or is longer than an id (2630).  Foundry's own effects have ids.
- A targeted use of an item that was deleted meanwhile is an upstream error (502), one of an item that is spent a 422
  (`app.ts:509-516`): only the latter is known from the script's wording.
- The comment of `targetingOf` (`adapter-dnd5e`, 1685-1693, "first activity only") is
  contradicted at 1697; the one of `canCastAtBase` (1557-1562) is stale.

The page
- Targets that were picked wait in `pendingTargetTokenUuids` if the action sheet vanishes because its action
  did, and go along with the next attack or cast: the exception in `PickedForThis`.
- An answer read before, and arriving after, a pushed sheet is shown until the next change (`overtaken` in
  `SettledIsFresh`).
- `showNotLinked` leaves the event stream open, so the next pushed sheet covers the error card.
- `submitIntent` and `onRemove` do not look at the connection or the busy flag again after
  the confirmation.
- A box tap whose second change fails loses a box.
- The roll overlay drops the presentation of an earlier roll when another one starts,
  finishes or is cancelled during hold or reveal.
- The comment on `critArmed` (1391-1398) does not hold for targeted attacks, which return before
  `updateCritArmed`.

## 12. What is proved

All theorems hold for every value of the constants that satisfies the stated
assumptions: any number of actors, browsers, requests, edits and faults.

`LiveProofs`: `TypeCorrect`, `NoLeak` (`WatchersMatchClients`), `OneSubscription`
(`OneStream`), `SubscribedIffWatched` (`StreamIffWatched`) and `NoLostWakeup`
(`NoLostUpdate`).  `TypeOK` alone is not inductive: `attach` reads the map at the
connection's actor and the fetch the watcher's actor, so `IInv` adds `Bound`, which
says when these are there.  The other invariants are inductive relative to
`IInv` and what precedes them, each with its own strengthening, stated beside it.
`HeldBackAgainstNow` (`SuspectIsCurrent`): a sheet is held back only against what clients were last sent.

`EncountersProofs`: `TypeCorrect`, `RequestsNotLost` (`RequestsAreRead`),
`OneLoopRuns` (`OneLoop`), `EveryoneCurrent` (`ListenersCurrent`), `ClearedWhenGone`
(the action property `ClearedOnlyWhenGone`) and `CacheNotCrossed` (`CacheIsOwn`).
`TypeOK` needs `ReadHasAnswer` (a read that was served has an answer to apply).
`ListenersCurrent` follows from two facts about `emit()`: after it every listener has
its view (`EmitReaches`), which needs that a view is never null, and steps that
do not emit change neither mirror nor cache.  `ClearedOnlyWhenGone` needs an
invariant of the frames in transit: each deletion names a combat that is gone for
good (`DeletesAreTrue`), which is true as ids are not used again.  `HpOfPcsOnly` (`OnlyPcsShowHp`) combines
`CacheNotCrossed` with what `EncounterViewProofs` shows of the operators of the view, for every list of combatants: the
sorted list has the members of the list, the shown one those that are not hidden, and a cell has
exact hit points only of a player character's document.

`MovementProofs`: `TypeCorrect`, `TurnsAreKept` (`OnlyInTurn`), `OneTurnEach` (`EndsOneTurn`)
and `SpeedLimit` (`SpeedIsKept`).  `OneTurnEach` rests on turns that only grow in a round
(`TurnsGrow`), on what a request ended having been its player's own turn (`OwnEnded`), and on an
initiative in which nobody comes twice.  For the speed the invariant is the types, an order of the fight's
history (`LogOrdered`: rounds do not go back, ids are not used again), and in calm behaviours the
ledger (`Ledger`): what a key has walked is what was charged to it plus the cost of the one
move under way, and a key the mirror has not come to is untouched.  `OnlyWalkedFeetAreCharged`
(`NothingChargedUnwalked`) needs no calm.  A sum over the requests under way would be the natural
invariant, and is hard to reason about; the proof numbers the feet instead (`FeetNumbered`).  Every foot walked
under a key has its number there.  A charged move has paid with feet of its own, a move whose
answer is under way still holds those it will be charged with, and no foot is paid for or held twice; so
the budget charges no more than was walked, whatever is given up, late or pruned.

`PlayerStoreProofs`: `StoreKeepsItsPromises`, that `PlayerStore` implements `PlayerList`.  The invariant
says where a request in each status can be (`Queued`), that the file on disk is the last
well-formed list unless it is torn (`OnDisk`), that the mutation at work was computed from
a list that is current or outdated by a hand edit (`AtWork`), and so is what is in memory (`InMemory`).
`AnswersAreInForce` (`AnsweredIsInForce`): a token that an answered request took away opens nothing.  Beside that
invariant it needs to know where the token could come back from (`Gone`): it is not in the list the request made, not on
file once that list is in place, not in memory once the request is answered, and the token
of a request that still waits is nowhere yet (`Fresh`).

`StackProofs`, first the sidecar: `UnderScopedNoticed` (`UnderScopedIsNoticed`), from `Vouched`: whenever the two
files are in place, the scopes file vouches for no more than what the key on file was asked for; and
`KeepsItsPromises`, that `Sidecar` implements `KeyKeeper`, from `Accounted`: the keys minted, and the one
that may be needed next, are at most one more than the excuses.  Then the gateway: `NoStaleStream` (`StreamsAreCurrent`) and `OneWorld` (`NeverSwitchesWorlds`): an answer of a
probe is of a key that was current when it was sent, and adopting a row happens
only for no world or the same one.  Last both together: `SidecarFitsTheStack` (every behaviour of the sidecar beside the
gateway is one of `StackNext`, step by step, with the host's steps among them) and so `DeployedIsSound`.

`WritesProofs`: `ActivatesOnce` (`ActivatedOnce`), `RefusalsUntouched` (`RefusedMeansUntouched`), `ItemsOnce`
(`ItemsArriveOnce`) and `OkIsHonest` (`OkMeansDone`), for all documents, bodies and faults.  The calls left to a request
always form one of a few plans (`Plan`), proved of every decision the routes can make without looking into the adapters.
The invariant (`Orderly`) says for each request where it may stand, given what was executed for it and what was
given up on: a use, a gift or a creation is asked for only by a request that has done nothing
(`Pristine`); a late call stands for an execution that has not happened (`Once`); what a request without trouble still
owes to its 200 is among its calls (`AllHonest`).

`SheetsAreHonoured` (`OffersAreHonoured`) does look into the adapters.  For every dnd5e document,
`OffersAreAccepted` shows that a tap of an offered action is turned into a call unless it is excused, and
`StatsAreRolled` that a stat rolls the bonus it shows; that they hold in every state needs `WellKept`: whatever the
requests and the GM write, the items stay a collection with different ids, since no
call under way or late touches an id (`Harmless`).  `NothingIsLost` (`ShownOnce`) needs the rest of it: an item lies in a
shelf, which is a container wherever it is on the sheet, now or later (`Shelf`, `Stocked`), and a move under way goes to
one (`Proper`), also when its container has been deleted since; so the lists of the inventory split the items.  Two theorems are about single taps, for every document and every
amount: `DamageIsTakenOnce` (damage takes its amount, or all there is, from the temporary hit points first and
then from the others; healing goes to the maximum at most) and `BoxesFitTheTrack` (superficial and aggravated boxes,
which a vampire's track shares, never add up to more than the track has).

`CountersStayInBounds` (`SoundUnlessBlamed`) ties each write under way to the document it was computed from.  A
document is fit when it makes sense and its counters are numbers (`Fit`).  The invariant (`Healthy`): while nothing
is blamed, the document in Foundry is fit, so is the one each request has read, and each call a request has yet to make is
wise for what the request knows (`Wise`): an update or a move would leave the known document fit, a heal is
of hit points and a maximum within those known.  It needs no relation between what a request knows and what is there: a
write that is executed where the two differ is blamed, and one that is not blamed meets the very document it is wise for.
The proof has three parts.  Every resource of both systems: an intent on it, clamped by the limits of the character
as the request read it, keeps that document fit (`UpdateIsWise`; the slots may be of a later read than the rest, so
`Likely` bounds them by what Foundry derives).  Every move the grid offers: a container is
never put into what it contains, as an acyclic document stays so when one is moved under none of its own
(`MoveIsWise`).  And every call nothing was computed for: uses, gifts, removals, rests and what others have
in hand keep a fit document fit (`FitOutcome`); the hit dice go by a count of an actor's items, by induction over a finite set.

`PageProofs`: `PageIsFresh` (`SettledIsFresh`), `TargetsArePicked` (`PickedForThis`) and `FightIsShownInOrder`
(`ShownInOrder`), for every character and number of
taps, edits, breaks and faults.  The invariant has two independent parts.  Every sheet in a frame, in an answer or on
the page is one the character has had (`Fits`), the last frame under way is what was sent last, and when none is
left it has been shown or was overtaken (`Delivered`); reads and requests need not have ended.  And what
was picked belongs to the action sheet under it unless that action has vanished, and a picker opens over
no action sheet but such a one (`UiOk`).  `FightIsShownInOrder` (`ShownInOrder`) is about the operators of
`EncounterView`: `EncounterViewProofs` shows by induction over the ranks that sorting is a permutation in the order
of initiative with ties kept, and by one over the prefixes of a list that filtering keeps the order; the turn pointer follows.

Assumptions, each an `ASSUME` that TLC evaluates: kinds of the constants, `None` (and `Absent`, `Bad`)
being no other value, bounds being natural numbers; `ViewIsNotNull` (a view is a record); `KeysAssumption` (more keys may be
minted than faults can make necessary); `ScopesAssumption` (an upgrade adds scopes); `RequestAssumption` (tokens are
minted afresh); `WritesAssumption` (requests name a route there is; the ids of a
document's items are different, those of new items fresh, and not edited; things are put into containers); `CountingAssumption`
(the sheet makes sense at the start; what players, the GM and the compendium bring are numbers).

Where an argument goes over a list, the induction is over a set of natural numbers (the
lemma `Induction`, which speaks of a set), as the provers cannot
instantiate the theorems that take an operator.

## 13. Only model-checked

- Liveness: `AnnouncedChangesArrive`, `PollCatchesUp`, `MirrorCatchesUp`, `LoopsMoveOn`,
  `EditsArePickedUp`, `SidecarConverges`, `GatewayConverges`, `PageRecovers`.  Fairness and ENABLED
  are beyond the prover.

Every safety invariant and action property of the passing runs is a theorem, and so is every implementation.

## 14. Not modelled

- Real time: periods, backoff lengths, deadlines (a timer may fire and a bounded call may
  fail at any moment).
- The rate limiter (a counter per token and window), authentication, health and status (reads of files and
  of the environment).
- The helpers of the sidecar that copy files and write pages; they are steps of a pass without a state of
  their own.
- The other pages of the web client, and what `Page` leaves out (section 9).
- The setup and maintenance scripts, which are interactive and run once.

PROJECT.json lists the components with their status, and the hazards with the
properties that cover them.

## 15. What is left

1. The rounding in `movement.ts` against a reference definition.
2. The rate limiter and the roll feed's timers, for the leak of section 11.
3. A broadcast register as an abstract specification over `Encounters`: the mirror's view as the register,
   `ListenersCurrent` as its invariant.
