----------------------------- MODULE Encounters -----------------------------
(***************************************************************************)
(* The encounter mirror: apps/gateway/src/encounters.ts (EncounterManager) *)
(* with the SSE route and the hp route of app.ts that use it.              *)
(*                                                                         *)
(* The mirror is fed from two sides: REST reads of all combats (reseed)    *)
(* and frames pushed on the relay's hook stream.  Handlers are cut at      *)
(* their awaits: a read is sent, served by Foundry and applied in separate *)
(* steps, and frames, other reads and timers may come in between.          *)
(*                                                                         *)
(* Modelled by what the gateway relies on, being outside of it: the world  *)
(* (combats, current, hp) and the relay connection (frames, sLoop).        *)
(***************************************************************************)
EXTENDS EncounterView

CONSTANTS
    CombatIds,       \* ids of the world's combats
    Combats,         \* the combats the world may contain: records as in EncounterView
    Hps,             \* hp values an actor may have
    Clients,         \* browsers that may open /api/encounter/events
    Streams,         \* pool of AbortControllers, each with its two loops
    Absent,          \* no entry in actorCache (None: an entry that is null)
    RelayFaults,     \* BOOLEAN: can a read fail or time out?
    RelayDrops,      \* BOOLEAN: can the relay refuse, break or close a stream?
    FrameLoss,       \* BOOLEAN: can the relay drop or garble frames of an open stream?
    CrossWires,      \* BOOLEAN: can the relay answer with another actor's document?
    IdentityChanges, \* BOOLEAN: can the relay identity change?
    HpTargets,       \* the actors whose hit points players write
    MaxEdits         \* bound: edits of the world

\* An actor's document, as far as it is cached.
Docs == [of : Actors, hp : Hps]

ASSUME EncountersAssumption ==
    /\ \A c \in Combats : c.id \in CombatIds /\ c.list \in Seq(Combatants)
    /\ Hps \subseteq Nat /\ Hps # {}
    /\ MaxEdits \in Nat
    /\ {RelayFaults, RelayDrops, FrameLoss, CrossWires, IdentityChanges} \subseteq BOOLEAN
    /\ HpTargets \subseteq Actors
    /\ None \notin Combats \cup CombatIds \cup Streams \cup Actors \cup Combatants
    /\ None # Absent /\ None \notin Docs /\ Absent \notin Docs

VARIABLES
    combats, current, hp,    \* Foundry: the existing combats (a partial function), the current one, hit points
    used,                    \* combat ids that have been used: Foundry's ids are never used again
    edits,                   \* edits of the world so far: its version
    phase,                   \* of start(): "off", "starting", "on", "stopped"
    combat,                  \* EncounterManager.combat
    actorCache,              \* EncounterManager.actorCache
    fetching,                \* fetchingActorIds: on the seedQueue, the head included
    fetch,                   \* the head of the seedQueue: None, or its actor and answer once served
    refresh,                 \* the hp route: None, or its actor, where it stands, and refreshActor's answer
    reseed, pending,         \* reseeding with its read ("idle", "sent", "read"), reseedPending
    answer,                  \* the picked combat of a served read, with the world's version
    runner,                  \* who awaits the end of reseed()'s loop
    loopAc, active,          \* EncounterManager.loopAc; controllers created and not aborted
    sLoop, rLoop,            \* where subscribeLoop and reconcileLoop stand
    frames,                  \* hook frames the relay has sent on a subscription and we not yet read
    listeners, feed,         \* attached browsers and the last view written to each
    lastEmitted,             \* lastEmittedJson
    asked,                   \* history: a reseed was asked for, and no read served or failed since
    mVersion                 \* history: the world's version the mirror shows

worldVars  == <<combats, current, hp, used, edits>>
cacheVars  == <<actorCache, fetching>>
reseedVars == <<reseed, pending, answer, runner, asked>>
loopVars   == <<loopAc, active, sLoop, rLoop>>
emitVars   == <<feed, lastEmitted>>
mirrorVars == <<combat, mVersion>>
vars == <<worldVars, phase, mirrorVars, cacheVars, fetch, refresh, reseedVars,
          loopVars, frames, listeners, emitVars>>

----------------------------------------------------------------------------
(* Helpers of the code.                                                    *)

\* The combat a read served now picks.
Pick == PickCurrentEncounter(combats, current)

ActorsOf(m) == {ActorOf[c] : c \in Entries(m.list)} \ {None}

\* view(): the entry of each combatant comes from the cache.
View(m, cache) ==
    ViewOf(m, [c \in Combatants |->
                IF ActorOf[c] = None \/ cache[ActorOf[c]] = Absent THEN None
                ELSE cache[ActorOf[c]]])

\* null is not a view: lastEmittedJson equals null only before the first emit
\* and after restartStream.
ASSUME ViewIsNotNull ==
    \A m \in Combats \cup {None}, cache \in [Actors -> Docs \cup {None, Absent}] :
        View(m, cache) # None

\* Mutant of Emit: only a new round or turn counts as a change.
EmitTurns(m, cache) ==
    LET v == View(m, cache)
        key(w) == IF w = None \/ ~w.active THEN Inactive
                  ELSE [active |-> TRUE, round |-> w.round, turn |-> w.turn] IN
    IF key(v) = key(lastEmitted)
    THEN UNCHANGED emitVars
    ELSE /\ lastEmitted' = v
         /\ feed' = [c \in Clients |-> IF c \in listeners THEN v ELSE feed[c]]

\* emit(), for the mirror m and the cache after the step: a view equal to
\* the last one sent is not sent again.  (Bound, so that TLC makes it once.)
Emit(m, cache) ==
    \E v \in {View(m, cache)} :
      IF v = lastEmitted
      THEN UNCHANGED emitVars
      ELSE /\ lastEmitted' = v
           /\ feed' = [c \in Clients |-> IF c \in listeners THEN v ELSE feed[c]]

\* seedActorCache(m): queue a fetch for every actor not cached and not queued.
SeedActorCache(m) ==
    fetching' = fetching \cup (IF m = None THEN {} ELSE {a \in ActorsOf(m) : actorCache[a] = Absent})

\* The entry made of a fetched document: another actor's document is refused.
TrustAnyDocument(a, doc) == doc                    \* mutant of CacheEntry
CacheEntry(a, doc) == IF doc # None /\ doc.of = a THEN doc ELSE None

\* Who awaits reseed()'s loop to end: start() or a loop of a stream; nobody
\* if it was called with void, or runs no more.
Awaiting(task, s) == [task |-> task, stream |-> s]
Nobody == Awaiting("none", None)

\* reseed() called by who: while one is running, only another turn is asked
\* for and the call returns at once.
ReseedForgets(who) ==                              \* mutant of Reseed
    /\ asked' = TRUE
    /\ IF reseed = "idle"
       THEN reseed' = "sent" /\ pending' = FALSE /\ runner' = who
       ELSE UNCHANGED <<reseed, pending, runner>>
    /\ UNCHANGED answer
Reseed(who) ==
    /\ asked' = TRUE
    /\ IF reseed = "idle"
       THEN reseed' = "sent" /\ pending' = FALSE /\ runner' = who
       ELSE pending' = TRUE /\ UNCHANGED <<reseed, runner>>
    /\ UNCHANGED answer

\* One turn of reseed()'s do-while ends.
EndOfTurn ==
    /\ reseed' = IF pending THEN "sent" ELSE "idle"
    /\ runner' = IF pending THEN runner ELSE Nobody
    /\ pending' = FALSE
    /\ answer' = None

\* A new controller with its two loops, started synchronously up to
\* subscribeHooks and to the first delay; act: the controllers active besides.
StartLoops(act) ==
    \E s \in Streams :
        /\ sLoop[s] = "idle" /\ rLoop[s] = "idle"
        /\ loopAc' = s
        /\ active' = [act EXCEPT ![s] = TRUE]
        /\ sLoop' = [sLoop EXCEPT ![s] = "open"]
        /\ rLoop' = [rLoop EXCEPT ![s] = "delay"]

Aborted == [s \in Streams |-> active[s] /\ s # loopAc]

----------------------------------------------------------------------------
Init ==
    /\ combats \in UNION {[I -> Combats] : I \in SUBSET CombatIds}
    /\ \A i \in DOMAIN combats : combats[i].id = i
    /\ current \in DOMAIN combats \cup {None}
    /\ hp \in {[a \in Actors |-> h] : h \in Hps}
    /\ used = DOMAIN combats
    /\ edits = 0
    /\ phase = "off"
    /\ combat = None
    /\ actorCache = [a \in Actors |-> Absent]
    /\ fetching = {}
    /\ fetch = None
    /\ refresh = None
    /\ reseed = "idle" /\ pending = FALSE /\ answer = None /\ runner = Nobody
    /\ loopAc = None
    /\ active = [s \in Streams |-> FALSE]
    /\ sLoop = [s \in Streams |-> "idle"]
    /\ rLoop = [s \in Streams |-> "idle"]
    /\ frames = [s \in Streams |-> <<>>]
    /\ listeners = {}
    /\ feed = [c \in Clients |-> None]
    /\ lastEmitted = None
    /\ asked = FALSE
    /\ mVersion = 0

----------------------------------------------------------------------------
(* The world and the relay's hook stream (external).                       *)

\* Frame f is sent on every open subscription, or lost on some.
Publish(f) ==
    LET live == {s \in Streams : sLoop[s] = "live"} IN
    \E R \in SUBSET live :
        /\ FrameLoss \/ R = live
        /\ frames' = [s \in Streams |-> IF s \in R THEN Append(frames[s], f) ELSE frames[s]]

CombatFrame(c) == [hook |-> "combat", doc |-> c, version |-> edits + 1]
CombatantFrame == [hook |-> "combatant"]
DeleteFrame(i) == [hook |-> "deleteCombat", id |-> i, version |-> edits + 1]
GarbledDelete  == [hook |-> "deleteCombat", id |-> None, version |-> edits + 1]
ActorFrame(d)  == [hook |-> "updateActor", doc |-> d]

\* The hook that tells of combat c becoming d: combatants that came, went or
\* changed have hooks of their own, without the combat.
ChangeFrame(c, d) ==
    IF c.list = d.list /\ c.hidden = d.hidden THEN CombatFrame(d) ELSE CombatantFrame

Edit == edits < MaxEdits /\ edits' = edits + 1

\* The GM creates a combat, as the current one or beside it.
CreateCombat(c) ==
    /\ Edit
    /\ c.id \notin used
    /\ used' = used \cup {c.id}
    /\ combats' = [i \in DOMAIN combats \cup {c.id} |-> IF i = c.id THEN c ELSE combats[i]]
    /\ current' \in {current, c.id}
    /\ Publish(CombatFrame(c))
    /\ UNCHANGED <<hp, phase, mirrorVars, cacheVars, fetch, refresh, reseedVars, loopVars,
                   listeners, emitVars>>

\* A turn, a round, or a combatant changes.
ChangeCombat(c) ==
    /\ Edit
    /\ c.id \in DOMAIN combats /\ c # combats[c.id]
    /\ combats' = [combats EXCEPT ![c.id] = c]
    /\ UNCHANGED current
    /\ Publish(ChangeFrame(combats[c.id], c))
    /\ UNCHANGED <<hp, used, phase, mirrorVars, cacheVars, fetch, refresh, reseedVars, loopVars,
                   listeners, emitVars>>

\* The GM makes another combat the current one.
SwitchCombat(i) ==
    /\ Edit
    /\ i \in DOMAIN combats \ {current}
    /\ current' = i
    /\ UNCHANGED combats
    /\ Publish(CombatFrame(combats[i]))
    /\ UNCHANGED <<hp, used, phase, mirrorVars, cacheVars, fetch, refresh, reseedVars, loopVars,
                   listeners, emitVars>>

\* The combat ends; its frame may arrive without an id.
DeleteCombat(i) ==
    /\ Edit
    /\ i \in DOMAIN combats
    /\ combats' = [j \in DOMAIN combats \ {i} |-> combats[j]]
    /\ current' = IF current = i THEN None ELSE current
    /\ \E f \in {DeleteFrame(i)} \cup (IF FrameLoss THEN {GarbledDelete} ELSE {}) : Publish(f)
    /\ UNCHANGED <<hp, used, phase, mirrorVars, cacheVars, fetch, refresh, reseedVars, loopVars,
                   listeners, emitVars>>

Doc(a) == [of |-> a, hp |-> hp[a]]

\* Actor a gets h hit points.
SetHp(a, h) ==
    /\ Edit
    /\ h # hp[a]
    /\ hp' = [hp EXCEPT ![a] = h]
    /\ Publish(ActorFrame([of |-> a, hp |-> h]))

EditActor(a) ==
    /\ \E h \in Hps : SetHp(a, h)
    /\ UNCHANGED <<combats, current, used, phase, mirrorVars, cacheVars, fetch, refresh, reseedVars, loopVars,
                   listeners, emitVars>>

----------------------------------------------------------------------------
(* start, stop, restartStream.                                             *)

Start ==
    /\ phase = "off"
    /\ phase' = "starting"
    /\ Reseed(Awaiting("start", None))
    /\ UNCHANGED <<worldVars, mirrorVars, cacheVars, fetch, refresh, loopVars, frames,
                   listeners, emitVars>>

\* start() resumes after its reseed and starts the loops.
StartResumes ==
    /\ phase = "starting" /\ runner # Awaiting("start", None)
    /\ phase' = "on"
    /\ StartLoops(active)
    /\ UNCHANGED <<worldVars, mirrorVars, cacheVars, fetch, refresh, reseedVars, frames,
                   listeners, emitVars>>

\* Mutant of RestartStream: the old controller is not aborted.
RestartKeepsOld ==
    /\ IdentityChanges
    /\ loopAc # None
    /\ StartLoops(active)
    /\ lastEmitted' = None
    /\ Reseed(Nobody)
    /\ UNCHANGED <<worldVars, phase, mirrorVars, cacheVars, fetch, refresh, frames,
                   listeners, feed>>

\* restartStream: does nothing while there is no controller.
RestartStream ==
    /\ IdentityChanges
    /\ loopAc # None
    /\ StartLoops(Aborted)
    /\ lastEmitted' = None
    /\ Reseed(Nobody)
    /\ UNCHANGED <<worldVars, phase, mirrorVars, cacheVars, fetch, refresh, frames,
                   listeners, feed>>

\* stop(), on shutdown.  (Before start() is done it finds no controller and
\* does nothing.)
Stop ==
    /\ phase = "on"
    /\ phase' = "stopped"
    /\ loopAc' = None
    /\ active' = Aborted
    /\ UNCHANGED <<worldVars, mirrorVars, cacheVars, fetch, refresh, reseedVars, sLoop, rLoop, frames,
                   listeners, emitVars>>

----------------------------------------------------------------------------
(* The SSE route: attach, detach.                                          *)

\* A browser connects: it is written the current view, attached, and a
\* reseed is asked for (reconcileNow).
Attach(c) ==
    /\ c \notin listeners
    /\ feed' = [feed EXCEPT ![c] = View(combat, actorCache)]
    /\ listeners' = listeners \cup {c}
    /\ Reseed(Nobody)
    /\ UNCHANGED <<worldVars, phase, mirrorVars, cacheVars, fetch, refresh, loopVars, frames,
                   lastEmitted>>

Detach(c) ==
    /\ c \in listeners
    /\ listeners' = listeners \ {c}
    /\ feed' = [feed EXCEPT ![c] = None]
    /\ UNCHANGED <<worldVars, phase, mirrorVars, cacheVars, fetch, refresh, reseedVars, loopVars, frames,
                   lastEmitted>>

----------------------------------------------------------------------------
(* reseed.                                                                 *)

\* The relay serves the read.
ReseedRead ==
    /\ reseed = "sent"
    /\ reseed' = "read"
    /\ answer' = [pick |-> Pick, version |-> edits]
    /\ asked' = FALSE
    /\ UNCHANGED <<worldVars, phase, mirrorVars, cacheVars, fetch, refresh, pending, runner,
                   loopVars, frames, listeners, emitVars>>

\* The read fails, or its answer is not there in time: the state is kept.
ReseedFails ==
    /\ reseed \in {"sent", "read"}
    /\ RelayFaults
    /\ EndOfTurn
    /\ asked' = pending
    /\ UNCHANGED <<worldVars, phase, mirrorVars, cacheVars, fetch, refresh,
                   loopVars, frames, listeners, emitVars>>

\* Mutant of ReseedApplies: the answer is stored as it came.
ReseedUnnormalized ==
    /\ reseed = "read"
    /\ combat' = answer
    /\ mVersion' = answer.version
    /\ SeedActorCache(answer.pick)
    /\ Emit(answer.pick, actorCache)
    /\ EndOfTurn
    /\ UNCHANGED <<worldVars, phase, actorCache, fetch, refresh, asked, loopVars, frames, listeners>>

\* The answer is applied.
ReseedApplies ==
    /\ reseed = "read"
    /\ combat' = answer.pick
    /\ mVersion' = answer.version
    /\ SeedActorCache(answer.pick)
    /\ Emit(answer.pick, actorCache)
    /\ EndOfTurn
    /\ UNCHANGED <<worldVars, phase, actorCache, fetch, refresh, asked, loopVars, frames, listeners>>

----------------------------------------------------------------------------
(* Actor documents: the seedQueue and refreshActor.                        *)

\* What a read of actor a may return now: its document, nothing (failed or
\* timed out), or the document another read asked for.
Served(a) ==
    {Doc(a)} \cup (IF RelayFaults THEN {None} ELSE {})
             \cup (IF CrossWires THEN {Doc(b) : b \in Actors} ELSE {})

\* The relay serves the fetch at the head of the seedQueue.
FetchRead(a) ==
    /\ fetch = None
    /\ a \in fetching
    /\ \E d \in Served(a) : fetch' = [of |-> a, doc |-> d]
    /\ UNCHANGED <<worldVars, phase, mirrorVars, cacheVars, refresh, reseedVars,
                   loopVars, frames, listeners, emitVars>>

Settle(a, entry) ==
    /\ fetching' = fetching \ {a}
    /\ actorCache' = [actorCache EXCEPT ![a] = entry]

\* Its answer arrives and is cached, a failure as null.
FetchDone ==
    /\ fetch # None
    /\ Settle(fetch.of, CacheEntry(fetch.of, fetch.doc))
    /\ Emit(combat, actorCache')
    /\ fetch' = None
    /\ UNCHANGED <<worldVars, phase, mirrorVars, refresh, reseedVars,
                   loopVars, frames, listeners>>

\* The hp route: its guards hold, it goes on to read the actor.
HpRequest(a) ==
    /\ a \in HpTargets
    /\ refresh = None
    /\ IsActive(combat) /\ a \in ActorsOf(combat)
    /\ refresh' = [of |-> a, stage |-> "asked", doc |-> None]
    /\ UNCHANGED <<worldVars, phase, mirrorVars, cacheVars, fetch, reseedVars, loopVars, frames,
                   listeners, emitVars>>

\* Its read fails, the intent is refused, or the write fails: it answers an
\* error.
HpFails ==
    /\ refresh # None /\ refresh.stage = "asked"
    /\ refresh' = None
    /\ UNCHANGED <<worldVars, phase, mirrorVars, cacheVars, fetch, reseedVars, loopVars, frames,
                   listeners, emitVars>>

\* Foundry executes its write (of any value: the clamped sum of the value it
\* read and the delta); it goes on to refreshActor.
HpWrite ==
    /\ refresh # None /\ refresh.stage = "asked"
    /\ \E h \in Hps : SetHp(refresh.of, h)
    /\ refresh' = [refresh EXCEPT !.stage = "written"]
    /\ UNCHANGED <<combats, current, used, phase, mirrorVars, cacheVars, fetch, reseedVars, loopVars,
                   listeners, emitVars>>

\* refreshActor: its read is served.
RefreshRead ==
    /\ refresh # None /\ refresh.stage = "written"
    /\ \E d \in Served(refresh.of) : refresh' = [refresh EXCEPT !.doc = d, !.stage = "served"]
    /\ UNCHANGED <<worldVars, phase, mirrorVars, cacheVars, fetch, reseedVars,
                   loopVars, frames, listeners, emitVars>>

\* Its answer is cached, a failure as null.
RefreshDone ==
    /\ refresh # None /\ refresh.stage = "served"
    /\ actorCache' = [actorCache EXCEPT ![refresh.of] = CacheEntry(refresh.of, refresh.doc)]
    /\ Emit(combat, actorCache')
    /\ refresh' = None
    /\ UNCHANGED <<worldVars, phase, mirrorVars, fetching, fetch, reseedVars,
                   loopVars, frames, listeners>>

----------------------------------------------------------------------------
(* subscribeLoop and handleHookEvent.                                      *)

\* The loop resumes after its reseed, or at once if that one coalesced.
SubscribeResumes(s) ==
    /\ sLoop[s] = "reseed" /\ runner # Awaiting("subscribe", s)
    /\ sLoop' = [sLoop EXCEPT ![s] = IF active[s] THEN "open" ELSE "idle"]
    /\ UNCHANGED <<worldVars, phase, mirrorVars, cacheVars, fetch, refresh, reseedVars,
                   loopAc, active, rLoop, frames, listeners, emitVars>>

\* The relay accepts the subscription.
StreamOpens(s) ==
    /\ sLoop[s] = "open" /\ active[s]
    /\ sLoop' = [sLoop EXCEPT ![s] = "live"]
    /\ UNCHANGED <<worldVars, phase, mirrorVars, cacheVars, fetch, refresh, reseedVars,
                   loopAc, active, rLoop, frames, listeners, emitVars>>

\* Refused, broken, closed or aborted.
StreamEnds(s) ==
    /\ sLoop[s] \in {"open", "live"}
    /\ active[s] => RelayDrops
    /\ sLoop' = [sLoop EXCEPT ![s] = IF active[s] THEN "delay" ELSE "idle"]
    /\ frames' = [frames EXCEPT ![s] = <<>>]
    /\ UNCHANGED <<worldVars, phase, mirrorVars, cacheVars, fetch, refresh, reseedVars,
                   loopAc, active, rLoop, listeners, emitVars>>

\* Mutant of BackoffOver: no reconnect while nobody listens.
BackoffWatched(s) ==
    /\ sLoop[s] = "delay"
    /\ IF active[s]
       THEN listeners # {} /\ sLoop' = [sLoop EXCEPT ![s] = "reseed"] /\ Reseed(Awaiting("subscribe", s))
       ELSE sLoop' = [sLoop EXCEPT ![s] = "idle"] /\ UNCHANGED reseedVars
    /\ UNCHANGED <<worldVars, phase, mirrorVars, cacheVars, fetch, refresh,
                   loopAc, active, rLoop, frames, listeners, emitVars>>

\* The backoff is over: re-seed before the next attempt.
BackoffOver(s) ==
    /\ sLoop[s] = "delay"
    /\ IF active[s]
       THEN sLoop' = [sLoop EXCEPT ![s] = "reseed"] /\ Reseed(Awaiting("subscribe", s))
       ELSE sLoop' = [sLoop EXCEPT ![s] = "idle"] /\ UNCHANGED reseedVars
    /\ UNCHANGED <<worldVars, phase, mirrorVars, cacheVars, fetch, refresh,
                   loopAc, active, rLoop, frames, listeners, emitVars>>

\* The next frame of stream s, of the given hook, is taken.
Take(s, hook) ==
    /\ sLoop[s] = "live" /\ frames[s] # <<>>
    /\ Head(frames[s]).hook = hook
    /\ frames' = [frames EXCEPT ![s] = Tail(@)]

\* updateCombat, createCombat: the frame's combat becomes the mirrored one.
HandleCombat(s) ==
    LET f == Head(frames[s]) IN
    /\ Take(s, "combat")
    /\ combat' = f.doc
    /\ mVersion' = f.version
    /\ SeedActorCache(f.doc)
    /\ Emit(f.doc, actorCache)
    /\ UNCHANGED <<worldVars, phase, actorCache, fetch, refresh, reseedVars,
                   loopVars, listeners>>

\* Mutant of HandleDelete: any deleteCombat clears the mirror.
HandleDeleteBlind(s) ==
    /\ Take(s, "deleteCombat")
    /\ combat # None
    /\ combat' = None
    /\ mVersion' = Head(frames[s]).version
    /\ Emit(None, actorCache)
    /\ UNCHANGED <<worldVars, phase, cacheVars, fetch, refresh, reseedVars, loopVars, listeners>>

\* deleteCombat: of the mirrored combat it clears the mirror, without an id
\* it asks for a reseed, of another combat it is ignored.
HandleDelete(s) ==
    LET f == Head(frames[s]) IN
    /\ Take(s, "deleteCombat")
    /\ IF combat # None /\ f.id = combat.id
       THEN combat' = None /\ mVersion' = f.version /\ Emit(None, actorCache)
       ELSE UNCHANGED <<mirrorVars, emitVars>>
    /\ IF combat # None /\ f.id = None THEN Reseed(Nobody) ELSE UNCHANGED reseedVars
    /\ UNCHANGED <<worldVars, phase, cacheVars, fetch, refresh, loopVars, listeners>>

\* createCombatant, updateCombatant, deleteCombatant.
HandleCombatant(s) ==
    /\ Take(s, "combatant")
    /\ Reseed(Nobody)
    /\ UNCHANGED <<worldVars, phase, mirrorVars, cacheVars, fetch, refresh,
                   loopVars, listeners, emitVars>>

\* updateActor: the frame's document is cached if the actor fights.
HandleActor(s) ==
    LET d == Head(frames[s]).doc IN
    /\ Take(s, "updateActor")
    /\ IF combat # None /\ d.of \in ActorsOf(combat)
       THEN /\ actorCache' = [actorCache EXCEPT ![d.of] = d]
            /\ Emit(combat, actorCache')
       ELSE UNCHANGED <<actorCache, emitVars>>
    /\ UNCHANGED <<worldVars, phase, mirrorVars, fetching, fetch, refresh, reseedVars,
                   loopVars, listeners>>

----------------------------------------------------------------------------
(* reconcileLoop.                                                          *)

\* Mutant of ReconcileTick: no read.
ReconcileTickIdle(s) ==
    /\ rLoop[s] = "delay"
    /\ ~active[s]
    /\ rLoop' = [rLoop EXCEPT ![s] = "idle"]
    /\ UNCHANGED <<worldVars, phase, mirrorVars, cacheVars, fetch, refresh, reseedVars,
                   loopAc, active, sLoop, frames, listeners, emitVars>>

\* The timer fires (or the abort cuts it short): while somebody listens,
\* reseed and await it.  (With nobody listening the loop just waits again.)
ReconcileTick(s) ==
    /\ rLoop[s] = "delay"
    /\ \/ /\ ~active[s]
          /\ rLoop' = [rLoop EXCEPT ![s] = "idle"]
          /\ UNCHANGED reseedVars
       \/ /\ active[s] /\ listeners # {}
          /\ rLoop' = [rLoop EXCEPT ![s] = "reseed"]
          /\ Reseed(Awaiting("reconcile", s))
    /\ UNCHANGED <<worldVars, phase, mirrorVars, cacheVars, fetch, refresh,
                   loopAc, active, sLoop, frames, listeners, emitVars>>

ReconcileResumes(s) ==
    /\ rLoop[s] = "reseed" /\ runner # Awaiting("reconcile", s)
    /\ rLoop' = [rLoop EXCEPT ![s] = IF active[s] THEN "delay" ELSE "idle"]
    /\ UNCHANGED <<worldVars, phase, mirrorVars, cacheVars, fetch, refresh, reseedVars,
                   loopAc, active, sLoop, frames, listeners, emitVars>>

----------------------------------------------------------------------------
WorldStep ==
    \/ \E c \in Combats : CreateCombat(c) \/ ChangeCombat(c)
    \/ \E i \in CombatIds : SwitchCombat(i) \/ DeleteCombat(i)
    \/ \E a \in Actors : EditActor(a)

Requests ==
    \/ \E c \in Clients : Attach(c) \/ Detach(c)
    \/ \E a \in Actors : HpRequest(a)

ReseedStep == ReseedRead \/ ReseedFails \/ ReseedApplies

ActorStep == (\E a \in Actors : FetchRead(a)) \/ FetchDone
HpStep == HpFails \/ HpWrite \/ RefreshRead \/ RefreshDone

Handle(s) == HandleCombat(s) \/ HandleDelete(s) \/ HandleCombatant(s) \/ HandleActor(s)

LoopStep(s) ==
    \/ SubscribeResumes(s) \/ StreamOpens(s) \/ StreamEnds(s) \/ BackoffOver(s) \/ Handle(s)
    \/ ReconcileTick(s) \/ ReconcileResumes(s)

Next ==
    \/ WorldStep \/ Requests
    \/ Start \/ StartResumes \/ RestartStream \/ Stop
    \/ ReseedStep \/ ActorStep \/ HpStep
    \/ \E s \in Streams : LoopStep(s)

Spec == Init /\ [][Next]_vars

\* Timers fire, a bounded await ends, an aborted stream ends.
Scheduling ==
    /\ WF_vars(Start \/ StartResumes) /\ WF_vars(ReseedStep)
    /\ WF_vars(ActorStep) /\ WF_vars(HpStep)
    /\ \A s \in Streams :
        /\ WF_vars(SubscribeResumes(s) \/ BackoffOver(s) \/ Handle(s) \/ (~active[s] /\ StreamEnds(s)))
        /\ WF_vars(ReconcileTick(s) \/ ReconcileResumes(s))

\* Again and again the relay answers a read before another one is asked for,
\* and accepts a subscription.
PromptRelay ==
    /\ SF_vars(~pending /\ ReseedRead) /\ SF_vars(~pending /\ ReseedApplies)
    /\ \A s \in Streams : SF_vars(StreamOpens(s))

FairSpec == Spec /\ Scheduling /\ PromptRelay
----------------------------------------------------------------------------
(* Properties.                                                             *)

Answers == [pick : Combats \cup {None}, version : Nat]
Frames ==
    [hook : {"combat"}, doc : Combats, version : Nat]
    \cup [hook : {"combatant"}]
    \cup [hook : {"deleteCombat"}, id : CombatIds \cup {None}, version : Nat]
    \cup [hook : {"updateActor"}, doc : Docs]
Runners == [task : {"none", "start", "subscribe", "reconcile"}, stream : Streams \cup {None}]

\* Every variable keeps its type.
TypeOK ==
    /\ DOMAIN combats \subseteq CombatIds
    /\ \A i \in DOMAIN combats : combats[i] \in Combats /\ combats[i].id = i
    /\ current \in CombatIds \cup {None}
    /\ DOMAIN combats \subseteq used /\ used \subseteq CombatIds
    /\ hp \in [Actors -> Hps] /\ edits \in Nat
    /\ phase \in {"off", "starting", "on", "stopped"}
    /\ combat \in Combats \cup {None} /\ mVersion \in Nat
    /\ actorCache \in [Actors -> Docs \cup {None, Absent}]
    /\ fetching \subseteq Actors
    /\ fetch \in [of : Actors, doc : Docs \cup {None}] \cup {None}
    /\ refresh \in {None} \cup
         [of : Actors, stage : {"asked", "written", "served"}, doc : Docs \cup {None}]
    /\ reseed \in {"idle", "sent", "read"} /\ pending \in BOOLEAN
    /\ answer \in Answers \cup {None} /\ runner \in Runners
    /\ loopAc \in Streams \cup {None} /\ active \in [Streams -> BOOLEAN]
    /\ sLoop \in [Streams -> {"idle", "reseed", "open", "live", "delay"}]
    /\ rLoop \in [Streams -> {"idle", "delay", "reseed"}]
    /\ frames \in [Streams -> Seq(Frames)]
    /\ listeners \subseteq Clients
    /\ asked \in BOOLEAN

\* Every attached browser has been written the current view: emit() follows
\* every change of the mirror and of the cache, and what it suppresses as
\* unchanged is what everybody has, those attached since the last emit too.
ListenersCurrent ==
    LET now == View(combat, actorCache) IN
    /\ lastEmitted \in {None, now}
    /\ \A c \in listeners : feed[c] = now

\* Whoever asks for a reseed gets a read of its own, served (or failed) after
\* the request, even if the request coalesced into a read already under way.
RequestsAreRead == asked => reseed = "sent" \/ pending

\* A cached document is the actor's own, whatever the relay answered.
CacheIsOwn ==
    \A a \in Actors : actorCache[a] \in Docs => actorCache[a].of = a

\* Exact hit points are shown for player characters only, and they are never
\* another actor's.
OnlyPcsShowHp ==
    \A c \in listeners : feed[c].active =>
        \A k \in DOMAIN feed[c].combatants :
            LET shown == feed[c].combatants[k] IN
            "hp" \in DOMAIN shown.cell =>
                /\ ActorOf[shown.id] \in PCs
                /\ actorCache[ActorOf[shown.id]] = [of |-> ActorOf[shown.id], hp |-> shown.cell.hp]

\* There is one pair of loops: of all controllers only loopAc is not on its
\* way out, and its loops are running.
OneLoop ==
    /\ \A s \in Streams : active[s] <=> s = loopAc
    /\ loopAc # None => sLoop[loopAc] # "idle" /\ rLoop[loopAc] # "idle"
    /\ phase = "on" <=> loopAc # None

\* A combat's mirror is cleared only once the combat is gone or a read has
\* picked none; a garbled or another combat's deleteCombat does not clear it.
ClearedOnlyWhenGone ==
    [][combat # None /\ combat' = None =>
        combat.id \notin DOMAIN combats \/ answer = [pick |-> None, version |-> mVersion']]_vars

\* While somebody listens, the mirror ends up as the world is once the world
\* rests, whatever frames were lost: the reconcile loop's reads see to it.
Watched == listeners # {} /\ loopAc # None
MirrorCatchesUp == <>[]Watched => <>[](combat = Pick)

\* A subscribe loop without a subscription gets one again, whatever its
\* re-seed meets, and one whose controller was given up by stop() or
\* restartStream() ends, whatever it was waiting for.
LoopsMoveOn ==
    \A s \in Streams :
        sLoop[s] \in {"delay", "reseed"} \/ (s # loopAc /\ sLoop[s] # "idle")
            ~> sLoop[s] = "idle" \/ (s = loopAc /\ sLoop[s] = "live")

=============================================================================
