-------------------------- MODULE EncountersProofs ---------------------------
(***************************************************************************)
(* Proofs about Encounters for every set of combats, actors, browsers and  *)
(* streams: type correctness, that every browser has the current view,     *)
(* that no request for a re-read is lost, that a cached document is its    *)
(* actor's own, that one pair of loops is live, that a mirrored combat is  *)
(* cleared only when it is gone, and that hit points are shown of player   *)
(* characters only.                                                        *)
(***************************************************************************)
EXTENDS Encounters, EncounterViewProofs

\* pickCurrentEncounter picks one of the world's combats.
LEMMA PickType ==
  ASSUME TypeOK
  PROVE  /\ Pick \in Combats \cup {None}
         /\ Pick # None => Pick.id \in DOMAIN combats
<1> DEFINE started == {i \in DOMAIN combats : combats[i].round >= 1}
<1>1. CASE current \in DOMAIN combats
  BY <1>1 DEF TypeOK, Pick, PickCurrentEncounter
<1>2. CASE current \notin DOMAIN combats /\ Cardinality(started) = 1
  <2>1. started # {}
    BY <1>2, FS_EmptySet
  <2>2. PICK i \in started : i = CHOOSE j \in started : TRUE
    BY <2>1
  <2>3. Pick = combats[i]
    BY <1>2, <2>2 DEF Pick, PickCurrentEncounter
  <2>4. QED
    BY <2>2, <2>3 DEF TypeOK
<1>3. CASE current \notin DOMAIN combats /\ Cardinality(started) # 1
  BY <1>3 DEF Pick, PickCurrentEncounter
<1>4. QED
  BY <1>1, <1>2, <1>3

\* The linked actors of a combat are actors.
LEMMA ActorsOfType ==
  ASSUME NEW m \in Combats
  PROVE  ActorsOf(m) \subseteq Actors
<1>1. Entries(m.list) \subseteq Combatants
  BY EncountersAssumption DEF Entries
<1>2. \A c \in Entries(m.list) : ActorOf[c] \in Actors \cup {None}
  BY <1>1, EncounterViewAssumption
<1>3. QED
  BY <1>2 DEF ActorsOf

\* Seeding the cache for a combat queues actors only.
LEMMA SeedType ==
  ASSUME fetching \subseteq Actors, NEW m \in Combats \cup {None}, SeedActorCache(m)
  PROVE  fetching' \subseteq Actors
<1>1. CASE m = None
  BY <1>1 DEF SeedActorCache
<1>2. CASE m # None
  BY <1>2, ActorsOfType DEF SeedActorCache
<1>3. QED
  BY <1>1, <1>2

\* A read of an actor yields a document or nothing.
LEMMA ServedType ==
  ASSUME TypeOK, NEW a \in Actors, NEW d \in Served(a)
  PROVE  d \in Docs \cup {None}
BY DEF TypeOK, Served, Doc, Docs

\* Only a document of the actor itself is cached.
LEMMA CacheEntryType ==
  ASSUME NEW a \in Actors, NEW d \in Docs \cup {None}
  PROVE  /\ CacheEntry(a, d) \in Docs \cup {None}
         /\ CacheEntry(a, d) \in Docs => CacheEntry(a, d).of = a
BY EncountersAssumption DEF CacheEntry

\* Publishing a frame keeps the frames' type.
LEMMA PublishType ==
  ASSUME TypeOK, NEW f \in Frames, Publish(f)
  PROVE  frames' \in [Streams -> Seq(Frames)]
<1>1. PICK R \in SUBSET Streams :
        frames' = [s \in Streams |-> IF s \in R THEN Append(frames[s], f) ELSE frames[s]]
  BY DEF Publish
<1>2. \A s \in Streams : Append(frames[s], f) \in Seq(Frames) /\ frames[s] \in Seq(Frames)
  BY DEF TypeOK
<1>3. QED
  BY <1>1, <1>2

\* The frames an edit publishes.
LEMMA FrameTypes ==
  ASSUME edits \in Nat
  PROVE  /\ \A c \in Combats : CombatFrame(c) \in Frames
         /\ CombatantFrame \in Frames /\ GarbledDelete \in Frames
         /\ \A i \in CombatIds : DeleteFrame(i) \in Frames
         /\ \A d \in Docs : ActorFrame(d) \in Frames
<1>1. edits + 1 \in Nat
  OBVIOUS
<1>2. QED
  BY <1>1 DEF CombatFrame, CombatantFrame, GarbledDelete, DeleteFrame, ActorFrame, Frames

\* Taking a frame keeps the frames' type.
LEMMA TakeType ==
  ASSUME TypeOK, NEW s \in Streams, NEW h, Take(s, h)
  PROVE  /\ frames' \in [Streams -> Seq(Frames)]
         /\ Head(frames[s]) \in Frames /\ Head(frames[s]).hook = h
<1>1. frames[s] \in Seq(Frames) /\ frames[s] # <<>>
  BY DEF TypeOK, Take
<1>2. Head(frames[s]) \in Frames /\ Tail(frames[s]) \in Seq(Frames)
  BY <1>1
<1>3. QED
  BY <1>2 DEF TypeOK, Take

\* A frame with the fields its hook tells of.
LEMMA FrameFields ==
  ASSUME NEW f \in Frames
  PROVE  /\ f.hook = "combat" => f.doc \in Combats /\ f.version \in Nat
         /\ f.hook = "deleteCombat" => f.id \in CombatIds \cup {None} /\ f.version \in Nat
         /\ f.hook = "updateActor" => f.doc \in Docs
BY DEF Frames

\* Every step keeps the type invariant; the actions are grouped as in Next.
LEMMA WorldType ==
  ASSUME TypeOK, WorldStep
  PROVE  TypeOK'
<1> USE DEF vars, worldVars, cacheVars, reseedVars, loopVars, emitVars, mirrorVars
<1>1. edits \in Nat
  BY DEF TypeOK
<1>2. CASE \E c \in Combats : CreateCombat(c)
  <2>1. PICK c \in Combats : CreateCombat(c)
    BY <1>2
  <2>2. frames' \in [Streams -> Seq(Frames)]
    BY <1>1, <2>1, PublishType, FrameTypes DEF CreateCombat
  <2>3. c.id \in CombatIds
    BY EncountersAssumption
  <2>4. QED
    BY <2>1, <2>2, <2>3 DEF CreateCombat, Edit, TypeOK
<1>3. CASE \E c \in Combats : ChangeCombat(c)
  <2>1. PICK c \in Combats : ChangeCombat(c)
    BY <1>3
  <2>2. frames' \in [Streams -> Seq(Frames)]
    BY <1>1, <2>1, PublishType, FrameTypes DEF ChangeCombat, ChangeFrame
  <2>3. QED
    BY <2>1, <2>2 DEF ChangeCombat, Edit, TypeOK
<1>4. CASE \E i \in CombatIds : SwitchCombat(i)
  <2>1. PICK i \in CombatIds : SwitchCombat(i)
    BY <1>4
  <2>2. combats[i] \in Combats
    BY <2>1 DEF SwitchCombat, TypeOK
  <2>3. frames' \in [Streams -> Seq(Frames)]
    BY <1>1, <2>1, <2>2, PublishType, FrameTypes DEF SwitchCombat
  <2>4. QED
    BY <2>1, <2>3 DEF SwitchCombat, Edit, TypeOK
<1>5. CASE \E i \in CombatIds : DeleteCombat(i)
  <2>1. PICK i \in CombatIds : DeleteCombat(i)
    BY <1>5
  <2>2. frames' \in [Streams -> Seq(Frames)]
    BY <1>1, <2>1, PublishType, FrameTypes DEF DeleteCombat
  <2>3. QED
    BY <2>1, <2>2 DEF DeleteCombat, Edit, TypeOK
<1>6. CASE \E a \in Actors : EditActor(a)
  <2>1. PICK a \in Actors, h \in Hps : EditActor(a) /\ SetHp(a, h)
    BY <1>6 DEF EditActor
  <2>2. [of |-> a, hp |-> h] \in Docs
    BY DEF Docs
  <2>3. frames' \in [Streams -> Seq(Frames)]
    BY <1>1, <2>1, <2>2, PublishType, FrameTypes DEF SetHp
  <2>4. QED
    BY <2>1, <2>3 DEF EditActor, SetHp, Edit, TypeOK
<1>7. QED
  BY <1>2, <1>3, <1>4, <1>5, <1>6 DEF WorldStep

LEMMA ReseedType ==
  ASSUME TypeOK, NEW who \in Runners, Reseed(who)
  PROVE  /\ asked' \in BOOLEAN /\ reseed' \in {"idle", "sent", "read"}
         /\ pending' \in BOOLEAN /\ runner' \in Runners
         /\ answer' \in Answers \cup {None}
BY DEF TypeOK, Reseed

LEMMA RunnerTypes ==
  /\ Nobody \in Runners /\ Awaiting("start", None) \in Runners
  /\ \A s \in Streams : Awaiting("subscribe", s) \in Runners /\ Awaiting("reconcile", s) \in Runners
BY DEF Nobody, Awaiting, Runners

LEMMA StartLoopsType ==
  ASSUME TypeOK, NEW act \in [Streams -> BOOLEAN], StartLoops(act)
  PROVE  /\ loopAc' \in Streams /\ active' \in [Streams -> BOOLEAN]
         /\ sLoop' \in [Streams -> {"idle", "reseed", "open", "live", "delay"}]
         /\ rLoop' \in [Streams -> {"idle", "delay", "reseed"}]
BY DEF TypeOK, StartLoops

LEMMA EndOfTurnType ==
  ASSUME TypeOK, EndOfTurn
  PROVE  /\ reseed' \in {"idle", "sent", "read"} /\ pending' \in BOOLEAN
         /\ runner' \in Runners /\ answer' \in Answers \cup {None}
BY RunnerTypes DEF TypeOK, EndOfTurn

LEMMA LifecycleType ==
  ASSUME TypeOK, Start \/ StartResumes \/ RestartStream \/ Stop
  PROVE  TypeOK'
<1> USE DEF vars, worldVars, cacheVars, reseedVars, loopVars, emitVars, mirrorVars
<1>1. CASE Start
  BY <1>1, ReseedType, RunnerTypes DEF Start, TypeOK
<1>2. CASE StartResumes
  <2>1. StartLoops(active)
    BY <1>2 DEF StartResumes
  <2>2. QED
    BY <1>2, <2>1, StartLoopsType DEF StartResumes, TypeOK
<1>3. CASE RestartStream
  <2>1. Aborted \in [Streams -> BOOLEAN]
    BY DEF Aborted, TypeOK
  <2>2. StartLoops(Aborted) /\ Reseed(Nobody)
    BY <1>3 DEF RestartStream
  <2>3. QED
    BY <1>3, <2>1, <2>2, StartLoopsType, ReseedType, RunnerTypes DEF RestartStream, TypeOK
<1>4. CASE Stop
  BY <1>4 DEF Stop, Aborted, TypeOK
<1>5. QED
  BY <1>1, <1>2, <1>3, <1>4

LEMMA RequestsType ==
  ASSUME TypeOK, Requests
  PROVE  TypeOK'
<1> USE DEF vars, worldVars, cacheVars, reseedVars, loopVars, emitVars, mirrorVars
<1>1. CASE \E c \in Clients : Attach(c)
  <2>1. PICK c \in Clients : Attach(c)
    BY <1>1
  <2>2. Reseed(Nobody)
    BY <2>1 DEF Attach
  <2>3. QED
    BY <2>1, <2>2, ReseedType, RunnerTypes DEF Attach, TypeOK
<1>2. CASE \E c \in Clients : Detach(c)
  BY <1>2 DEF Detach, TypeOK
<1>3. CASE \E a \in Actors : HpRequest(a)
  BY <1>3 DEF HpRequest, TypeOK
<1>4. QED
  BY <1>1, <1>2, <1>3 DEF Requests

\* A read that was served has an answer, which ReseedApplies then applies.
ReadHasAnswer == reseed = "read" => answer \in Answers

LEMMA ReseedStepType ==
  ASSUME TypeOK, ReadHasAnswer, ReseedStep
  PROVE  TypeOK'
<1> USE DEF vars, worldVars, cacheVars, reseedVars, loopVars, emitVars, mirrorVars
<1>1. CASE ReseedRead
  <2>1. [pick |-> Pick, version |-> edits] \in Answers
    BY PickType DEF TypeOK, Answers
  <2>2. QED
    BY <1>1, <2>1 DEF ReseedRead, TypeOK
<1>2. CASE ReseedFails
  BY <1>2, EndOfTurnType DEF ReseedFails, TypeOK
<1>3. CASE ReseedApplies
  <2>1. answer.pick \in Combats \cup {None} /\ answer.version \in Nat
    BY <1>3 DEF ReseedApplies, ReadHasAnswer, TypeOK, Answers
  <2>2. fetching' \subseteq Actors
    BY <1>3, <2>1, SeedType DEF ReseedApplies, TypeOK
  <2>3. QED
    BY <1>3, <2>1, <2>2, EndOfTurnType DEF ReseedApplies, TypeOK
<1>4. QED
  BY <1>1, <1>2, <1>3 DEF ReseedStep

LEMMA ActorStepType ==
  ASSUME TypeOK, ActorStep
  PROVE  TypeOK'
<1> USE DEF vars, worldVars, cacheVars, reseedVars, loopVars, emitVars, mirrorVars
<1>1. CASE \E a \in Actors : FetchRead(a)
  <2>1. PICK a \in Actors : FetchRead(a) /\ \E d \in Served(a) : fetch' = [of |-> a, doc |-> d]
    BY <1>1 DEF FetchRead
  <2>2. fetch' \in [of : Actors, doc : Docs \cup {None}]
    BY <2>1, ServedType
  <2>3. QED
    BY <2>1, <2>2 DEF FetchRead, TypeOK
<1>2. CASE FetchDone
  <2>1. fetch.of \in Actors /\ fetch.doc \in Docs \cup {None}
    BY <1>2 DEF FetchDone, TypeOK
  <2>2. CacheEntry(fetch.of, fetch.doc) \in Docs \cup {None}
    BY <2>1, CacheEntryType
  <2>3. QED
    BY <1>2, <2>1, <2>2 DEF FetchDone, Settle, TypeOK
<1>3. QED
  BY <1>1, <1>2 DEF ActorStep

LEMMA HpStepType ==
  ASSUME TypeOK, HpStep
  PROVE  TypeOK'
<1> USE DEF vars, worldVars, cacheVars, reseedVars, loopVars, emitVars, mirrorVars
<1>1. CASE HpFails
  BY <1>1 DEF HpFails, TypeOK
<1>2. CASE HpWrite
  <2>1. refresh \in [of : Actors, stage : {"asked", "written", "served"}, doc : Docs \cup {None}]
    BY <1>2 DEF HpWrite, TypeOK
  <2>2. PICK h \in Hps : SetHp(refresh.of, h)
    BY <1>2 DEF HpWrite
  <2>3. [of |-> refresh.of, hp |-> h] \in Docs
    BY <2>1 DEF Docs
  <2>4. frames' \in [Streams -> Seq(Frames)]
    BY <2>2, <2>3, PublishType, FrameTypes DEF SetHp, TypeOK
  <2>5. hp' \in [Actors -> Hps] /\ edits' \in Nat
    BY <2>1, <2>2 DEF SetHp, Edit, TypeOK
  <2>6. refresh' \in [of : Actors, stage : {"asked", "written", "served"}, doc : Docs \cup {None}]
    BY <1>2, <2>1 DEF HpWrite
  <2>7. QED
    BY <1>2, <2>4, <2>5, <2>6 DEF HpWrite, TypeOK
<1>3. CASE RefreshRead
  <2>1. refresh \in [of : Actors, stage : {"asked", "written", "served"}, doc : Docs \cup {None}]
    BY <1>3 DEF RefreshRead, TypeOK
  <2>2. PICK d \in Served(refresh.of) : refresh' = [refresh EXCEPT !.doc = d, !.stage = "served"]
    BY <1>3 DEF RefreshRead
  <2>3. d \in Docs \cup {None}
    BY <2>1, <2>2, ServedType
  <2>4. refresh' \in [of : Actors, stage : {"asked", "written", "served"}, doc : Docs \cup {None}]
    BY <2>1, <2>2, <2>3
  <2>5. QED
    BY <1>3, <2>4 DEF RefreshRead, TypeOK
<1>4. CASE RefreshDone
  <2>1. refresh.of \in Actors /\ refresh.doc \in Docs \cup {None}
    BY <1>4 DEF RefreshDone, TypeOK
  <2>2. CacheEntry(refresh.of, refresh.doc) \in Docs \cup {None}
    BY <2>1, CacheEntryType
  <2>3. QED
    BY <1>4, <2>1, <2>2 DEF RefreshDone, TypeOK
<1>5. QED
  BY <1>1, <1>2, <1>3, <1>4 DEF HpStep

LEMMA HandleType ==
  ASSUME TypeOK, NEW s \in Streams, Handle(s)
  PROVE  TypeOK'
<1> USE DEF vars, worldVars, cacheVars, reseedVars, loopVars, emitVars, mirrorVars
<1> DEFINE f == Head(frames[s])
<1>1. CASE HandleCombat(s)
  <2>1. frames' \in [Streams -> Seq(Frames)] /\ f.doc \in Combats /\ f.version \in Nat
    BY <1>1, TakeType, FrameFields DEF HandleCombat
  <2>2. fetching' \subseteq Actors
    BY <1>1, <2>1, SeedType DEF HandleCombat, TypeOK
  <2>3. combat' = f.doc /\ mVersion' = f.version
    BY <1>1 DEF HandleCombat
  <2>4. QED
    BY <1>1, <2>1, <2>2, <2>3 DEF HandleCombat, TypeOK
<1>2. CASE HandleDelete(s)
  <2>1. frames' \in [Streams -> Seq(Frames)] /\ f.version \in Nat
    BY <1>2, TakeType, FrameFields DEF HandleDelete
  <2>2. combat' \in Combats \cup {None} /\ mVersion' \in Nat
    BY <1>2, <2>1 DEF HandleDelete, TypeOK
  <2>3. CASE Reseed(Nobody)
    BY <1>2, <2>1, <2>2, <2>3, ReseedType, RunnerTypes DEF HandleDelete, TypeOK
  <2>4. CASE UNCHANGED reseedVars
    BY <1>2, <2>1, <2>2, <2>4 DEF HandleDelete, TypeOK
  <2>5. QED
    BY <1>2, <2>3, <2>4 DEF HandleDelete
<1>3. CASE HandleCombatant(s)
  <2>1. frames' \in [Streams -> Seq(Frames)]
    BY <1>3, TakeType DEF HandleCombatant
  <2>2. QED
    BY <1>3, <2>1, ReseedType, RunnerTypes DEF HandleCombatant, TypeOK
<1>4. CASE HandleActor(s)
  <2>1. frames' \in [Streams -> Seq(Frames)] /\ f.doc \in Docs
    BY <1>4, TakeType, FrameFields DEF HandleActor
  <2>2. actorCache' \in [Actors -> Docs \cup {None, Absent}]
    BY <1>4, <2>1 DEF HandleActor, TypeOK
  <2>3. QED
    BY <1>4, <2>1, <2>2 DEF HandleActor, TypeOK
<1>5. QED
  BY <1>1, <1>2, <1>3, <1>4 DEF Handle

LEMMA LoopStepType ==
  ASSUME TypeOK, NEW s \in Streams, LoopStep(s)
  PROVE  TypeOK'
<1> USE DEF vars, worldVars, cacheVars, reseedVars, loopVars, emitVars, mirrorVars
<1>1. CASE SubscribeResumes(s) \/ StreamOpens(s) \/ ReconcileResumes(s)
  BY <1>1 DEF SubscribeResumes, StreamOpens, ReconcileResumes, TypeOK
<1>2. CASE StreamEnds(s)
  <2>1. <<>> \in Seq(Frames)
    OBVIOUS
  <2>2. QED
    BY <1>2, <2>1 DEF StreamEnds, TypeOK
<1>3. ASSUME NEW who \in Runners, Reseed(who)
      PROVE  /\ asked' \in BOOLEAN /\ reseed' \in {"idle", "sent", "read"}
             /\ pending' \in BOOLEAN /\ runner' \in Runners
             /\ answer' \in Answers \cup {None}
  BY <1>3, ReseedType
<1>4. CASE BackoffOver(s)
  <2>1. CASE active[s]
    <3>1. Reseed(Awaiting("subscribe", s))
      BY <1>4, <2>1 DEF BackoffOver
    <3>2. /\ asked' \in BOOLEAN /\ reseed' \in {"idle", "sent", "read"}
          /\ pending' \in BOOLEAN /\ runner' \in Runners
          /\ answer' \in Answers \cup {None}
      BY <1>3, <3>1, RunnerTypes
    <3>3. sLoop' = [sLoop EXCEPT ![s] = "reseed"]
      BY <1>4, <2>1 DEF BackoffOver
    <3>4. sLoop' \in [Streams -> {"idle", "reseed", "open", "live", "delay"}]
      BY <3>3 DEF TypeOK
    <3>5. QED
      BY <1>4, <3>2, <3>4 DEF BackoffOver, TypeOK
  <2>2. CASE ~active[s]
    <3>1. sLoop' = [sLoop EXCEPT ![s] = "idle"] /\ UNCHANGED reseedVars
      BY <1>4, <2>2 DEF BackoffOver
    <3>2. sLoop' \in [Streams -> {"idle", "reseed", "open", "live", "delay"}]
      BY <3>1 DEF TypeOK
    <3>3. QED
      BY <1>4, <3>1, <3>2 DEF BackoffOver, TypeOK
  <2>3. QED
    BY <2>1, <2>2
<1>5. CASE ReconcileTick(s)
  <2>1. rLoop' \in [Streams -> {"idle", "delay", "reseed"}]
    <3>1. \/ rLoop' = [rLoop EXCEPT ![s] = "idle"]
          \/ rLoop' = [rLoop EXCEPT ![s] = "reseed"]
      BY <1>5 DEF ReconcileTick
    <3>2. QED
      BY <3>1 DEF TypeOK
  <2>2. CASE Reseed(Awaiting("reconcile", s))
    <3>1. /\ asked' \in BOOLEAN /\ reseed' \in {"idle", "sent", "read"}
          /\ pending' \in BOOLEAN /\ runner' \in Runners
          /\ answer' \in Answers \cup {None}
      BY <1>3, <2>2, RunnerTypes
    <3>2. QED
      BY <1>5, <2>1, <3>1 DEF ReconcileTick, TypeOK
  <2>3. CASE UNCHANGED reseedVars
    BY <1>5, <2>1, <2>3 DEF ReconcileTick, TypeOK
  <2>4. QED
    BY <1>5, <2>2, <2>3 DEF ReconcileTick
<1>6. QED
  BY <1>1, <1>2, <1>4, <1>5, HandleType DEF LoopStep

LEMMA InitType == Init => TypeOK /\ ReadHasAnswer
<1> SUFFICES ASSUME Init PROVE TypeOK /\ ReadHasAnswer
  OBVIOUS
<1>1. \A i \in DOMAIN combats : combats[i] \in Combats /\ combats[i].id = i
  BY DEF Init
<1>2. DOMAIN combats \subseteq CombatIds
  BY DEF Init
<1>3. Nobody \in Runners
  BY RunnerTypes
<1>4. frames \in [Streams -> Seq(Frames)]
  BY DEF Init
<1>5. TypeOK
  BY <1>1, <1>2, <1>3, <1>4 DEF Init, TypeOK
<1>6. ReadHasAnswer
  BY DEF Init, ReadHasAnswer
<1>7. QED
  BY <1>5, <1>6

LEMMA NextType ==
  ASSUME TypeOK, ReadHasAnswer, [Next]_vars
  PROVE  TypeOK'
<1>1. CASE UNCHANGED vars
  BY <1>1 DEF TypeOK, vars, worldVars, cacheVars, reseedVars, loopVars, emitVars, mirrorVars
<1>2. CASE WorldStep \/ Requests
  BY <1>2, WorldType, RequestsType
<1>3. CASE Start \/ StartResumes \/ RestartStream \/ Stop
  BY <1>3, LifecycleType
<1>4. CASE ReseedStep \/ ActorStep \/ HpStep
  BY <1>4, ReseedStepType, ActorStepType, HpStepType
<1>5. CASE \E s \in Streams : LoopStep(s)
  BY <1>5, LoopStepType
<1>6. QED
  BY <1>1, <1>2, <1>3, <1>4, <1>5 DEF Next

(***************************************************************************)
(* What a step may do to the state of reseed().                            *)
(***************************************************************************)

\* A step leaves that state alone, calls reseed(), or ends or continues a
\* turn of its loop.
LEMMA ReseedFrame ==
  ASSUME [Next]_vars
  PROVE  \/ UNCHANGED reseedVars
         \/ \E who \in Runners : Reseed(who)
         \/ ReseedStep
<1> USE RunnerTypes
<1>1. CASE UNCHANGED vars
  BY <1>1 DEF vars
<1>2. CASE WorldStep
  BY <1>2 DEF WorldStep, CreateCombat, ChangeCombat, SwitchCombat, DeleteCombat, EditActor
<1>3. CASE Requests
  BY <1>3 DEF Requests, Attach, Detach, HpRequest
<1>4. CASE Start \/ StartResumes \/ RestartStream \/ Stop
  BY <1>4 DEF Start, StartResumes, RestartStream, Stop
<1>5. CASE ReseedStep
  BY <1>5
<1>6. CASE ActorStep \/ HpStep
  BY <1>6 DEF ActorStep, FetchRead, FetchDone, HpStep, HpFails, HpWrite, RefreshRead, RefreshDone
<1>7. ASSUME NEW s \in Streams, LoopStep(s)
      PROVE  UNCHANGED reseedVars \/ \E who \in Runners : Reseed(who)
  <2>1. CASE SubscribeResumes(s) \/ StreamOpens(s) \/ StreamEnds(s) \/ ReconcileResumes(s)
    BY <2>1 DEF SubscribeResumes, StreamOpens, StreamEnds, ReconcileResumes
  <2>2. CASE BackoffOver(s)
    <3>1. Reseed(Awaiting("subscribe", s)) \/ UNCHANGED reseedVars
      BY <2>2 DEF BackoffOver
    <3>2. QED
      BY <3>1
  <2>3. CASE ReconcileTick(s)
    <3>1. Reseed(Awaiting("reconcile", s)) \/ UNCHANGED reseedVars
      BY <2>3 DEF ReconcileTick
    <3>2. QED
      BY <3>1
  <2>4. CASE Handle(s)
    BY <2>4 DEF Handle, HandleCombat, HandleDelete, HandleCombatant, HandleActor
  <2>5. QED
    BY <1>7, <2>1, <2>2, <2>3, <2>4 DEF LoopStep
<1>8. QED
  BY <1>1, <1>2, <1>3, <1>4, <1>5, <1>6, <1>7 DEF Next

LEMMA NextAnswer ==
  ASSUME TypeOK, ReadHasAnswer, [Next]_vars
  PROVE  ReadHasAnswer'
<1>1. CASE UNCHANGED reseedVars
  BY <1>1 DEF ReadHasAnswer, reseedVars
<1>2. CASE \E who \in Runners : Reseed(who)
  BY <1>2 DEF ReadHasAnswer, Reseed
<1>3. CASE ReseedRead
  BY <1>3, PickType DEF ReseedRead, ReadHasAnswer, Answers, TypeOK
<1>4. CASE ReseedFails \/ ReseedApplies
  BY <1>4 DEF ReseedFails, ReseedApplies, EndOfTurn, ReadHasAnswer
<1>5. QED
  BY <1>1, <1>2, <1>3, <1>4, ReseedFrame DEF ReseedStep

\* Every variable keeps its type, for all values of the constants.
THEOREM TypeCorrect == Spec => [](TypeOK /\ ReadHasAnswer)
<1>1. TypeOK /\ ReadHasAnswer /\ [Next]_vars => (TypeOK /\ ReadHasAnswer)'
  BY NextType, NextAnswer
<1>2. QED
  BY InitType, <1>1, PTL DEF Spec

LEMMA NextRequests ==
  ASSUME TypeOK, RequestsAreRead, [Next]_vars
  PROVE  RequestsAreRead'
<1>1. CASE UNCHANGED reseedVars
  BY <1>1 DEF RequestsAreRead, reseedVars
<1>2. CASE \E who \in Runners : Reseed(who)
  BY <1>2 DEF RequestsAreRead, Reseed, TypeOK
<1>3. CASE ReseedRead
  BY <1>3 DEF ReseedRead, RequestsAreRead
<1>4. CASE ReseedFails \/ ReseedApplies
  BY <1>4 DEF ReseedFails, ReseedApplies, EndOfTurn, RequestsAreRead, TypeOK
<1>5. QED
  BY <1>1, <1>2, <1>3, <1>4, ReseedFrame DEF ReseedStep

\* No request for a re-read is lost: a read is served or fails after it,
\* however the requests and the reads interleave.
THEOREM RequestsNotLost == Spec => []RequestsAreRead
<1>1. Init => RequestsAreRead
  BY DEF Init, RequestsAreRead
<1>2. TypeOK /\ RequestsAreRead /\ [Next]_vars => RequestsAreRead'
  BY NextRequests
<1>3. QED
  BY <1>1, <1>2, TypeCorrect, PTL DEF Spec

(***************************************************************************)
(* The loops.                                                              *)
(***************************************************************************)
LEMMA NextOneLoop ==
  ASSUME TypeOK, OneLoop, [Next]_vars
  PROVE  OneLoop'
<1> USE EncountersAssumption
<1>1. CASE UNCHANGED <<phase, loopVars>>
  BY <1>1 DEF OneLoop, loopVars
<1>2. CASE Start
  BY <1>2 DEF Start, OneLoop, loopVars
<1>3. ASSUME NEW act \in [Streams -> BOOLEAN], \A s \in Streams : ~act[s],
             StartLoops(act), phase' = "on"
      PROVE  OneLoop'
  BY <1>3 DEF StartLoops, OneLoop, TypeOK
<1>4. CASE StartResumes
  <2>1. \A s \in Streams : ~active[s]
    BY <1>4 DEF StartResumes, OneLoop, TypeOK
  <2>2. QED
    BY <1>3, <1>4, <2>1 DEF StartResumes, TypeOK
<1>5. CASE RestartStream
  <2>1. Aborted \in [Streams -> BOOLEAN] /\ \A s \in Streams : ~Aborted[s]
    BY DEF Aborted, OneLoop, TypeOK
  <2>2. phase' = "on"
    BY <1>5 DEF RestartStream, OneLoop, TypeOK
  <2>3. QED
    BY <1>3, <1>5, <2>1, <2>2 DEF RestartStream
<1>6. CASE Stop
  <2>1. \A s \in Streams : ~Aborted[s]
    BY DEF Aborted, OneLoop, TypeOK
  <2>2. QED
    BY <1>6, <2>1 DEF Stop, OneLoop
<1>7. ASSUME NEW s \in Streams, LoopStep(s)
      PROVE  OneLoop'
  <2>1. UNCHANGED <<phase, loopAc, active>>
    BY <1>7 DEF LoopStep, SubscribeResumes, StreamOpens, StreamEnds, BackoffOver, Handle,
         HandleCombat, HandleDelete, HandleCombatant, HandleActor, ReconcileTick,
         ReconcileResumes, loopVars
  <2>2. active[s] => /\ sLoop' = sLoop \/ \E x \in {"reseed", "open", "live", "delay"} :
                                            sLoop' = [sLoop EXCEPT ![s] = x]
                     /\ rLoop' = rLoop \/ \E x \in {"delay", "reseed"} :
                                            rLoop' = [rLoop EXCEPT ![s] = x]
    <3>1. CASE SubscribeResumes(s) \/ StreamOpens(s) \/ StreamEnds(s) \/ ReconcileResumes(s)
      BY <3>1 DEF SubscribeResumes, StreamOpens, StreamEnds, ReconcileResumes
    <3>2. CASE BackoffOver(s)
      BY <3>2 DEF BackoffOver
    <3>3. CASE ReconcileTick(s)
      BY <3>3 DEF ReconcileTick
    <3>4. CASE Handle(s)
      BY <3>4 DEF Handle, HandleCombat, HandleDelete, HandleCombatant, HandleActor, loopVars
    <3>5. QED
      BY <1>7, <3>1, <3>2, <3>3, <3>4 DEF LoopStep
  <2>3. \A t \in Streams : t # s => sLoop'[t] = sLoop[t] /\ rLoop'[t] = rLoop[t]
    <3>1. /\ sLoop' = sLoop \/ \E x : sLoop' = [sLoop EXCEPT ![s] = x]
          /\ rLoop' = rLoop \/ \E x : rLoop' = [rLoop EXCEPT ![s] = x]
      <4>1. CASE SubscribeResumes(s) \/ StreamOpens(s) \/ StreamEnds(s) \/ ReconcileResumes(s)
        BY <4>1 DEF SubscribeResumes, StreamOpens, StreamEnds, ReconcileResumes
      <4>2. CASE BackoffOver(s)
        BY <4>2 DEF BackoffOver
      <4>3. CASE ReconcileTick(s)
        BY <4>3 DEF ReconcileTick
      <4>4. CASE Handle(s)
        BY <4>4 DEF Handle, HandleCombat, HandleDelete, HandleCombatant, HandleActor, loopVars
      <4>5. QED
        BY <1>7, <4>1, <4>2, <4>3, <4>4 DEF LoopStep
    <3>2. QED
      BY <3>1 DEF TypeOK
  <2>4. loopAc # None => loopAc \in Streams
    BY DEF TypeOK
  <2>5. loopAc # None => sLoop'[loopAc] # "idle" /\ rLoop'[loopAc] # "idle"
    <3>1. CASE loopAc = s /\ loopAc # None
      BY <2>2, <3>1 DEF OneLoop, TypeOK
    <3>2. CASE loopAc # s
      BY <2>3, <2>4, <3>2 DEF OneLoop
    <3>3. QED
      BY <3>1, <3>2
  <2>6. QED
    BY <2>1, <2>5 DEF OneLoop
<1>8. QED
  <2>1. CASE UNCHANGED vars
    BY <1>1, <2>1 DEF vars
  <2>2. CASE WorldStep
    BY <1>1, <2>2 DEF WorldStep, CreateCombat, ChangeCombat, SwitchCombat, DeleteCombat, EditActor
  <2>3. CASE Requests
    BY <1>1, <2>3 DEF Requests, Attach, Detach, HpRequest
  <2>4. CASE ReseedStep \/ ActorStep \/ HpStep
    BY <1>1, <2>4 DEF ReseedStep, ReseedRead, ReseedFails, ReseedApplies, ActorStep, FetchRead,
         FetchDone, HpStep, HpFails, HpWrite, RefreshRead, RefreshDone
  <2>5. QED
    BY <1>2, <1>4, <1>5, <1>6, <1>7, <2>1, <2>2, <2>3, <2>4 DEF Next

\* However often the relay identity changes, one controller is active, it is
\* the one stop() would abort, and both its loops are running.
THEOREM OneLoopRuns == Spec => []OneLoop
<1>1. Init => OneLoop
  BY EncountersAssumption DEF Init, OneLoop
<1>2. TypeOK /\ OneLoop /\ [Next]_vars => OneLoop'
  BY NextOneLoop
<1>3. QED
  BY <1>1, <1>2, TypeCorrect, PTL DEF Spec

(***************************************************************************)
(* What the browsers have been written.                                    *)
(***************************************************************************)

\* feed has an entry for every browser.
FeedType == DOMAIN feed = Clients
Emitted == ListenersCurrent /\ FeedType

LEMMA ViewNotNull ==
  ASSUME NEW m \in Combats \cup {None}, NEW cache \in [Actors -> Docs \cup {None, Absent}]
  PROVE  View(m, cache) # None
BY ViewIsNotNull

\* After emit() every attached browser has the view it was called for.
LEMMA EmitReaches ==
  ASSUME Emitted, listeners \subseteq Clients,
         NEW m \in Combats \cup {None}, NEW cache \in [Actors -> Docs \cup {None, Absent}],
         Emit(m, cache)
  PROVE  /\ lastEmitted' = View(m, cache)
         /\ \A c \in listeners : feed'[c] = View(m, cache)
         /\ FeedType'
<1>1. CASE View(m, cache) = lastEmitted
  BY <1>1, ViewNotNull DEF Emit, Emitted, ListenersCurrent, FeedType, emitVars
<1>2. CASE View(m, cache) # lastEmitted
  BY <1>2 DEF Emit, Emitted, FeedType
<1>3. QED
  BY <1>1, <1>2

\* A step that changes neither the mirror, nor the cache, nor who listens,
\* nor what was written, keeps every browser current.
LEMMA QuietKeepsCurrent ==
  ASSUME Emitted, UNCHANGED <<combat, actorCache, listeners, emitVars>>
  PROVE  Emitted'
BY DEF Emitted, ListenersCurrent, FeedType, emitVars, View

\* A step that ends in emit() with its mirror and cache keeps it, too.
LEMMA EmitKeepsCurrent ==
  ASSUME TypeOK, TypeOK', Emitted, UNCHANGED listeners,
         NEW m, NEW cache, Emit(m, cache), combat' = m, actorCache' = cache
  PROVE  Emitted'
<1>1. m \in Combats \cup {None} /\ cache \in [Actors -> Docs \cup {None, Absent}]
  BY DEF TypeOK
<1>2. /\ lastEmitted' = View(m, cache)
      /\ \A c \in listeners : feed'[c] = View(m, cache)
      /\ FeedType'
  BY <1>1, EmitReaches DEF TypeOK
<1>3. View(combat, actorCache)' = View(m, cache)
  BY DEF View
<1>4. QED
  BY <1>2, <1>3 DEF Emitted, ListenersCurrent

LEMMA NextCurrent ==
  ASSUME TypeOK, TypeOK', Emitted, [Next]_vars
  PROVE  Emitted'
<1> USE DEF mirrorVars, cacheVars, emitVars
<1>1. CASE UNCHANGED vars
  BY <1>1, QuietKeepsCurrent DEF vars
<1>2. CASE WorldStep
  <2>1. UNCHANGED <<combat, actorCache, listeners, emitVars>>
    BY <1>2 DEF WorldStep, CreateCombat, ChangeCombat, SwitchCombat, DeleteCombat, EditActor
  <2>2. QED
    BY <2>1, QuietKeepsCurrent
<1>3. ASSUME NEW c \in Clients, Attach(c)
      PROVE  Emitted'
  <2>1. View(combat, actorCache)' = View(combat, actorCache)
    BY <1>3 DEF Attach, View
  <2>2. feed' = [feed EXCEPT ![c] = View(combat, actorCache)]
    BY <1>3 DEF Attach
  <2>3. listeners' = listeners \cup {c} /\ lastEmitted' = lastEmitted
    BY <1>3 DEF Attach
  <2>4. QED
    BY <2>1, <2>2, <2>3 DEF Emitted, ListenersCurrent, FeedType
<1>4. ASSUME NEW c \in Clients, Detach(c)
      PROVE  Emitted'
  <2>1. View(combat, actorCache)' = View(combat, actorCache)
    BY <1>4 DEF Detach, View
  <2>2. QED
    BY <1>4, <2>1 DEF Detach, Emitted, ListenersCurrent, FeedType
<1>5. CASE \E a \in Actors : HpRequest(a)
  BY <1>5, QuietKeepsCurrent DEF HpRequest
<1>6. CASE Start \/ StartResumes \/ Stop
  BY <1>6, QuietKeepsCurrent DEF Start, StartResumes, Stop
<1>7. CASE RestartStream
  <2>1. View(combat, actorCache)' = View(combat, actorCache)
    BY <1>7 DEF RestartStream, View
  <2>2. QED
    BY <1>7, <2>1 DEF RestartStream, Emitted, ListenersCurrent, FeedType
<1>8. CASE ReseedRead \/ ReseedFails
  BY <1>8, QuietKeepsCurrent DEF ReseedRead, ReseedFails
<1>9. CASE ReseedApplies
  <2>1. /\ Emit(answer.pick, actorCache) /\ combat' = answer.pick /\ actorCache' = actorCache
        /\ UNCHANGED listeners
    BY <1>9 DEF ReseedApplies
  <2>2. QED
    BY <2>1, EmitKeepsCurrent
<1>10. CASE \E a \in Actors : FetchRead(a)
  BY <1>10, QuietKeepsCurrent DEF FetchRead
<1>11. CASE FetchDone \/ RefreshDone
  <2>1. Emit(combat, actorCache') /\ UNCHANGED <<combat, listeners>>
    BY <1>11 DEF FetchDone, RefreshDone
  <2>2. QED
    BY <2>1, EmitKeepsCurrent
<1>12. CASE HpFails \/ HpWrite \/ RefreshRead
  BY <1>12, QuietKeepsCurrent DEF HpFails, HpWrite, RefreshRead
<1>13. ASSUME NEW s \in Streams, LoopStep(s)
       PROVE  Emitted'
  <2>1. CASE SubscribeResumes(s) \/ StreamOpens(s) \/ StreamEnds(s) \/ BackoffOver(s)
             \/ ReconcileTick(s) \/ ReconcileResumes(s)
    <3>1. UNCHANGED <<combat, actorCache, listeners, emitVars>>
      BY <2>1 DEF SubscribeResumes, StreamOpens, StreamEnds, BackoffOver, ReconcileTick,
           ReconcileResumes
    <3>2. QED
      BY <3>1, QuietKeepsCurrent
  <2>2. CASE HandleCombat(s)
    <3>1. /\ Emit(Head(frames[s]).doc, actorCache) /\ combat' = Head(frames[s]).doc
          /\ UNCHANGED <<actorCache, listeners>>
      BY <2>2 DEF HandleCombat
    <3>2. QED
      BY <3>1, EmitKeepsCurrent
  <2>3. CASE HandleDelete(s)
    <3>1. UNCHANGED <<actorCache, listeners>>
      BY <2>3 DEF HandleDelete
    <3>2. CASE combat' = None /\ Emit(None, actorCache)
      BY <3>1, <3>2, EmitKeepsCurrent
    <3>3. CASE UNCHANGED <<mirrorVars, emitVars>>
      BY <3>1, <3>3, QuietKeepsCurrent
    <3>4. QED
      BY <2>3, <3>2, <3>3 DEF HandleDelete
  <2>4. CASE HandleCombatant(s)
    BY <2>4, QuietKeepsCurrent DEF HandleCombatant
  <2>5. CASE HandleActor(s)
    <3>1. UNCHANGED <<combat, listeners>>
      BY <2>5 DEF HandleActor
    <3>2. CASE Emit(combat, actorCache')
      BY <3>1, <3>2, EmitKeepsCurrent
    <3>3. CASE UNCHANGED <<actorCache, emitVars>>
      BY <3>1, <3>3, QuietKeepsCurrent
    <3>4. QED
      BY <2>5, <3>2, <3>3 DEF HandleActor
  <2>6. QED
    BY <1>13, <2>1, <2>2, <2>3, <2>4, <2>5 DEF LoopStep, Handle
<1>14. QED
  BY <1>1, <1>2, <1>3, <1>4, <1>5, <1>6, <1>7, <1>8, <1>9, <1>10, <1>11, <1>12, <1>13
     DEF Next, Requests, ReseedStep, ActorStep, HpStep

\* Every attached browser has the current view after every step: no change
\* of the mirror or of the cache goes without an emit, and the check that
\* drops unchanged views drops only what everybody already has.
THEOREM EveryoneCurrent == Spec => []ListenersCurrent
<1>1. Init => Emitted
  BY DEF Init, Emitted, ListenersCurrent, FeedType
<1>2. TypeOK /\ TypeOK' /\ Emitted /\ [Next]_vars => Emitted'
  BY NextCurrent
<1>3. Emitted => ListenersCurrent
  BY DEF Emitted
<1>4. QED
  BY <1>1, <1>2, <1>3, TypeCorrect, PTL DEF Spec

(***************************************************************************)
(* Deleted combats.                                                        *)
(***************************************************************************)

\* A frame f that tells of a deletion names a combat that is gone for good.
TellsTruth(f, gone) == f.hook = "deleteCombat" /\ f.id # None => f.id \in gone

Gone == used \ DOMAIN combats

DeletesAreTrue == \A s \in Streams : \A n \in DOMAIN frames[s] : TellsTruth(frames[s][n], Gone)

\* Publishing a true frame keeps all frames true, if nothing that is gone
\* comes back.
LEMMA PublishTrue ==
  ASSUME TypeOK, DeletesAreTrue, NEW f, Publish(f), TellsTruth(f, Gone'), Gone \subseteq Gone'
  PROVE  DeletesAreTrue'
<1>1. PICK R \in SUBSET Streams :
        frames' = [s \in Streams |-> IF s \in R THEN Append(frames[s], f) ELSE frames[s]]
  BY DEF Publish
<1>2. ASSUME NEW s \in Streams, NEW n \in DOMAIN frames'[s]
      PROVE  TellsTruth(frames'[s][n], Gone')
  <2>1. frames[s] \in Seq(Frames)
    BY DEF TypeOK
  <2>2. frames'[s][n] = f \/ (n \in DOMAIN frames[s] /\ frames'[s][n] = frames[s][n])
    BY <1>1, <1>2, <2>1
  <2>3. CASE frames'[s][n] = f
    BY <2>3 DEF TellsTruth
  <2>4. CASE n \in DOMAIN frames[s] /\ frames'[s][n] = frames[s][n]
    BY <2>4 DEF DeletesAreTrue, TellsTruth
  <2>5. QED
    BY <2>2, <2>3, <2>4
<1>3. QED
  BY <1>2 DEF DeletesAreTrue

LEMMA WorldTrue ==
  ASSUME TypeOK, DeletesAreTrue, WorldStep
  PROVE  DeletesAreTrue'
<1>1. ASSUME NEW c \in Combats, CreateCombat(c)
      PROVE  DeletesAreTrue'
  <2>1. Publish(CombatFrame(c)) /\ TellsTruth(CombatFrame(c), Gone')
    BY <1>1 DEF CreateCombat, TellsTruth, CombatFrame
  <2>2. Gone \subseteq Gone'
    BY <1>1 DEF CreateCombat, Gone
  <2>3. QED
    BY <2>1, <2>2, PublishTrue
<1>2. ASSUME NEW c \in Combats, ChangeCombat(c)
      PROVE  DeletesAreTrue'
  <2>1. PICK f : Publish(f) /\ f \in {CombatFrame(c), CombatantFrame}
    BY <1>2 DEF ChangeCombat, ChangeFrame
  <2>2. f.hook # "deleteCombat"
    BY <2>1 DEF CombatFrame, CombatantFrame
  <2>3. Gone \subseteq Gone'
    BY <1>2 DEF ChangeCombat, Gone
  <2>4. QED
    BY <2>1, <2>2, <2>3, PublishTrue DEF TellsTruth
<1>3. ASSUME NEW i \in CombatIds, SwitchCombat(i)
      PROVE  DeletesAreTrue'
  <2>1. Publish(CombatFrame(combats[i])) /\ CombatFrame(combats[i]).hook = "combat"
    BY <1>3 DEF SwitchCombat, CombatFrame
  <2>2. Gone \subseteq Gone'
    BY <1>3 DEF SwitchCombat, Gone
  <2>3. QED
    BY <2>1, <2>2, PublishTrue DEF TellsTruth
<1>4. ASSUME NEW i \in CombatIds, DeleteCombat(i)
      PROVE  DeletesAreTrue'
  <2>1. PICK f \in {DeleteFrame(i), GarbledDelete} : Publish(f)
    BY <1>4 DEF DeleteCombat
  <2>2. f.id \in {i, None}
    BY <2>1 DEF DeleteFrame, GarbledDelete
  <2>3. Gone \subseteq Gone' /\ i \in Gone'
    BY <1>4 DEF DeleteCombat, TypeOK, Gone
  <2>4. QED
    BY <2>1, <2>2, <2>3, PublishTrue DEF TellsTruth
<1>5. ASSUME NEW a \in Actors, EditActor(a)
      PROVE  DeletesAreTrue'
  <2>1. PICK h \in Hps : Publish(ActorFrame([of |-> a, hp |-> h]))
    BY <1>5 DEF EditActor, SetHp
  <2>2. ActorFrame([of |-> a, hp |-> h]).hook = "updateActor"
    BY DEF ActorFrame
  <2>3. UNCHANGED <<used, combats>>
    BY <1>5 DEF EditActor
  <2>4. QED
    BY <2>1, <2>2, <2>3, PublishTrue DEF TellsTruth, Gone
<1>6. QED
  BY <1>1, <1>2, <1>3, <1>4, <1>5 DEF WorldStep

\* Frames that are taken or dropped with their stream leave true ones.
LEMMA FewerFramesTrue ==
  ASSUME TypeOK, DeletesAreTrue, UNCHANGED <<used, combats>>,
         \A s \in Streams : \/ frames'[s] \in {frames[s], <<>>}
                            \/ frames[s] # <<>> /\ frames'[s] = Tail(frames[s])
  PROVE  DeletesAreTrue'
<1>1. ASSUME NEW s \in Streams, NEW n \in DOMAIN frames'[s]
      PROVE  TellsTruth(frames'[s][n], Gone)
  <2>1. frames[s] \in Seq(Frames)
    BY DEF TypeOK
  <2>2. CASE frames'[s] = frames[s]
    BY <1>1, <2>2 DEF DeletesAreTrue
  <2>3. CASE frames'[s] = Tail(frames[s]) /\ frames[s] # <<>>
    <3>1. n + 1 \in DOMAIN frames[s] /\ frames'[s][n] = frames[s][n + 1]
      BY <1>1, <2>1, <2>3
    <3>2. QED
      BY <3>1 DEF DeletesAreTrue
  <2>4. CASE frames'[s] = <<>>
    BY <1>1, <2>4
  <2>5. QED
    BY <2>2, <2>3, <2>4
<1>2. Gone' = Gone
  BY DEF Gone
<1>3. QED
  BY <1>1, <1>2 DEF DeletesAreTrue

LEMMA NextTrue ==
  ASSUME TypeOK, DeletesAreTrue, [Next]_vars
  PROVE  DeletesAreTrue'
<1> USE DEF worldVars
<1>1. CASE UNCHANGED <<used, combats, frames>>
  BY <1>1 DEF DeletesAreTrue, Gone
<1>2. CASE WorldStep
  BY <1>2, WorldTrue
<1>3. CASE HpWrite
  <2>1. PICK h \in Hps : Publish(ActorFrame([of |-> refresh.of, hp |-> h]))
    BY <1>3 DEF HpWrite, SetHp
  <2>2. ActorFrame([of |-> refresh.of, hp |-> h]).hook = "updateActor"
    BY DEF ActorFrame
  <2>3. UNCHANGED <<used, combats>>
    BY <1>3 DEF HpWrite
  <2>4. QED
    BY <2>1, <2>2, <2>3, PublishTrue DEF TellsTruth, Gone
<1>4. ASSUME NEW s \in Streams, LoopStep(s)
      PROVE  DeletesAreTrue'
  <2>1. CASE StreamEnds(s)
    BY <2>1, FewerFramesTrue DEF StreamEnds, TypeOK
  <2>2. CASE Handle(s)
    <3>1. UNCHANGED <<used, combats>> /\ frames[s] # <<>> /\ frames' = [frames EXCEPT ![s] = Tail(@)]
      BY <2>2 DEF Handle, HandleCombat, HandleDelete, HandleCombatant, HandleActor, Take
    <3>2. QED
      BY <3>1, FewerFramesTrue DEF TypeOK
  <2>3. CASE SubscribeResumes(s) \/ StreamOpens(s) \/ BackoffOver(s) \/ ReconcileTick(s)
             \/ ReconcileResumes(s)
    BY <1>1, <2>3 DEF SubscribeResumes, StreamOpens, BackoffOver, ReconcileTick, ReconcileResumes
  <2>4. QED
    BY <1>4, <2>1, <2>2, <2>3 DEF LoopStep
<1>5. CASE UNCHANGED vars
  BY <1>1, <1>5 DEF vars
<1>6. CASE Requests
  BY <1>1, <1>6 DEF Requests, Attach, Detach, HpRequest
<1>7. CASE Start \/ StartResumes \/ RestartStream \/ Stop
  BY <1>1, <1>7 DEF Start, StartResumes, RestartStream, Stop
<1>8. CASE ReseedStep \/ ActorStep
  BY <1>1, <1>8 DEF ReseedStep, ReseedRead, ReseedFails, ReseedApplies, ActorStep, FetchRead, FetchDone
<1>9. CASE HpFails \/ RefreshRead \/ RefreshDone
  BY <1>1, <1>9 DEF HpFails, RefreshRead, RefreshDone
<1>10. QED
  BY <1>2, <1>3, <1>4, <1>5, <1>6, <1>7, <1>8, <1>9 DEF Next, HpStep

\* The action of ClearedOnlyWhenGone.
Cleared ==
  combat # None /\ combat' = None =>
    combat.id \notin DOMAIN combats \/ answer = [pick |-> None, version |-> mVersion']

LEMMA ClearedStep ==
  ASSUME TypeOK, ReadHasAnswer, DeletesAreTrue, [Next]_vars
  PROVE  Cleared
<1> USE DEF mirrorVars
<1>1. CASE UNCHANGED combat
  BY <1>1 DEF Cleared
<1>2. CASE ReseedApplies
  BY <1>2 DEF ReseedApplies, ReadHasAnswer, Answers, Cleared
<1>3. ASSUME NEW s \in Streams, LoopStep(s)
      PROVE  Cleared
  <2>1. CASE HandleCombat(s)
    <3>1. combat' \in Combats
      BY <2>1, TakeType, FrameFields DEF HandleCombat
    <3>2. QED
      BY <3>1, EncountersAssumption DEF Cleared
  <2>2. CASE HandleDelete(s)
    <3>1. Take(s, "deleteCombat")
      BY <2>2 DEF HandleDelete
    <3>2. frames[s] \in Seq(Frames) /\ frames[s] # <<>> /\ Head(frames[s]).hook = "deleteCombat"
      BY <3>1 DEF Take, TypeOK
    <3>3. TellsTruth(Head(frames[s]), Gone)
      BY <3>2 DEF DeletesAreTrue
    <3>4. combat # None => combat.id # None
      BY EncountersAssumption DEF TypeOK
    <3>5. UNCHANGED combat \/ (combat # None /\ Head(frames[s]).id = combat.id)
      BY <2>2 DEF HandleDelete
    <3>6. QED
      BY <3>2, <3>3, <3>4, <3>5 DEF TellsTruth, Gone, Cleared
  <2>3. CASE SubscribeResumes(s) \/ StreamOpens(s) \/ StreamEnds(s) \/ BackoffOver(s)
             \/ ReconcileTick(s) \/ ReconcileResumes(s) \/ HandleCombatant(s) \/ HandleActor(s)
    <3>1. UNCHANGED combat
      BY <2>3 DEF SubscribeResumes, StreamOpens, StreamEnds, BackoffOver, ReconcileTick,
           ReconcileResumes, HandleCombatant, HandleActor
    <3>2. QED
      BY <1>1, <3>1
  <2>4. QED
    BY <1>3, <2>1, <2>2, <2>3 DEF LoopStep, Handle
<1>4. CASE UNCHANGED vars
  BY <1>1, <1>4 DEF vars
<1>5. CASE WorldStep
  BY <1>1, <1>5 DEF WorldStep, CreateCombat, ChangeCombat, SwitchCombat, DeleteCombat, EditActor
<1>6. CASE Requests
  BY <1>1, <1>6 DEF Requests, Attach, Detach, HpRequest
<1>7. CASE Start \/ StartResumes \/ RestartStream \/ Stop
  BY <1>1, <1>7 DEF Start, StartResumes, RestartStream, Stop
<1>8. CASE ReseedRead \/ ReseedFails
  BY <1>1, <1>8 DEF ReseedRead, ReseedFails
<1>9. CASE ActorStep \/ HpStep
  BY <1>1, <1>9 DEF ActorStep, FetchRead, FetchDone, HpStep, HpFails, HpWrite, RefreshRead, RefreshDone
<1>10. QED
  BY <1>2, <1>3, <1>4, <1>5, <1>6, <1>7, <1>8, <1>9 DEF Next, ReseedStep

\* The mirror of a combat is cleared only when the combat is gone or a read
\* has picked none: not by a garbled deletion, nor by another combat's.
THEOREM ClearedWhenGone == Spec => ClearedOnlyWhenGone
<1>1. Init => DeletesAreTrue
  BY DEF Init, DeletesAreTrue
<1>2. TypeOK /\ DeletesAreTrue /\ [Next]_vars => DeletesAreTrue'
  BY NextTrue
<1>3. TypeOK /\ ReadHasAnswer /\ DeletesAreTrue /\ [Next]_vars => [Cleared]_vars
  BY ClearedStep
<1>4. [][Cleared]_vars => ClearedOnlyWhenGone
  BY PTL DEF ClearedOnlyWhenGone, Cleared
<1>5. QED
  BY <1>1, <1>2, <1>3, <1>4, TypeCorrect, PTL DEF Spec

(***************************************************************************)
(* The actor cache.                                                        *)
(***************************************************************************)
LEMMA NextCache ==
  ASSUME TypeOK, CacheIsOwn, [Next]_vars
  PROVE  CacheIsOwn'
<1> USE DEF cacheVars
<1>1. CASE UNCHANGED actorCache
  BY <1>1 DEF CacheIsOwn
<1>2. ASSUME NEW a \in Actors, NEW d \in Docs \cup {None, Absent},
             actorCache' = [actorCache EXCEPT ![a] = d], d \in Docs => d.of = a
      PROVE  CacheIsOwn'
  BY <1>2 DEF CacheIsOwn, TypeOK
<1>3. CASE FetchDone
  <2>1. fetch.of \in Actors /\ fetch.doc \in Docs \cup {None}
    BY <1>3 DEF FetchDone, TypeOK
  <2>2. actorCache' = [actorCache EXCEPT ![fetch.of] = CacheEntry(fetch.of, fetch.doc)]
    BY <1>3 DEF FetchDone, Settle
  <2>3. QED
    BY <1>2, <2>1, <2>2, CacheEntryType
<1>4. CASE RefreshDone
  <2>1. refresh.of \in Actors /\ refresh.doc \in Docs \cup {None}
    BY <1>4 DEF RefreshDone, TypeOK
  <2>2. actorCache' = [actorCache EXCEPT ![refresh.of] = CacheEntry(refresh.of, refresh.doc)]
    BY <1>4 DEF RefreshDone
  <2>3. QED
    BY <1>2, <2>1, <2>2, CacheEntryType
<1>5. ASSUME NEW s \in Streams, LoopStep(s)
      PROVE  CacheIsOwn'
  <2>1. CASE HandleActor(s)
    <3>1. Head(frames[s]).doc \in Docs
      BY <2>1, TakeType, FrameFields DEF HandleActor
    <3>2. CASE actorCache' = [actorCache EXCEPT ![Head(frames[s]).doc.of] = Head(frames[s]).doc]
      BY <1>2, <3>1, <3>2 DEF Docs
    <3>3. CASE UNCHANGED actorCache
      BY <1>1, <3>3
    <3>4. QED
      BY <2>1, <3>2, <3>3 DEF HandleActor
  <2>2. CASE SubscribeResumes(s) \/ StreamOpens(s) \/ StreamEnds(s) \/ BackoffOver(s)
             \/ ReconcileTick(s) \/ ReconcileResumes(s)
             \/ HandleCombat(s) \/ HandleDelete(s) \/ HandleCombatant(s)
    <3>1. UNCHANGED actorCache
      BY <2>2 DEF SubscribeResumes, StreamOpens, StreamEnds, BackoffOver, ReconcileTick,
           ReconcileResumes, HandleCombat, HandleDelete, HandleCombatant
    <3>2. QED
      BY <1>1, <3>1
  <2>3. QED
    BY <1>5, <2>1, <2>2 DEF LoopStep, Handle
<1>6. CASE UNCHANGED vars
  BY <1>1, <1>6 DEF vars
<1>7. CASE WorldStep
  BY <1>1, <1>7 DEF WorldStep, CreateCombat, ChangeCombat, SwitchCombat, DeleteCombat, EditActor
<1>8. CASE Requests
  BY <1>1, <1>8 DEF Requests, Attach, Detach, HpRequest
<1>9. CASE Start \/ StartResumes \/ RestartStream \/ Stop
  BY <1>1, <1>9 DEF Start, StartResumes, RestartStream, Stop
<1>10. CASE ReseedStep
  BY <1>1, <1>10 DEF ReseedStep, ReseedRead, ReseedFails, ReseedApplies
<1>11. CASE (\E a \in Actors : FetchRead(a)) \/ HpFails \/ HpWrite \/ RefreshRead
  BY <1>1, <1>11 DEF FetchRead, HpFails, HpWrite, RefreshRead
<1>12. QED
  BY <1>3, <1>4, <1>5, <1>6, <1>7, <1>8, <1>9, <1>10, <1>11 DEF Next, ActorStep, HpStep

\* A cached document is the actor's own, although the relay may answer a read
\* with the document another one asked for.
THEOREM CacheNotCrossed == Spec => []CacheIsOwn
<1>1. Init => CacheIsOwn
  BY EncountersAssumption DEF Init, CacheIsOwn
<1>2. TypeOK /\ CacheIsOwn /\ [Next]_vars => CacheIsOwn'
  BY NextCache
<1>3. QED
  BY <1>1, <1>2, TypeCorrect, PTL DEF Spec

(***************************************************************************)
(* Hit points.                                                             *)
(***************************************************************************)

\* The entry of the cache a combatant is shown by.
EntryOf(c) ==
  IF ActorOf[c] = None \/ actorCache[ActorOf[c]] = Absent THEN None ELSE actorCache[ActorOf[c]]

\* An entry with a document is the combatant's own actor's.
LEMMA EntryIsOwn ==
  ASSUME TypeOK, CacheIsOwn, NEW c \in Combatants, EntryOf(c) # None
  PROVE  EntryOf(c) = actorCache[ActorOf[c]] /\ EntryOf(c) \in Docs /\ EntryOf(c).of = ActorOf[c]
<1>1. ActorOf[c] \in Actors /\ EntryOf(c) = actorCache[ActorOf[c]] /\ EntryOf(c) # Absent
  BY EncounterViewAssumption DEF EntryOf
<1>2. actorCache[ActorOf[c]] \in Docs \cup {None, Absent}
  BY <1>1 DEF TypeOK
<1>3. QED
  BY <1>1, <1>2 DEF CacheIsOwn

LEMMA CellShowsHp ==
  ASSUME NEW entry, "hp" \in DOMAIN Cell(entry)
  PROVE  entry # None /\ entry.of \in PCs /\ Cell(entry).hp = entry.hp
<1>1. CASE entry # None /\ entry.of \in PCs
  BY <1>1 DEF Cell
<1>2. CASE ~(entry # None /\ entry.of \in PCs)
  <2>1. DOMAIN Cell(entry) = {"health"}
    BY <1>2 DEF Cell
  <2>2. QED
    BY <2>1
<1>3. QED
  BY <1>1, <1>2

LEMMA ViewShowsOwnHp ==
  ASSUME TypeOK, CacheIsOwn, View(combat, actorCache).active,
         NEW k \in DOMAIN View(combat, actorCache).combatants,
         "hp" \in DOMAIN View(combat, actorCache).combatants[k].cell
  PROVE  LET shown == View(combat, actorCache).combatants[k] IN
         /\ ActorOf[shown.id] \in PCs
         /\ actorCache[ActorOf[shown.id]] = [of |-> ActorOf[shown.id], hp |-> shown.cell.hp]
<1> DEFINE v == Shown(combat)  entry == [c \in Combatants |-> EntryOf(c)]
           row == [c \in Combatants |-> [id |-> c, cell |-> Cell(entry[c])]]
           cells == [j \in DOMAIN v |-> row[v[j]]]
<1>1. View(combat, actorCache) = ViewOf(combat, entry)
  BY DEF View, EntryOf
<1>2. IsActive(combat)
  BY <1>1 DEF ViewOf, Inactive
<1>3. View(combat, actorCache).combatants = cells
  BY <1>1, <1>2 DEF ViewOf
<1>4. Roll(combat.list)
  BY <1>2, EncountersAssumption DEF TypeOK, IsActive, Roll
<1>5. Roll(v)
  BY <1>4, ShownEntries
<1> HIDE DEF v
<1>6. k \in DOMAIN v /\ v[k] \in Combatants
  BY <1>3, <1>5 DEF Roll
<1>7. cells[k].id = v[k] /\ cells[k].cell = Cell(EntryOf(v[k]))
  BY <1>6
<1>8. EntryOf(v[k]) # None /\ EntryOf(v[k]).of \in PCs /\ cells[k].cell.hp = EntryOf(v[k]).hp
  BY <1>3, <1>7, CellShowsHp
<1>9. /\ EntryOf(v[k]) = actorCache[ActorOf[v[k]]] /\ EntryOf(v[k]) \in Docs
      /\ EntryOf(v[k]).of = ActorOf[v[k]]
  BY <1>6, <1>8, EntryIsOwn
<1>10. EntryOf(v[k]) = [of |-> EntryOf(v[k]).of, hp |-> EntryOf(v[k]).hp]
  BY <1>9 DEF Docs
<1> HIDE DEF cells
<1>11. QED
  BY <1>3, <1>7, <1>8, <1>9, <1>10

\* Exact hit points are shown of player characters only, and are their own, in
\* whatever order frames, reads and answers of other actors' documents arrive
\* (view, computeHealth), for every set of combats and actors.
THEOREM HpOfPcsOnly == Spec => []OnlyPcsShowHp
<1>1. TypeOK /\ ListenersCurrent /\ CacheIsOwn => OnlyPcsShowHp
  <2> SUFFICES ASSUME TypeOK, ListenersCurrent, CacheIsOwn,
                      NEW c \in listeners, feed[c].active,
                      NEW k \in DOMAIN feed[c].combatants,
                      "hp" \in DOMAIN feed[c].combatants[k].cell
               PROVE  /\ ActorOf[feed[c].combatants[k].id] \in PCs
                      /\ actorCache[ActorOf[feed[c].combatants[k].id]] =
                           [of |-> ActorOf[feed[c].combatants[k].id], hp |-> feed[c].combatants[k].cell.hp]
    BY DEF OnlyPcsShowHp
  <2>1. feed[c] = View(combat, actorCache)
    BY DEF ListenersCurrent
  <2>2. QED
    BY <2>1, ViewShowsOwnHp
<1>2. QED
  BY <1>1, TypeCorrect, EveryoneCurrent, CacheNotCrossed, PTL
=============================================================================
