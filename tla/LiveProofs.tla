---------------------------- MODULE LiveProofs -----------------------------
(***************************************************************************)
(* Proofs about Live for every set of actors, clients, watchers, streams   *)
(* and sheets: type correctness, the match between clients, watchers and   *)
(* the map, the single relay subscription, and that no announced change is *)
(* lost.                                                                   *)
(***************************************************************************)
EXTENDS Live, FiniteSetTheorems, TLAPS

\* What the type invariant needs to be inductive: a watcher that fetches has
\* an actor, the map holds live watchers under their own actor, and a
\* connection knows its actor from its request on and its watcher exactly
\* while attached.
Bound ==
    /\ \A w \in Watchers : wActor[w] = None => wFetch[w] = "none" /\ ~wStopped[w]
    /\ \A a \in Actors : watcherOf[a] # None =>
         wActor[watcherOf[a]] = a /\ ~wStopped[watcherOf[a]]
    /\ \A c \in Clients :
         /\ cPhase[c] \in {"fetching", "ready", "attached"} => cActor[c] # None
         /\ cPhase[c] = "attached" <=> cWatcher[c] # None
         /\ cWatcher[c] # None => watcherOf[cActor[c]] = cWatcher[c]

IInv == TypeOK /\ Bound

LEMMA InitIInv == Init => IInv
<1> SUFFICES ASSUME Init PROVE IInv
  OBVIOUS
<1>1. [secs |-> SectionIds, hp |-> CHOOSE h \in Hps : TRUE] \in Sheet
  <2>1. (CHOOSE h \in Hps : TRUE) \in Hps
    BY LiveAssumption
  <2>2. QED
    BY <2>1 DEF Sheet
<1>2. TypeOK
  BY <1>1 DEF Init, TypeOK
<1>3. Bound
  BY DEF Init, Bound
<1>4. QED
  BY <1>2, <1>3 DEF IInv

\* A read of an actor yields a sheet or null.
LEMMA ReadType ==
  ASSUME TypeOK, NEW a \in Actors, NEW r \in ReadResults(a)
  PROVE  r \in Sheet \cup {None}
<1>1. doc[a] \in Sheet
  BY DEF TypeOK
<1>2. [doc[a] EXCEPT !.secs = @ \cap CoreSections] \in Sheet
  BY <1>1 DEF Sheet
<1>3. QED
  BY <1>1, <1>2 DEF ReadResults

\* An edit fires at least one hook.
LEMMA HooksFiredType ==
  ASSUME NEW s \in Sheet, NEW t \in Sheet
  PROVE  HooksFired(s, t) \in Nat \ {0}
<1> DEFINE D == (s.secs \ t.secs) \cup (t.secs \ s.secs)
<1>1. IsFiniteSet(D)
  <2>1. D \subseteq SectionIds
    BY DEF Sheet
  <2>2. QED
    BY <2>1, FS_Subset, LiveAssumption
<1>2. Cardinality(D) \in Nat
  BY <1>1, FS_CardinalityType
<1> HIDE DEF D
<1>3. HooksFired(s, t) = IF Cardinality(D) > 1 THEN Cardinality(D) ELSE 1
  BY DEF HooksFired, D
<1>4. QED
  BY <1>2, <1>3

\* Announcing hooks keeps the types of what it changes.
LEMMA AnnounceType ==
  ASSUME TypeOK, NEW a \in Actors, NEW n \in Nat, Announce(a, n)
  PROVE  transit' \in [Streams -> [Actors -> Nat]] /\ missed' \in [Actors -> BOOLEAN]
<1>1. CASE streamAc # None /\ sLoop[streamAc] = "live"
  <2>1. streamAc \in Streams
    BY <1>1 DEF TypeOK
  <2>2. transit[streamAc][a] + n \in Nat
    BY <2>1 DEF TypeOK
  <2>3. transit' = [transit EXCEPT ![streamAc] = [transit[streamAc] EXCEPT ![a] = transit[streamAc][a] + n]]
    BY <1>1 DEF Announce
  <2>4. [transit[streamAc] EXCEPT ![a] = transit[streamAc][a] + n] \in [Actors -> Nat]
    BY <2>1, <2>2 DEF TypeOK
  <2>5. QED
    BY <1>1, <2>3, <2>4 DEF TypeOK, Announce
<1>2. CASE ~(streamAc # None /\ sLoop[streamAc] = "live")
  BY <1>2 DEF TypeOK, Announce
<1>3. QED
  BY <1>1, <1>2

LEMMA EditIInv == ASSUME IInv, NEW a \in Actors, Edit(a) PROVE IInv'
<1>1. TypeOK'
  <2>1. PICK s \in Sheet \ {doc[a]} :
          doc' = [doc EXCEPT ![a] = s] /\ Announce(a, HooksFired(doc[a], s))
    BY DEF Edit
  <2>2. HooksFired(doc[a], s) \in Nat
    BY HooksFiredType DEF IInv, TypeOK
  <2>3. transit' \in [Streams -> [Actors -> Nat]] /\ missed' \in [Actors -> BOOLEAN]
    BY <2>1, <2>2, AnnounceType DEF IInv
  <2>4. torn' \in [Actors -> BOOLEAN]
    BY LiveAssumption DEF IInv, TypeOK, Edit
  <2>5. doc' \in [Actors -> Sheet] /\ edits' \in Nat
    BY <2>1 DEF IInv, TypeOK, Edit
  <2>6. QED
    BY <2>3, <2>4, <2>5 DEF IInv, TypeOK, Edit, watcherVars, streamVars, clientVars
<1>2. Bound'
  BY DEF IInv, Bound, Edit, watcherVars, streamVars, clientVars
<1>3. QED
  BY <1>1, <1>2 DEF IInv

LEMMA SettleIInv == ASSUME IInv, NEW a \in Actors, Settle(a) PROVE IInv'
<1>1. transit' \in [Streams -> [Actors -> Nat]] /\ missed' \in [Actors -> BOOLEAN]
  BY AnnounceType DEF IInv, Settle
<1>2. TypeOK'
  BY <1>1 DEF IInv, TypeOK, Settle, watcherVars, streamVars, clientVars
<1>3. Bound'
  BY DEF IInv, Bound, Settle, watcherVars, streamVars, clientVars
<1>4. QED
  BY <1>2, <1>3 DEF IInv

LEMMA ConnectIInv ==
  ASSUME IInv, NEW c \in Clients, NEW a \in Actors, Connect(c, a) PROVE IInv'
<1>1. TypeOK'
  BY DEF IInv, TypeOK, Connect, foundryVars, watcherVars, streamVars
<1>2. Bound'
  BY LiveAssumption DEF IInv, TypeOK, Bound, Connect, watcherVars
<1>3. QED
  BY <1>1, <1>2 DEF IInv

LEMMA ReadInitialIInv ==
  ASSUME IInv, NEW c \in Clients, ReadInitial(c) PROVE IInv'
<1>1. cActor[c] \in Actors
  BY DEF IInv, TypeOK, Bound, ReadInitial
<1>2. PICK r \in ReadResults(cActor[c]) :
        /\ cPhase' = [cPhase EXCEPT ![c] = IF r = None THEN "off" ELSE "ready"]
        /\ cActor' = [cActor EXCEPT ![c] = IF r = None THEN None ELSE @]
        /\ cView'  = [cView EXCEPT ![c] = r]
  BY DEF ReadInitial
<1>3. r \in Sheet \cup {None}
  BY <1>1, ReadType DEF IInv
<1>4. TypeOK'
  BY <1>2, <1>3 DEF IInv, TypeOK, ReadInitial, foundryVars, watcherVars, streamVars
<1>5. Bound'
  BY <1>2 DEF IInv, TypeOK, Bound, ReadInitial, watcherVars
<1>6. QED
  BY <1>4, <1>5 DEF IInv

LEMMA ReleaseType ==
  ASSUME TypeOK, NEW W, NEW F, Release(W, F)
  PROVE  /\ wActor' \in [Watchers -> Actors \cup {None}] /\ wStopped' \in [Watchers -> BOOLEAN]
         /\ wLast' \in [Watchers -> Sheet \cup {None}] /\ wSuspect' \in [Watchers -> Sheet \cup {None}]
<1>1. wActor' \in [Watchers -> Actors \cup {None}]
  BY DEF TypeOK, Release
<1>2. wStopped' \in [Watchers -> BOOLEAN]
  BY DEF TypeOK, Release
<1>3. wLast' \in [Watchers -> Sheet \cup {None}]
  BY DEF TypeOK, Release
<1>4. wSuspect' \in [Watchers -> Sheet \cup {None}]
  BY DEF TypeOK, Release
<1>5. QED
  BY <1>1, <1>2, <1>3, <1>4

LEMMA RefreshType ==
  ASSUME TypeOK, NEW W, Refresh(W)
  PROVE  wFetch' \in [Watchers -> {"none", "sent", "read"}] /\ wPending' \in [Watchers -> BOOLEAN]
<1>1. wFetch' \in [Watchers -> {"none", "sent", "read"}]
  BY DEF TypeOK, Refresh
<1>2. wPending' \in [Watchers -> BOOLEAN]
  BY DEF TypeOK, Refresh
<1>3. QED
  BY <1>1, <1>2

LEMMA LoseTransitType ==
  ASSUME TypeOK, LoseTransit PROVE missed' \in [Actors -> BOOLEAN]
BY DEF TypeOK, LoseTransit

LEMMA StopStreamType ==
  ASSUME TypeOK, StopStream
  PROVE  /\ streamAc' \in Streams \cup {None} /\ streamUp' \in BOOLEAN
         /\ sActive' \in [Streams -> BOOLEAN] /\ missed' \in [Actors -> BOOLEAN]
         /\ sLoop' = sLoop /\ sPoll' = sPoll
BY LoseTransitType DEF TypeOK, StopStream, Aborted

LEMMA EnsureStreamType ==
  ASSUME TypeOK, NEW active \in [Streams -> BOOLEAN], EnsureStream(active)
  PROVE  /\ streamAc' \in Streams \cup {None} /\ streamUp' \in BOOLEAN
         /\ sActive' \in [Streams -> BOOLEAN]
         /\ sLoop' \in [Streams -> {"idle", "open", "live", "delay"}]
         /\ sPoll' \in [Streams -> {"idle", "delay", "due", "wait"}]
BY DEF TypeOK, EnsureStream

LEMMA AttachIInv ==
  ASSUME IInv, NEW c \in Clients, Attach(c) PROVE IInv'
<1> DEFINE a == cActor[c]
<1>1. a \in Actors /\ cView[c] \in Sheet \cup {None} /\ watcherOf[a] \in Watchers \cup {None}
      /\ cPhase[c] = "ready" /\ cPhase' = [cPhase EXCEPT ![c] = "attached"]
  BY DEF IInv, TypeOK, Bound, Attach
<1>2. CASE watcherOf[a] # None
  <2>1. /\ cWatcher' = [cWatcher EXCEPT ![c] = watcherOf[a]]
        /\ UNCHANGED <<watcherVars, streamVars, missed, foundryVars, cActor, cView, closed, transit>>
    BY <1>2 DEF Attach, JoinWatcher
  <2>2. TypeOK'
    BY <1>1, <1>2, <2>1 DEF IInv, TypeOK, watcherVars, streamVars, foundryVars
  <2>3. Bound'
    BY <1>1, <1>2, <2>1 DEF IInv, TypeOK, Bound, watcherVars
  <2>4. QED
    BY <2>2, <2>3 DEF IInv
<1>3. CASE watcherOf[a] = None
  <2>1. PICK w \in Watchers :
          /\ wActor[w] = None
          /\ watcherOf' = [watcherOf EXCEPT ![a] = w]
          /\ wActor' = [wActor EXCEPT ![w] = a]
          /\ wLast' = [wLast EXCEPT ![w] = cView[c]]
          /\ cWatcher' = [cWatcher EXCEPT ![c] = w]
    BY <1>3 DEF Attach, JoinWatcher
  <2>2. /\ missed' = [missed EXCEPT ![a] = cView[c] # doc[a]]
        /\ UNCHANGED <<wStopped, wSuspect, wFetch, wAnswer, wPending, sWait,
                       foundryVars, cActor, cView, closed, transit>>
    BY <1>3 DEF Attach, JoinWatcher, streamVars
  <2>3. /\ streamAc' \in Streams \cup {None} /\ streamUp' \in BOOLEAN
        /\ sActive' \in [Streams -> BOOLEAN]
        /\ sLoop' \in [Streams -> {"idle", "open", "live", "delay"}]
        /\ sPoll' \in [Streams -> {"idle", "delay", "due", "wait"}]
    <3>1. CASE streamAc = None
      <4>1. EnsureStream(sActive) /\ sActive \in [Streams -> BOOLEAN]
        BY <1>3, <3>1 DEF Attach, JoinWatcher, IInv, TypeOK
      <4>2. QED
        BY <4>1, EnsureStreamType DEF IInv
    <3>2. CASE streamAc # None
      BY <1>3, <3>2 DEF Attach, JoinWatcher, IInv, TypeOK, streamVars
    <3>3. QED
      BY <3>1, <3>2
  <2>4. TypeOK'
    BY <1>1, <2>1, <2>2, <2>3 DEF IInv, TypeOK, foundryVars
  <2>5. w # None /\ a # None
    BY <1>1, LiveAssumption
  <2>6. \A b \in Actors : watcherOf[b] # w
    BY <2>1, <2>5, LiveAssumption DEF IInv, TypeOK, Bound
  <2>7. \A d \in Clients : cWatcher[d] # None => cActor[d] # a /\ cActor[d] \in Actors
    BY <1>3 DEF IInv, TypeOK, Bound
  <2>8. Bound'
    <3>1. \A v \in Watchers : wActor'[v] = None => wFetch'[v] = "none" /\ ~wStopped'[v]
      BY <2>1, <2>2, <2>5 DEF IInv, TypeOK, Bound
    <3>2. \A b \in Actors : watcherOf'[b] # None =>
            wActor'[watcherOf'[b]] = b /\ ~wStopped'[watcherOf'[b]]
      BY <1>1, <2>1, <2>2, <2>6 DEF IInv, TypeOK, Bound
    <3>3. \A d \in Clients :
            /\ cPhase'[d] \in {"fetching", "ready", "attached"} => cActor'[d] # None
            /\ cPhase'[d] = "attached" <=> cWatcher'[d] # None
            /\ cWatcher'[d] # None => watcherOf'[cActor'[d]] = cWatcher'[d]
      BY <1>1, <2>1, <2>2, <2>5, <2>7 DEF IInv, TypeOK, Bound
    <3>4. QED
      BY <3>1, <3>2, <3>3 DEF Bound
  <2>9. QED
    BY <2>4, <2>8 DEF IInv
<1>4. QED
  BY <1>2, <1>3

LEMMA DropEarlyIInv ==
  ASSUME IInv, NEW c \in Clients, DropEarly(c) PROVE IInv'
<1>1. TypeOK'
  BY DEF IInv, TypeOK, DropEarly, foundryVars, watcherVars, streamVars
<1>2. Bound'
  BY DEF IInv, TypeOK, Bound, DropEarly, watcherVars
<1>3. QED
  BY <1>1, <1>2 DEF IInv

LEMMA ResumeGoneIInv ==
  ASSUME IInv, NEW c \in Clients, ResumeGone(c) PROVE IInv'
<1>1. /\ sLoop' \in [Streams -> {"idle", "open", "live", "delay"}]
      /\ sPoll' \in [Streams -> {"idle", "delay", "due", "wait"}]
  BY DEF IInv, TypeOK, ResumeGone, AttachAndDetach
<1>2. TypeOK'
  BY <1>1 DEF IInv, TypeOK, ResumeGone, foundryVars, watcherVars
<1>3. Bound'
  BY DEF IInv, TypeOK, Bound, ResumeGone, watcherVars
<1>4. QED
  BY <1>2, <1>3 DEF IInv

LEMMA DetachIInv ==
  ASSUME IInv, NEW c \in Clients, Detach(c) PROVE IInv'
<1> DEFINE a == cActor[c]
           w == cWatcher[c]
           last == LastOut(c)
           W == IF last THEN {w} ELSE {}
<1>1. a \in Actors /\ w \in Watchers /\ watcherOf[a] = w /\ w # None
  BY DEF IInv, TypeOK, Bound, Detach
<1>2. /\ cPhase' = [cPhase EXCEPT ![c] = "off"]
      /\ cActor' = [cActor EXCEPT ![c] = None]
      /\ cView' = [cView EXCEPT ![c] = None]
      /\ cWatcher' = [cWatcher EXCEPT ![c] = None]
      /\ watcherOf' = [watcherOf EXCEPT ![a] = IF last THEN None ELSE @]
      /\ Release(W, wFetch)
      /\ UNCHANGED <<foundryVars, wFetch, wAnswer, wPending, sWait, closed, transit>>
  <2>1. watcherOf' = [watcherOf EXCEPT ![a] = IF last /\ watcherOf[a] = w THEN None ELSE watcherOf[a]]
    BY DEF Detach
  <2>2. QED
    BY <1>1, <2>1 DEF Detach
<1>3. /\ streamAc' \in Streams \cup {None} /\ streamUp' \in BOOLEAN
      /\ sActive' \in [Streams -> BOOLEAN] /\ missed' \in [Actors -> BOOLEAN]
      /\ sLoop' \in [Streams -> {"idle", "open", "live", "delay"}]
      /\ sPoll' \in [Streams -> {"idle", "delay", "due", "wait"}]
  <2>1. CASE StopStream
    BY <2>1, StopStreamType DEF IInv, TypeOK
  <2>2. CASE KeepStream
    BY <2>2 DEF IInv, TypeOK, KeepStream
  <2>3. QED
    BY <2>1, <2>2 DEF Detach, StopStreamIfIdle
<1>4. /\ wActor' \in [Watchers -> Actors \cup {None}] /\ wStopped' \in [Watchers -> BOOLEAN]
      /\ wLast' \in [Watchers -> Sheet \cup {None}] /\ wSuspect' \in [Watchers -> Sheet \cup {None}]
  BY <1>2, ReleaseType DEF IInv
<1>5. TypeOK'
  BY <1>1, <1>2, <1>3, <1>4 DEF IInv, TypeOK, foundryVars
<1>6. Bound'
  <2>1. \A v \in Watchers : wActor'[v] = None => wFetch'[v] = "none" /\ ~wStopped'[v]
    BY <1>1, <1>2 DEF IInv, TypeOK, Bound, Release
  <2>2. ASSUME NEW b \in Actors, watcherOf'[b] # None
        PROVE  wActor'[watcherOf'[b]] = b /\ ~wStopped'[watcherOf'[b]]
    <3>1. watcherOf'[b] = watcherOf[b] /\ watcherOf[b] \in Watchers
      BY <1>1, <1>2, <2>2 DEF IInv, TypeOK
    <3>2. watcherOf[b] \notin W
      <4>1. CASE b = a
        BY <1>1, <1>2, <2>2, <4>1 DEF IInv, TypeOK
      <4>2. CASE b # a
        BY <1>1, <2>2, <3>1, <4>2 DEF IInv, Bound
      <4>3. QED
        BY <4>1, <4>2
    <3>3. QED
      BY <1>2, <2>2, <3>1, <3>2 DEF IInv, Bound, Release
  <2>3. ASSUME NEW d \in Clients
        PROVE  /\ cPhase'[d] \in {"fetching", "ready", "attached"} => cActor'[d] # None
               /\ cPhase'[d] = "attached" <=> cWatcher'[d] # None
               /\ cWatcher'[d] # None => watcherOf'[cActor'[d]] = cWatcher'[d]
    <3>1. CASE d = c
      BY <1>2, <3>1 DEF IInv, TypeOK
    <3>2. CASE d # c
      <4>1. cPhase'[d] = cPhase[d] /\ cActor'[d] = cActor[d] /\ cWatcher'[d] = cWatcher[d]
        BY <1>2, <3>2 DEF IInv, TypeOK
      <4>2. cWatcher[d] # None => watcherOf'[cActor[d]] = cWatcher[d]
        <5>1. last => cWatcher[d] # w
          BY <3>2 DEF ClientsOf, LastOut
        <5>2. cWatcher[d] # None => watcherOf[cActor[d]] = cWatcher[d] /\ cActor[d] \in Actors
          BY DEF IInv, TypeOK, Bound
        <5>3. QED
          BY <1>1, <1>2, <5>1, <5>2 DEF IInv, TypeOK
      <4>3. QED
        BY <4>1, <4>2 DEF IInv, Bound
    <3>3. QED
      BY <3>1, <3>2
  <2>4. QED
    BY <2>1, <2>2, <2>3 DEF Bound
<1>7. QED
  BY <1>5, <1>6 DEF IInv

LEMMA CloseAppIInv == ASSUME IInv, CloseApp PROVE IInv'
<1>1. /\ streamAc' \in Streams \cup {None} /\ streamUp' \in BOOLEAN
      /\ sActive' \in [Streams -> BOOLEAN] /\ missed' \in [Actors -> BOOLEAN]
      /\ sLoop' \in [Streams -> {"idle", "open", "live", "delay"}]
      /\ sPoll' \in [Streams -> {"idle", "delay", "due", "wait"}]
  <2>1. CASE StopStream
    BY <2>1, StopStreamType DEF IInv, TypeOK
  <2>2. CASE KeepStream
    BY <2>2 DEF IInv, TypeOK, KeepStream
  <2>3. QED
    BY <2>1, <2>2 DEF CloseApp, StopStreamIfIdle
<1>2. /\ wActor' \in [Watchers -> Actors \cup {None}] /\ wStopped' \in [Watchers -> BOOLEAN]
      /\ wLast' \in [Watchers -> Sheet \cup {None}] /\ wSuspect' \in [Watchers -> Sheet \cup {None}]
  BY ReleaseType DEF IInv, CloseApp
<1>3. TypeOK'
  BY <1>1, <1>2 DEF IInv, TypeOK, CloseApp, foundryVars
<1>4. Bound'
  BY DEF IInv, TypeOK, Bound, CloseApp, Release
<1>5. QED
  BY <1>3, <1>4 DEF IInv

LEMMA FetchReadIInv ==
  ASSUME IInv, NEW w \in Watchers, FetchRead(w) PROVE IInv'
<1>1. wActor[w] \in Actors
  BY DEF IInv, TypeOK, Bound, FetchRead
<1>2. PICK r \in ReadResults(wActor[w]) :
        /\ wAnswer' = [wAnswer EXCEPT ![w] = r]
        /\ missed' = [missed EXCEPT ![wActor[w]] =
                        IF watcherOf[wActor[w]] = w THEN r # doc[wActor[w]] ELSE missed[wActor[w]]]
  BY DEF FetchRead
<1>3. r \in Sheet \cup {None}
  BY <1>1, ReadType DEF IInv
<1>4. TypeOK'
  BY <1>1, <1>2, <1>3 DEF IInv, TypeOK, FetchRead, foundryVars, streamVars, clientVars
<1>5. Bound'
  BY <1>1, LiveAssumption DEF IInv, TypeOK, Bound, FetchRead, clientVars
<1>6. QED
  BY <1>4, <1>5 DEF IInv

LEMMA FetchDroppedIInv ==
  ASSUME IInv, NEW w \in Watchers, FetchDropped(w) PROVE IInv'
<1>1. Release({w}, wFetch')
  BY DEF FetchDropped
<1>2. TypeOK'
  BY <1>1, ReleaseType DEF IInv, TypeOK, FetchDropped, foundryVars, clientVars
<1>3. Bound'
  <2>1. ASSUME NEW v \in Watchers, wActor'[v] = None
        PROVE  wFetch'[v] = "none" /\ ~wStopped'[v]
    <3>1. wFetch' = [wFetch EXCEPT ![w] = "none"]
      BY DEF FetchDropped
    <3>2. CASE v = w
      BY <1>1, <3>1, <3>2 DEF IInv, TypeOK, Release
    <3>3. CASE v # w
      BY <1>1, <2>1, <3>1, <3>3 DEF IInv, TypeOK, Bound, Release
    <3>4. QED
      BY <3>2, <3>3
  <2>2. \A b \in Actors : watcherOf'[b] # None =>
          wActor'[watcherOf'[b]] = b /\ ~wStopped'[watcherOf'[b]]
    BY <1>1 DEF IInv, TypeOK, Bound, FetchDropped, Release
  <2>3. QED
    BY <2>1, <2>2 DEF IInv, Bound, FetchDropped, clientVars
<1>4. QED
  BY <1>2, <1>3 DEF IInv

LEMMA FetchDoneIInv ==
  ASSUME IInv, NEW w \in Watchers, FetchDone(w) PROVE IInv'
<1>1. /\ wLast' \in [Watchers -> Sheet \cup {None}] /\ wSuspect' \in [Watchers -> Sheet \cup {None}]
      /\ cView' \in [Clients -> Sheet \cup {None}]
  <2>1. CASE Same(w)
    BY <2>1 DEF IInv, TypeOK, Same
  <2>2. CASE HoldBack(w)
    BY <2>2 DEF IInv, TypeOK, HoldBack
  <2>3. CASE Broadcast(w)
    BY <2>3 DEF IInv, TypeOK, Broadcast
  <2>4. QED
    BY <2>1, <2>2, <2>3 DEF FetchDone
<1>2. /\ wFetch' \in [Watchers -> {"none", "sent", "read"}] /\ wPending' \in [Watchers -> BOOLEAN]
      /\ wAnswer' \in [Watchers -> Sheet \cup {None}] /\ sWait' \in [Streams -> SUBSET Watchers]
  BY DEF IInv, TypeOK, FetchDone, EndOfTurn
<1>3. TypeOK'
  BY <1>1, <1>2 DEF IInv, TypeOK, FetchDone, foundryVars
<1>4. wActor[w] # None
  BY DEF IInv, Bound, FetchDone
<1>5. Bound'
  BY <1>4 DEF IInv, TypeOK, Bound, FetchDone, EndOfTurn
<1>6. QED
  BY <1>3, <1>5 DEF IInv

\* refresh() on watchers of the map leaves the invariant alone.
LEMMA RefreshBound ==
  ASSUME IInv, NEW W \in SUBSET ActiveWatchers, Refresh(W),
         UNCHANGED <<watcherOf, wActor, wStopped, cPhase, cActor, cWatcher>>
  PROVE  Bound'
<1>1. \A v \in W : v \in Watchers /\ wActor[v] # None
  BY LiveAssumption DEF ActiveWatchers, IInv, TypeOK, Bound
<1>2. \A v \in Watchers : wActor'[v] = None => wFetch'[v] = "none" /\ ~wStopped'[v]
  BY <1>1 DEF IInv, TypeOK, Bound, Refresh
<1>3. QED
  BY <1>2 DEF IInv, Bound

LEMMA StreamOpensIInv ==
  ASSUME IInv, NEW s \in Streams, StreamOpens(s) PROVE IInv'
<1>1. TypeOK'
  BY DEF IInv, TypeOK, StreamOpens, foundryVars, watcherVars, clientVars
<1>2. Bound'
  BY DEF IInv, Bound, StreamOpens, watcherVars, clientVars
<1>3. QED
  BY <1>1, <1>2 DEF IInv

LEMMA DeliverIInv ==
  ASSUME IInv, NEW s \in Streams, NEW a \in Actors, Deliver(s, a) PROVE IInv'
<1>1. transit' \in [Streams -> [Actors -> Nat]]
  <2>1. transit[s][a] - 1 \in Nat
    <3>1. transit[s][a] \in Nat /\ transit[s][a] > 0
      BY DEF IInv, TypeOK, Deliver
    <3>2. \A n \in Nat : n > 0 => n - 1 \in Nat
      OBVIOUS
    <3>3. QED
      BY <3>1, <3>2
  <2>2. transit' = [transit EXCEPT ![s] = [transit[s] EXCEPT ![a] = transit[s][a] - 1]]
    BY DEF Deliver
  <2>3. [transit[s] EXCEPT ![a] = transit[s][a] - 1] \in [Actors -> Nat]
    BY <2>1 DEF IInv, TypeOK
  <2>4. QED
    BY <2>2, <2>3 DEF IInv, TypeOK
<1>2. TypeOK'
  BY <1>1, RefreshType DEF IInv, TypeOK, Deliver, foundryVars, streamVars, clientVars
<1>3. Bound'
  <2>1. {watcherOf[a]} \ {None} \in SUBSET ActiveWatchers
    BY DEF ActiveWatchers
  <2>2. QED
    BY <2>1, RefreshBound DEF Deliver, clientVars
<1>4. QED
  BY <1>2, <1>3 DEF IInv

LEMMA StreamEndsIInv ==
  ASSUME IInv, NEW s \in Streams, StreamEnds(s) PROVE IInv'
<1>1. missed' \in [Actors -> BOOLEAN] /\ streamUp' \in BOOLEAN
  BY LoseTransitType DEF IInv, TypeOK, StreamEnds, SetUp
<1>2. TypeOK'
  BY <1>1 DEF IInv, TypeOK, StreamEnds, foundryVars, watcherVars, clientVars
<1>3. Bound'
  BY DEF IInv, Bound, StreamEnds, watcherVars, clientVars
<1>4. QED
  BY <1>2, <1>3 DEF IInv

LEMMA BackoffOverIInv ==
  ASSUME IInv, NEW s \in Streams, BackoffOver(s) PROVE IInv'
<1>1. TypeOK'
  BY DEF IInv, TypeOK, BackoffOver, SetUp, foundryVars, watcherVars, clientVars
<1>2. Bound'
  BY DEF IInv, Bound, BackoffOver, watcherVars, clientVars
<1>3. QED
  BY <1>1, <1>2 DEF IInv

LEMMA RestartStreamIInv == ASSUME IInv, RestartStream PROVE IInv'
<1>1. Aborted \in [Streams -> BOOLEAN]
  BY DEF IInv, TypeOK, Aborted
<1>2. TypeOK'
  BY <1>1, EnsureStreamType, LoseTransitType
     DEF IInv, TypeOK, RestartStream, foundryVars, watcherVars, clientVars
<1>3. Bound'
  BY DEF IInv, Bound, RestartStream, watcherVars, clientVars
<1>4. QED
  BY <1>2, <1>3 DEF IInv

LEMMA PollStepIInv ==
  ASSUME IInv, NEW s \in Streams, PollStep(s) PROVE IInv'
<1>1. CASE PollFires(s) \/ PollSkips(s) \/ PollDone(s)
  <2>1. /\ sPoll' \in [Streams -> {"idle", "delay", "due", "wait"}]
        /\ UNCHANGED <<foundryVars, watcherVars, clientVars, streamAc, streamUp, sActive, sLoop, sWait,
                       transit, missed>>
    BY <1>1 DEF IInv, TypeOK, PollFires, PollSkips, PollDone
  <2>2. TypeOK'
    BY <2>1 DEF IInv, TypeOK, foundryVars, watcherVars, clientVars
  <2>3. Bound'
    BY <2>1 DEF IInv, Bound, watcherVars, clientVars
  <2>4. QED
    BY <2>2, <2>3 DEF IInv
<1>2. CASE PollRefreshes(s)
  <2>1. ActiveWatchers \subseteq Watchers
    BY DEF IInv, TypeOK, ActiveWatchers
  <2>2. sWait' \in [Streams -> SUBSET Watchers] /\ sPoll' \in [Streams -> {"idle", "delay", "due", "wait"}]
    BY <1>2, <2>1 DEF IInv, TypeOK, PollRefreshes
  <2>3. TypeOK'
    BY <1>2, <2>2, RefreshType DEF IInv, TypeOK, PollRefreshes, foundryVars, clientVars
  <2>4. Bound'
    BY <1>2, RefreshBound DEF PollRefreshes, clientVars
  <2>5. QED
    BY <2>3, <2>4 DEF IInv
<1>3. QED
  BY <1>1, <1>2 DEF PollStep

LEMMA NextIInv == IInv /\ [Next]_vars => IInv'
<1> SUFFICES ASSUME IInv, [Next]_vars PROVE IInv'
  OBVIOUS
<1>1. CASE Environment
  BY <1>1, EditIInv, SettleIInv, ConnectIInv, DropEarlyIInv, DetachIInv, CloseAppIInv, RestartStreamIInv
     DEF Environment
<1>2. ASSUME NEW c \in Clients, Route(c) PROVE IInv'
  BY <1>2, ReadInitialIInv, AttachIInv, ResumeGoneIInv DEF Route
<1>3. ASSUME NEW w \in Watchers, RefreshStep(w) PROVE IInv'
  BY <1>3, FetchReadIInv, FetchDroppedIInv, FetchDoneIInv DEF RefreshStep
<1>4. ASSUME NEW s \in Streams, StreamStep(s) PROVE IInv'
  BY <1>4, StreamOpensIInv, StreamEndsIInv, BackoffOverIInv, DeliverIInv DEF StreamStep
<1>5. CASE UNCHANGED vars
  <2>1. TypeOK'
    BY <1>5 DEF IInv, TypeOK, vars, foundryVars, watcherVars, streamVars, clientVars
  <2>2. Bound'
    BY <1>5 DEF IInv, Bound, vars, watcherVars, clientVars
  <2>3. QED
    BY <2>1, <2>2 DEF IInv
<1>6. QED
  BY <1>1, <1>2, <1>3, <1>4, <1>5, PollStepIInv DEF Next

LEMMA Invariance == Spec => []IInv
BY InitIInv, NextIInv, PTL DEF Spec

\* Every variable keeps its type, whatever the interleaving of callbacks
\* (ActorWatcher, LiveManager and the route of app.ts).
THEOREM TypeCorrect == Spec => []TypeOK
<1>1. IInv => TypeOK
  BY DEF IInv
<1>2. QED
  BY <1>1, Invariance, PTL

----------------------------------------------------------------------------
(* Clients, watchers and the map.                                          *)

Watched == \A a \in Actors : watcherOf[a] # None => ClientsOf(watcherOf[a]) # {}

LEMMA NextWatched == IInv /\ Watched /\ [Next]_vars => Watched'
<1> SUFFICES ASSUME IInv, Watched, [Next]_vars PROVE Watched'
  OBVIOUS
<1>1. ASSUME NEW c \in Clients, Attach(c) PROVE Watched'
  <2> DEFINE a == cActor[c]
  <2>1. a \in Actors /\ cWatcher[c] = None
    BY <1>1 DEF IInv, TypeOK, Bound, Attach, JoinWatcher
  <2>2. PICK w \in Watchers :
          /\ cWatcher' = [cWatcher EXCEPT ![c] = w]
          /\ watcherOf' = [watcherOf EXCEPT ![a] = w]
    <3>1. CASE watcherOf[a] # None
      <4>1. watcherOf[a] \in Watchers
        BY <2>1, <3>1 DEF IInv, TypeOK
      <4>2. watcherOf' = watcherOf /\ cWatcher' = [cWatcher EXCEPT ![c] = watcherOf[a]]
        BY <1>1, <3>1 DEF Attach, JoinWatcher, watcherVars
      <4>3. watcherOf' = [watcherOf EXCEPT ![a] = watcherOf[a]]
        BY <2>1, <4>2 DEF IInv, TypeOK
      <4>4. QED
        BY <4>1, <4>2, <4>3
    <3>2. CASE watcherOf[a] = None
      BY <1>1, <3>2 DEF Attach, JoinWatcher
    <3>3. QED
      BY <3>1, <3>2
  <2>3. ASSUME NEW b \in Actors, watcherOf'[b] # None
        PROVE  \E d \in Clients : cWatcher'[d] = watcherOf'[b]
    <3>1. CASE b = a
      BY <2>1, <2>2, <3>1 DEF IInv, TypeOK
    <3>2. CASE b # a
      <4>1. watcherOf'[b] = watcherOf[b]
        BY <2>2, <3>2
      <4>2. PICK d \in Clients : cWatcher[d] = watcherOf[b]
        BY <2>3, <4>1 DEF Watched, ClientsOf
      <4>3. d # c
        BY <2>1, <2>3, <4>1, <4>2
      <4>4. QED
        BY <2>2, <4>1, <4>2, <4>3
    <3>3. QED
      BY <3>1, <3>2
  <2>4. QED
    BY <2>3 DEF Watched, ClientsOf
<1>2. ASSUME NEW c \in Clients, Detach(c) PROVE Watched'
  <2> DEFINE a == cActor[c]
             w == cWatcher[c]
  <2>1. a \in Actors /\ w # None /\ watcherOf[a] = w /\ c \in ClientsOf(w)
    BY <1>2 DEF IInv, TypeOK, Bound, Detach, ClientsOf
  <2>2. /\ cWatcher' = [cWatcher EXCEPT ![c] = None]
        /\ watcherOf' = [watcherOf EXCEPT ![a] = IF LastOut(c) THEN None ELSE watcherOf[a]]
    BY <1>2, <2>1 DEF Detach, IInv, TypeOK
  <2>3. ASSUME NEW b \in Actors, watcherOf'[b] # None
        PROVE  \E d \in Clients : cWatcher'[d] = watcherOf'[b]
    <3>1. watcherOf'[b] = watcherOf[b]
      BY <2>2, <2>3 DEF IInv, TypeOK
    <3>2. CASE b = a
      <4>1. PICK d \in ClientsOf(w) : d # c
        BY <2>1, <2>2, <2>3, <3>2 DEF LastOut, IInv, TypeOK
      <4>2. QED
        BY <2>1, <2>2, <3>1, <3>2, <4>1 DEF ClientsOf, IInv, TypeOK
    <3>3. CASE b # a
      <4>1. watcherOf[b] # w
        BY <2>1, <2>3, <3>1, <3>3 DEF IInv, Bound
      <4>2. PICK d \in Clients : cWatcher[d] = watcherOf[b]
        BY <2>3, <3>1 DEF Watched, ClientsOf
      <4>3. QED
        BY <2>2, <3>1, <4>1, <4>2 DEF IInv, TypeOK
    <3>4. QED
      BY <3>2, <3>3
  <2>4. QED
    BY <2>3 DEF Watched, ClientsOf
<1>3. CASE CloseApp
  BY <1>3 DEF Watched, CloseApp
<1>4. CASE UNCHANGED <<watcherOf, cWatcher>>
  BY <1>4 DEF Watched, ClientsOf
<1>5. QED
  BY <1>1, <1>2, <1>3, <1>4
     DEF Next, Environment, Route, RefreshStep, StreamStep, PollStep, vars, watcherVars, clientVars,
         Edit, Settle, Connect, ReadInitial, DropEarly, ResumeGone, RestartStream, FetchRead,
         FetchDropped, FetchDone, StreamOpens, StreamEnds, BackoffOver, Deliver,
         PollFires, PollSkips, PollRefreshes, PollDone

\* No leak and no orphan, for any number of actors and clients: detach,
\* stopAll and the destroyed-socket check of the route never leave a watcher
\* without a client in the map, nor a client on a watcher outside it.
THEOREM NoLeak == Spec => []WatchersMatchClients
<1>1. Init => Watched
  BY DEF Init, Watched
<1>2. IInv /\ Watched => WatchersMatchClients
  <2> SUFFICES ASSUME IInv, Watched PROVE WatchersMatchClients
    OBVIOUS
  <2>1. ASSUME NEW a \in Actors, watcherOf[a] # None
        PROVE  wActor[watcherOf[a]] = a /\ ~wStopped[watcherOf[a]] /\ ClientsOf(watcherOf[a]) # {}
    BY <2>1 DEF IInv, Bound, Watched
  <2>2. ASSUME NEW c \in Clients, cWatcher[c] # None
        PROVE  /\ cPhase[c] = "attached"
               /\ cActor[c] # None /\ watcherOf[cActor[c]] = cWatcher[c]
    BY <2>2 DEF IInv, Bound
  <2>3. QED
    BY <2>1, <2>2 DEF WatchersMatchClients
<1>3. QED
  BY <1>1, <1>2, NextWatched, Invariance, PTL DEF Spec

----------------------------------------------------------------------------
(* The shared subscription.                                                *)

LEMMA NextOneStream == IInv /\ OneStream /\ [Next]_vars => OneStream'
<1> SUFFICES ASSUME IInv, OneStream, [Next]_vars PROVE OneStream'
  OBVIOUS
<1> USE LiveAssumption
<1>1. CASE StopStream
  BY <1>1 DEF IInv, TypeOK, OneStream, StopStream, Aborted
<1>2. ASSUME EnsureStream(Aborted) \/ (EnsureStream(sActive) /\ streamAc = None) PROVE OneStream'
  <2>1. PICK active \in [Streams -> BOOLEAN] :
          EnsureStream(active) /\ \A t \in Streams : ~active[t]
    <3>1. Aborted \in [Streams -> BOOLEAN] /\ \A t \in Streams : ~Aborted[t]
      BY DEF IInv, TypeOK, OneStream, Aborted
    <3>2. streamAc = None => \A t \in Streams : ~sActive[t]
      BY DEF OneStream
    <3>3. sActive \in [Streams -> BOOLEAN]
      BY DEF IInv, TypeOK
    <3>4. QED
      BY <1>2, <3>1, <3>2, <3>3
  <2>2. PICK s \in Streams :
          /\ streamAc' = s /\ streamUp' = TRUE
          /\ sActive' = [active EXCEPT ![s] = TRUE]
          /\ sLoop' = [sLoop EXCEPT ![s] = "open"]
          /\ sPoll' = [sPoll EXCEPT ![s] = "delay"]
    BY <2>1 DEF EnsureStream
  <2>3. QED
    BY <2>1, <2>2 DEF IInv, TypeOK, OneStream
<1>3. CASE UNCHANGED <<streamAc, streamUp, sActive, sLoop, sPoll>>
  BY <1>3 DEF OneStream
<1>4. ASSUME NEW s \in Streams, StreamStep(s) \/ PollStep(s) PROVE OneStream'
  <2>1. CASE StreamOpens(s)
    BY <2>1 DEF IInv, TypeOK, OneStream, StreamOpens
  <2>2. CASE StreamEnds(s)
    BY <2>2 DEF IInv, TypeOK, OneStream, StreamEnds, SetUp
  <2>3. CASE BackoffOver(s)
    <3>1. CASE sActive[s]
      <4>1. s = streamAc /\ s # None
        BY <3>1 DEF OneStream
      <4>2. /\ streamUp' = TRUE /\ sLoop' = [sLoop EXCEPT ![s] = "open"]
            /\ UNCHANGED <<streamAc, sActive, sPoll>>
        BY <2>3, <3>1, <4>1 DEF BackoffOver, SetUp
      <4>3. sLoop'[s] = "open"
        BY <4>2 DEF IInv, TypeOK
      <4>4. QED
        BY <4>1, <4>2, <4>3 DEF OneStream
    <3>2. CASE ~sActive[s]
      BY <2>3, <3>2 DEF IInv, TypeOK, OneStream, BackoffOver
    <3>3. QED
      BY <3>1, <3>2
  <2>4. CASE \E a \in Actors : Deliver(s, a)
    BY <2>4, <1>3 DEF Deliver, streamVars
  <2>5. CASE PollFires(s)
    BY <2>5 DEF IInv, TypeOK, OneStream, PollFires
  <2>6. CASE PollSkips(s)
    BY <2>6 DEF IInv, TypeOK, OneStream, PollSkips
  <2>7. CASE PollRefreshes(s)
    BY <2>7 DEF IInv, TypeOK, OneStream, PollRefreshes
  <2>8. CASE PollDone(s)
    BY <2>8 DEF IInv, TypeOK, OneStream, PollDone
  <2>9. QED
    BY <1>4, <2>1, <2>2, <2>3, <2>4, <2>5, <2>6, <2>7, <2>8 DEF StreamStep, PollStep
<1>5. CASE Environment
  BY <1>1, <1>2, <1>3, <1>5
     DEF Environment, streamVars, KeepStream, StopStreamIfIdle,
         Edit, Settle, Connect, DropEarly, Detach, CloseApp, RestartStream
<1>6. ASSUME NEW c \in Clients, Route(c) PROVE OneStream'
  <2>1. CASE ResumeGone(c)
    <3>1. CASE UNCHANGED <<sLoop, sPoll>>
      BY <1>3, <2>1, <3>1 DEF ResumeGone
    <3>2. CASE AttachAndDetach(cActor[c]) /\ ~UNCHANGED <<sLoop, sPoll>>
      <4>1. streamAc = None /\ UNCHANGED <<streamAc, streamUp, sActive>>
        BY <2>1, <3>2 DEF ResumeGone, AttachAndDetach
      <4>2. QED
        BY <4>1 DEF OneStream
    <3>3. QED
      BY <2>1, <3>1, <3>2 DEF ResumeGone
  <2>2. QED
    BY <1>2, <1>3, <1>6, <2>1 DEF Route, streamVars, ReadInitial, Attach, JoinWatcher
<1>7. ASSUME NEW w \in Watchers, RefreshStep(w) PROVE OneStream'
  BY <1>3, <1>7 DEF RefreshStep, streamVars, FetchRead, FetchDropped, FetchDone
<1>8. CASE UNCHANGED vars
  BY <1>3, <1>8 DEF vars, streamVars
<1>9. QED
  BY <1>4, <1>5, <1>6, <1>7, <1>8 DEF Next

\* There is one subscription: whatever an aborted streamLoop or pollLoop does
\* late, it never touches the state of its successor (ensureStream,
\* restartStream, stopStreamIfIdle, setUp).
THEOREM OneSubscription == Spec => []OneStream
<1>1. Init => OneStream
  BY LiveAssumption DEF Init, OneStream
<1>2. QED
  BY <1>1, NextOneStream, Invariance, PTL DEF Spec

LEMMA NextStreamIffWatched == IInv /\ StreamIffWatched /\ [Next]_vars => StreamIffWatched'
<1> SUFFICES ASSUME IInv, StreamIffWatched, [Next]_vars PROVE StreamIffWatched'
  OBVIOUS
<1> USE LiveAssumption
<1>1. CASE UNCHANGED <<streamAc, watcherOf>>
  BY <1>1 DEF StreamIffWatched
<1>2. ASSUME NEW c \in Clients, Attach(c) PROVE StreamIffWatched'
  <2>1. cActor[c] \in Actors
    BY <1>2 DEF IInv, TypeOK, Bound, Attach, JoinWatcher
  <2>2. CASE watcherOf[cActor[c]] # None
    BY <1>1, <1>2, <2>2 DEF Attach, JoinWatcher, watcherVars, streamVars
  <2>3. CASE watcherOf[cActor[c]] = None
    <3>1. watcherOf'[cActor[c]] # None
      BY <1>2, <2>1, <2>3 DEF Attach, JoinWatcher, IInv, TypeOK
    <3>2. streamAc' # None
      BY <1>2, <2>3 DEF Attach, JoinWatcher, EnsureStream, streamVars
    <3>3. QED
      BY <2>1, <3>1, <3>2 DEF StreamIffWatched
  <2>4. QED
    BY <2>2, <2>3
<1>3. ASSUME NEW c \in Clients, Detach(c) PROVE StreamIffWatched'
  <2> DEFINE a == cActor[c]
             last == LastOut(c)
  <2>1. a \in Actors /\ watcherOf[a] = cWatcher[c]
    BY <1>3 DEF IInv, TypeOK, Bound, Detach
  <2>2. watcherOf' = [watcherOf EXCEPT ![a] = IF last THEN None ELSE watcherOf[a]]
    BY <1>3, <2>1 DEF Detach
  <2>3. CASE last
    BY <1>3, <2>1, <2>2, <2>3
       DEF Detach, StopStreamIfIdle, StopStream, KeepStream, StreamIffWatched, IInv, TypeOK
  <2>4. CASE ~last
    <3>1. watcherOf' = watcherOf
      BY <2>1, <2>2, <2>4 DEF IInv, TypeOK
    <3>2. UNCHANGED streamAc
      BY <1>3, <2>4 DEF Detach, KeepStream
    <3>3. QED
      BY <1>1, <3>1, <3>2
  <2>5. QED
    BY <2>3, <2>4
<1>4. CASE CloseApp
  BY <1>4 DEF CloseApp, StopStreamIfIdle, StopStream, KeepStream, StreamIffWatched
<1>5. CASE RestartStream
  BY <1>5 DEF RestartStream, EnsureStream, StreamIffWatched, watcherVars
<1>6. QED
  BY <1>1, <1>2, <1>3, <1>4, <1>5
     DEF Next, Environment, Route, RefreshStep, StreamStep, PollStep, vars, watcherVars, streamVars,
         Edit, Settle, Connect, ReadInitial, DropEarly, ResumeGone, FetchRead,
         FetchDropped, FetchDone, StreamOpens, StreamEnds, BackoffOver, Deliver,
         PollFires, PollSkips, PollRefreshes, PollDone

\* The relay subscription is open exactly while some actor is watched.
THEOREM SubscribedIffWatched == Spec => []StreamIffWatched
<1>1. Init => StreamIffWatched
  BY DEF Init, StreamIffWatched
<1>2. QED
  BY <1>1, NextStreamIffWatched, Invariance, PTL DEF Spec

----------------------------------------------------------------------------
(* No announced change is lost.                                            *)

\* A change of a that is announced puts an event on the current stream;
\* anything else it does is to count events up or to record a as missed.
LEMMA AnnounceCaught ==
  ASSUME TypeOK, NEW a \in Actors, NEW n \in Nat \ {0}, Announce(a, n), UNCHANGED streamAc
  PROVE  /\ missed'[a] \/ (streamAc' # None /\ transit'[streamAc'][a] > 0)
         /\ \A b \in Actors \ {a} :
              /\ missed'[b] = missed[b]
              /\ streamAc # None => transit'[streamAc][b] = transit[streamAc][b]
<1>1. CASE streamAc # None /\ sLoop[streamAc] = "live"
  <2>1. streamAc \in Streams
    BY <1>1 DEF TypeOK
  <2>2. transit' = [transit EXCEPT ![streamAc] = [transit[streamAc] EXCEPT ![a] = transit[streamAc][a] + n]]
    BY <1>1 DEF Announce
  <2>3. transit'[streamAc] = [transit[streamAc] EXCEPT ![a] = transit[streamAc][a] + n]
    BY <2>1, <2>2 DEF TypeOK
  <2>4. transit[streamAc][a] \in Nat /\ transit[streamAc] \in [Actors -> Nat]
    BY <2>1 DEF TypeOK
  <2>5. transit'[streamAc][a] = transit[streamAc][a] + n
    BY <2>3, <2>4
  <2>6. transit'[streamAc][a] > 0
    BY <2>4, <2>5
  <2>7. \A b \in Actors \ {a} : transit'[streamAc][b] = transit[streamAc][b]
    BY <2>3, <2>4
  <2>8. QED
    BY <1>1, <2>6, <2>7 DEF Announce
<1>2. CASE ~(streamAc # None /\ sLoop[streamAc] = "live")
  BY <1>2 DEF TypeOK, Announce
<1>3. QED
  BY <1>1, <1>2

\* The world changes.
LEMMA FoundryCaught ==
  ASSUME IInv, NoLostUpdate, NEW a \in Actors, Edit(a) \/ Settle(a) PROVE NoLostUpdate'
<1>1. PICK n \in Nat \ {0} : Announce(a, n)
  <2>1. CASE Edit(a)
    <3>1. PICK s \in Sheet : Announce(a, HooksFired(doc[a], s))
      BY <2>1 DEF Edit
    <3>2. QED
      BY <3>1, HooksFiredType DEF IInv, TypeOK
  <2>2. CASE Settle(a)
    BY <2>2 DEF Settle
  <2>3. QED
    BY <2>1, <2>2
<1>2. UNCHANGED <<watcherVars, streamAc>>
  BY DEF Edit, Settle, streamVars
<1>3. missed'[a] \/ (streamAc' # None /\ transit'[streamAc'][a] > 0)
  BY <1>1, <1>2, AnnounceCaught DEF IInv
<1>4. ASSUME NEW b \in Actors \ {a}, watcherOf'[b] # None, ~missed'[b]
      PROVE  Caught(b, watcherOf[b])'
  <2>1. missed'[b] = missed[b] /\ (streamAc # None => transit'[streamAc][b] = transit[streamAc][b])
    BY <1>1, <1>2, AnnounceCaught DEF IInv
  <2>2. Caught(b, watcherOf[b])
    BY <1>2, <1>4, <2>1 DEF NoLostUpdate, watcherVars
  <2>3. doc'[b] = doc[b]
    BY DEF Edit, Settle, IInv, TypeOK
  <2>4. wActor[watcherOf[b]] = b
    BY <1>2, <1>4 DEF IInv, Bound, watcherVars
  <2>5. QED
    BY <1>2, <2>1, <2>2, <2>3, <2>4 DEF Caught, InSync, watcherVars
<1>5. QED
  BY <1>3, <1>4 DEF NoLostUpdate, Caught

\* A step that starts refreshes on a set of watchers, and changes nothing
\* else of the watchers, keeps every other actor caught.
LEMMA RefreshCaught ==
  ASSUME IInv, NEW W, Refresh(W), NEW a \in Actors, watcherOf[a] # None,
         watcherOf[a] \in W \/ wPending[watcherOf[a]] \/ wFetch[watcherOf[a]] = "sent"
           \/ (wFetch[watcherOf[a]] = "read" /\ wAnswer[watcherOf[a]] = doc[a])
           \/ (wFetch[watcherOf[a]] = "none" /\ InSync(watcherOf[a])),
         UNCHANGED <<doc, watcherOf, wActor, wLast, wSuspect, wAnswer>>
  PROVE  Caught(a, watcherOf[a])'
<1> DEFINE w == watcherOf[a]
<1>1. w \in Watchers
  BY DEF IInv, TypeOK
<1>2. CASE w \in W
  BY <1>1, <1>2 DEF Refresh, Caught
<1>3. CASE w \notin W
  <2>1. wFetch'[w] = wFetch[w] /\ wPending'[w] = wPending[w]
    BY <1>1, <1>3 DEF Refresh
  <2>2. QED
    BY <1>3, <2>1 DEF Caught, InSync
<1>4. QED
  BY <1>2, <1>3

LEMMA DeliverCaught ==
  ASSUME IInv, NoLostUpdate, NEW s \in Streams, NEW a \in Actors, Deliver(s, a) PROVE NoLostUpdate'
<1>1. Refresh({watcherOf[a]} \ {None})
      /\ UNCHANGED <<doc, watcherOf, wActor, wLast, wSuspect, wAnswer, streamAc, missed>>
  BY DEF Deliver, foundryVars, streamVars
<1>2. SUFFICES ASSUME NEW b \in Actors, watcherOf[b] # None, ~missed[b]
               PROVE  Caught(b, watcherOf[b])'
  BY <1>1 DEF NoLostUpdate
<1>3. Caught(b, watcherOf[b])
  BY <1>2 DEF NoLostUpdate
<1>4. CASE b = a
  BY <1>1, <1>2, <1>4, RefreshCaught
<1>5. CASE b # a /\ streamAc # None /\ transit[streamAc][b] > 0
  <2>1. transit' = [transit EXCEPT ![s] = [transit[s] EXCEPT ![a] = transit[s][a] - 1]]
    BY DEF Deliver
  <2>2. streamAc \in Streams
    BY <1>5 DEF IInv, TypeOK
  <2>3. transit'[streamAc][b] = transit[streamAc][b]
    BY <1>5, <2>1, <2>2 DEF IInv, TypeOK
  <2>4. QED
    BY <1>1, <1>5, <2>3 DEF Caught
<1>6. CASE b # a /\ ~(streamAc # None /\ transit[streamAc][b] > 0)
  BY <1>1, <1>2, <1>3, <1>6, RefreshCaught DEF Caught
<1>7. QED
  BY <1>4, <1>5, <1>6

LEMMA FetchReadCaught ==
  ASSUME IInv, NoLostUpdate, NEW w \in Watchers, FetchRead(w) PROVE NoLostUpdate'
<1> DEFINE a == wActor[w]
<1>1. a \in Actors
  BY DEF IInv, TypeOK, Bound, FetchRead
<1>2. PICK r \in ReadResults(a) :
        /\ wAnswer' = [wAnswer EXCEPT ![w] = r]
        /\ missed' = [missed EXCEPT ![a] = IF watcherOf[a] = w THEN r # doc[a] ELSE missed[a]]
  BY DEF FetchRead
<1>3. /\ wFetch' = [wFetch EXCEPT ![w] = "read"]
      /\ UNCHANGED <<doc, watcherOf, wActor, wLast, wSuspect, wPending, streamAc, transit>>
  BY DEF FetchRead, foundryVars, streamVars
<1>4. ASSUME NEW b \in Actors, watcherOf[b] # None, ~missed'[b]
      PROVE  Caught(b, watcherOf[b])'
  <2>1. watcherOf[b] \in Watchers /\ wActor[watcherOf[b]] = b
    BY <1>4 DEF IInv, TypeOK, Bound
  <2>2. CASE watcherOf[b] = w
    <3>1. b = a /\ r = doc[a]
      BY <1>1, <1>2, <1>4, <2>1, <2>2 DEF IInv, TypeOK
    <3>2. QED
      BY <1>2, <1>3, <2>2, <3>1 DEF Caught, IInv, TypeOK
  <2>3. CASE watcherOf[b] # w
    <3>1. ~missed[b]
      BY <1>1, <1>2, <1>4, <2>3 DEF IInv, TypeOK
    <3>2. Caught(b, watcherOf[b])
      BY <1>4, <3>1 DEF NoLostUpdate
    <3>3. wFetch'[watcherOf[b]] = wFetch[watcherOf[b]] /\ wAnswer'[watcherOf[b]] = wAnswer[watcherOf[b]]
      BY <1>2, <1>3, <2>1, <2>3 DEF IInv, TypeOK
    <3>4. QED
      BY <1>3, <3>2, <3>3 DEF Caught, InSync
  <2>4. QED
    BY <2>2, <2>3
<1>5. QED
  BY <1>3, <1>4 DEF NoLostUpdate

\* A step that leaves alone what Caught says of the watchers in the map.
LEMMA FrameCaught ==
  ASSUME IInv, NoLostUpdate, NEW a \in Actors, watcherOf'[a] # None, ~missed'[a],
         watcherOf[a] = watcherOf'[a], ~missed[a], doc'[a] = doc[a],
         wActor'[watcherOf[a]] = wActor[watcherOf[a]],
         wLast'[watcherOf[a]] = wLast[watcherOf[a]], wSuspect'[watcherOf[a]] = wSuspect[watcherOf[a]],
         wFetch'[watcherOf[a]] = wFetch[watcherOf[a]], wAnswer'[watcherOf[a]] = wAnswer[watcherOf[a]],
         wPending'[watcherOf[a]] = wPending[watcherOf[a]],
         streamAc # None /\ transit[streamAc][a] > 0 => streamAc' # None /\ transit'[streamAc'][a] > 0
  PROVE  Caught(a, watcherOf[a])'
<1>1. Caught(a, watcherOf[a])
  BY DEF NoLostUpdate
<1>2. wActor[watcherOf[a]] = a
  BY DEF IInv, Bound
<1>3. QED
  BY <1>1, <1>2 DEF Caught, InSync

LEMMA FetchDroppedCaught ==
  ASSUME IInv, NoLostUpdate, NEW w \in Watchers, FetchDropped(w) PROVE NoLostUpdate'
<1>1. UNCHANGED <<doc, watcherOf, missed, streamAc, transit>>
  BY DEF FetchDropped, foundryVars
<1>2. ASSUME NEW a \in Actors, watcherOf[a] # None, ~missed[a]
      PROVE  Caught(a, watcherOf[a])'
  <2>1. watcherOf[a] # w /\ watcherOf[a] \in Watchers
    BY <1>2 DEF IInv, TypeOK, Bound, FetchDropped
  <2>2. /\ wActor'[watcherOf[a]] = wActor[watcherOf[a]]
        /\ wLast'[watcherOf[a]] = wLast[watcherOf[a]] /\ wSuspect'[watcherOf[a]] = wSuspect[watcherOf[a]]
    BY <2>1 DEF FetchDropped, Release
  <2>3. /\ wFetch'[watcherOf[a]] = wFetch[watcherOf[a]] /\ wAnswer'[watcherOf[a]] = wAnswer[watcherOf[a]]
        /\ wPending'[watcherOf[a]] = wPending[watcherOf[a]]
    BY <2>1 DEF FetchDropped, IInv, TypeOK
  <2>4. QED
    BY <1>1, <1>2, <2>2, <2>3, FrameCaught
<1>3. QED
  BY <1>1, <1>2 DEF NoLostUpdate

LEMMA FetchDoneCaught ==
  ASSUME IInv, NoLostUpdate, NEW w \in Watchers, FetchDone(w) PROVE NoLostUpdate'
<1>1. UNCHANGED <<doc, watcherOf, wActor, missed, streamAc, transit>>
  BY DEF FetchDone, foundryVars
<1>2. /\ wFetch' = [wFetch EXCEPT ![w] = IF wPending[w] THEN "sent" ELSE "none"]
      /\ wPending' = [wPending EXCEPT ![w] = FALSE]
      /\ wAnswer' = [wAnswer EXCEPT ![w] = None]
  BY DEF FetchDone, EndOfTurn
<1>3. ASSUME NEW a \in Actors, watcherOf[a] # None, ~missed[a]
      PROVE  Caught(a, watcherOf[a])'
  <2>1. watcherOf[a] \in Watchers /\ wActor[watcherOf[a]] = a
    BY <1>3 DEF IInv, TypeOK, Bound
  <2>2. CASE watcherOf[a] # w
    <3>1. wLast'[watcherOf[a]] = wLast[watcherOf[a]] /\ wSuspect'[watcherOf[a]] = wSuspect[watcherOf[a]]
      BY <2>1, <2>2 DEF FetchDone, Same, HoldBack, Broadcast, IInv, TypeOK
    <3>2. QED
      BY <1>1, <1>2, <1>3, <2>1, <2>2, <3>1, FrameCaught DEF IInv, TypeOK
  <2>3. CASE watcherOf[a] = w /\ wPending[w]
    <3>1. wFetch'[w] = "sent"
      BY <1>2, <2>3 DEF IInv, TypeOK
    <3>2. QED
      BY <1>1, <2>3, <3>1 DEF Caught
  <2>4. CASE watcherOf[a] = w /\ ~wPending[w]
    <3>1. Caught(a, w)
      BY <1>3, <2>4 DEF NoLostUpdate
    <3>2. CASE streamAc # None /\ transit[streamAc][a] > 0
      BY <1>1, <3>2 DEF Caught
    <3>3. CASE wAnswer[w] = doc[a]
      <4>1. doc[a] # None
        BY LiveAssumption DEF IInv, TypeOK
      <4>2. wLast'[w] = doc[a] \/ wSuspect'[w] = doc[a]
        <5>1. CASE Same(w)
          BY <3>3, <4>1, <5>1 DEF Same
        <5>2. CASE HoldBack(w)
          BY <3>3, <5>2 DEF HoldBack, IInv, TypeOK
        <5>3. CASE Broadcast(w)
          BY <3>3, <5>3 DEF Broadcast, IInv, TypeOK
        <5>4. QED
          BY <5>1, <5>2, <5>3 DEF FetchDone
      <4>3. wFetch'[w] = "none"
        BY <1>2, <2>4 DEF IInv, TypeOK
      <4>4. QED
        BY <1>1, <2>1, <2>4, <4>2, <4>3 DEF Caught, InSync
    <3>4. QED
      BY <2>4, <3>1, <3>2, <3>3 DEF Caught, FetchDone
  <2>5. QED
    BY <2>2, <2>3, <2>4
<1>4. QED
  BY <1>1, <1>3 DEF NoLostUpdate

\* Losing the events in transit on the current stream: their actors count as
\* missed, so the others do not rely on them.
LEMMA LoseTransitCaught ==
  ASSUME IInv, NoLostUpdate, LoseTransit,
         UNCHANGED <<doc, watcherOf, wActor, wLast, wSuspect, wFetch, wAnswer, wPending>>
  PROVE  NoLostUpdate'
<1>1. ASSUME NEW a \in Actors, watcherOf[a] # None, ~missed'[a]
      PROVE  Caught(a, watcherOf[a])'
  <2>1. ~missed[a] /\ ~(streamAc # None /\ transit[streamAc][a] > 0)
    BY <1>1 DEF LoseTransit
  <2>2. QED
    BY <1>1, <2>1, FrameCaught
<1>2. QED
  BY <1>1 DEF NoLostUpdate

LEMMA StreamEndsCaught ==
  ASSUME IInv, NoLostUpdate, NEW s \in Streams, StreamEnds(s) PROVE NoLostUpdate'
<1>1. CASE streamAc = s
  BY <1>1, LoseTransitCaught DEF StreamEnds, foundryVars, watcherVars
<1>2. CASE streamAc # s
  <2>1. UNCHANGED <<doc, watcherVars, missed, streamAc>>
    BY <1>2 DEF StreamEnds, foundryVars
  <2>2. streamAc # None => transit'[streamAc] = transit[streamAc]
    BY <1>2 DEF StreamEnds, IInv, TypeOK
  <2>3. ASSUME NEW a \in Actors, watcherOf[a] # None, ~missed[a]
        PROVE  Caught(a, watcherOf[a])'
    <3>1. UNCHANGED <<watcherOf, wActor, wLast, wSuspect, wFetch, wAnswer, wPending>>
      BY <2>1 DEF watcherVars
    <3>2. streamAc # None /\ transit[streamAc][a] > 0 => streamAc' # None /\ transit'[streamAc'][a] > 0
      BY <2>1, <2>2
    <3>3. QED
      BY <2>1, <2>3, <3>1, <3>2, FrameCaught
  <2>4. QED
    BY <2>1, <2>3 DEF NoLostUpdate, watcherVars
<1>3. QED
  BY <1>1, <1>2

LEMMA RestartCaught ==
  ASSUME IInv, NoLostUpdate, RestartStream PROVE NoLostUpdate'
BY LoseTransitCaught DEF RestartStream, foundryVars, watcherVars

LEMMA AttachCaught ==
  ASSUME IInv, NoLostUpdate, NEW c \in Clients, Attach(c) PROVE NoLostUpdate'
<1> DEFINE a == cActor[c]
<1>1. a \in Actors
  BY DEF IInv, TypeOK, Bound, Attach
<1>2. CASE watcherOf[a] # None
  <2>1. UNCHANGED <<doc, watcherVars, missed, streamAc, transit>>
    BY <1>2 DEF Attach, JoinWatcher, foundryVars, streamVars
  <2>2. QED
    BY <2>1 DEF NoLostUpdate, Caught, InSync, watcherVars
<1>3. CASE watcherOf[a] = None
  <2>1. PICK w \in Watchers :
          /\ wActor[w] = None
          /\ watcherOf' = [watcherOf EXCEPT ![a] = w]
          /\ wActor' = [wActor EXCEPT ![w] = a]
          /\ wLast' = [wLast EXCEPT ![w] = cView[c]]
    BY <1>3 DEF Attach, JoinWatcher
  <2>2. /\ missed' = [missed EXCEPT ![a] = cView[c] # doc[a]]
        /\ UNCHANGED <<doc, wSuspect, wFetch, wAnswer, wPending, transit>>
    BY <1>3 DEF Attach, JoinWatcher, foundryVars
  <2>3. streamAc # None => UNCHANGED streamAc
    BY <1>3 DEF Attach, JoinWatcher, streamVars
  <2>4. ASSUME NEW b \in Actors, watcherOf'[b] # None, ~missed'[b]
        PROVE  Caught(b, watcherOf[b])'
    <3>1. CASE b = a
      <4>1. watcherOf'[b] = w /\ wActor'[w] = a /\ wLast'[w] = doc[a]
        BY <1>1, <2>1, <2>2, <2>4, <3>1 DEF IInv, TypeOK
      <4>2. wFetch'[w] = "none"
        BY <2>1, <2>2 DEF IInv, Bound
      <4>3. QED
        BY <2>2, <3>1, <4>1, <4>2 DEF Caught, InSync
    <3>2. CASE b # a
      <4>1. watcherOf'[b] = watcherOf[b] /\ missed'[b] = missed[b]
        BY <2>1, <2>2, <3>2 DEF IInv, TypeOK
      <4>2. watcherOf[b] # w /\ watcherOf[b] \in Watchers
        BY <2>1, <2>4, <4>1, LiveAssumption DEF IInv, TypeOK, Bound
      <4>3. wActor'[watcherOf[b]] = wActor[watcherOf[b]] /\ wLast'[watcherOf[b]] = wLast[watcherOf[b]]
        BY <2>1, <4>2 DEF IInv, TypeOK
      <4>4. streamAc # None /\ transit[streamAc][b] > 0 => streamAc' # None /\ transit'[streamAc'][b] > 0
        BY <2>2, <2>3
      <4>5. QED
        BY <2>2, <2>4, <4>1, <4>3, <4>4, FrameCaught
    <3>3. QED
      BY <3>1, <3>2
  <2>5. QED
    BY <2>4 DEF NoLostUpdate
<1>4. QED
  BY <1>2, <1>3

LEMMA DetachCaught ==
  ASSUME IInv, NoLostUpdate, NEW c \in Clients, Detach(c) PROVE NoLostUpdate'
<1> DEFINE a == cActor[c]
           w == cWatcher[c]
           last == LastOut(c)
           W == IF last THEN {w} ELSE {}
<1>1. a \in Actors /\ w \in Watchers /\ watcherOf[a] = w /\ wActor[w] = a
  BY DEF IInv, TypeOK, Bound, Detach
<1>2. /\ watcherOf' = [watcherOf EXCEPT ![a] = IF last THEN None ELSE watcherOf[a]]
      /\ Release(W, wFetch)
      /\ UNCHANGED <<doc, wFetch, wAnswer, wPending, transit>>
  BY <1>1 DEF Detach, foundryVars
<1>3. ASSUME NEW b \in Actors, watcherOf'[b] # None, ~missed'[b]
      PROVE  Caught(b, watcherOf[b])'
  <2>1. watcherOf'[b] = watcherOf[b] /\ watcherOf[b] \in Watchers
    BY <1>1, <1>2, <1>3 DEF IInv, TypeOK
  <2>2. watcherOf[b] \notin W
    <3>1. CASE b = a
      BY <1>1, <1>2, <1>3, <3>1 DEF IInv, TypeOK
    <3>2. CASE b # a
      BY <1>1, <1>3, <2>1, <3>2 DEF IInv, Bound
    <3>3. QED
      BY <3>1, <3>2
  <2>3. /\ wActor'[watcherOf[b]] = wActor[watcherOf[b]] /\ wLast'[watcherOf[b]] = wLast[watcherOf[b]]
        /\ wSuspect'[watcherOf[b]] = wSuspect[watcherOf[b]]
    BY <1>2, <2>1, <2>2 DEF Release
  <2>4. \/ UNCHANGED <<streamAc, missed>>
        \/ LoseTransit
    BY DEF Detach, StopStreamIfIdle, StopStream, KeepStream
  <2>5. ~missed[b] /\ (streamAc # None /\ transit[streamAc][b] > 0
                         => streamAc' # None /\ transit'[streamAc'][b] > 0)
    BY <1>2, <1>3, <2>4 DEF LoseTransit
  <2>6. QED
    BY <1>2, <1>3, <2>1, <2>3, <2>5, FrameCaught
<1>4. QED
  BY <1>3 DEF NoLostUpdate

LEMMA NextCaught == IInv /\ NoLostUpdate /\ [Next]_vars => NoLostUpdate'
<1> SUFFICES ASSUME IInv, NoLostUpdate, [Next]_vars PROVE NoLostUpdate'
  OBVIOUS
<1>1. CASE UNCHANGED <<doc, watcherVars, missed, streamAc, transit>>
  BY <1>1 DEF NoLostUpdate, Caught, InSync, watcherVars
<1>2. CASE CloseApp
  BY <1>2 DEF NoLostUpdate, CloseApp
<1>3. ASSUME NEW s \in Streams, PollRefreshes(s) PROVE NoLostUpdate'
  <2>1. /\ Refresh(ActiveWatchers)
        /\ UNCHANGED <<doc, watcherOf, wActor, wLast, wSuspect, wAnswer, missed>>
    BY <1>3 DEF PollRefreshes, foundryVars
  <2>2. ASSUME NEW a \in Actors, watcherOf[a] # None
        PROVE  Caught(a, watcherOf[a])'
    <3>1. watcherOf[a] \in ActiveWatchers
      BY <2>2 DEF ActiveWatchers
    <3>2. QED
      BY <2>1, <2>2, <3>1, RefreshCaught
  <2>3. QED
    BY <2>1, <2>2 DEF NoLostUpdate
<1>4. CASE Environment
  BY <1>1, <1>2, <1>4, FoundryCaught, DetachCaught, RestartCaught
     DEF Environment, foundryVars, streamVars, Connect, DropEarly
<1>5. ASSUME NEW c \in Clients, Route(c) PROVE NoLostUpdate'
  BY <1>1, <1>5, AttachCaught DEF Route, foundryVars, streamVars, ReadInitial, ResumeGone
<1>6. ASSUME NEW w \in Watchers, RefreshStep(w) PROVE NoLostUpdate'
  BY <1>6, FetchReadCaught, FetchDroppedCaught, FetchDoneCaught DEF RefreshStep
<1>7. ASSUME NEW s \in Streams, StreamStep(s) \/ PollStep(s) PROVE NoLostUpdate'
  BY <1>1, <1>3, <1>7, StreamEndsCaught, DeliverCaught
     DEF StreamStep, PollStep, foundryVars, StreamOpens, BackoffOver, PollFires, PollSkips, PollDone
<1>8. CASE UNCHANGED vars
  BY <1>1, <1>8 DEF vars, foundryVars, streamVars
<1>9. QED
  BY <1>4, <1>5, <1>6, <1>7, <1>8 DEF Next

\* However events, coalesced refreshes, late answers, reconnects and
\* restarts interleave, a change whose event reached the gateway is never
\* forgotten: the watcher has the current sheet or is about to fetch it
\* (ActorWatcher.refresh and its pendingRefresh flag).
THEOREM NoLostWakeup == Spec => []NoLostUpdate
<1>1. Init => NoLostUpdate
  BY DEF Init, NoLostUpdate
<1>2. QED
  BY <1>1, NextCaught, Invariance, PTL DEF Spec

----------------------------------------------------------------------------
(* The sheet held back.                                                    *)

\* A watcher in use has been primed with a sheet, one that is not holds none
\* back; a route that got its answer has a sheet.
Primed ==
    /\ \A w \in Watchers : IF wActor[w] = None THEN wSuspect[w] = None ELSE wLast[w] # None
    /\ \A c \in Clients : cPhase[c] = "ready" => cView[c] # None

HeldBack == Primed /\ SuspectIsCurrent

\* The watchers' half of it, about one watcher.
HeldBy(w) ==
    /\ IF wActor[w] = None THEN wSuspect[w] = None ELSE wLast[w] # None
    /\ wSuspect[w] # None => IsSuspiciousSectionLoss(wLast[w].secs, wSuspect[w].secs)

LEMMA HeldByEach ==
  HeldBack <=> /\ \A w \in Watchers : HeldBy(w)
               /\ \A c \in Clients : cPhase[c] = "ready" => cView[c] # None
BY DEF HeldBack, Primed, SuspectIsCurrent, HeldBy

LEMMA HeldByEachNext ==
  ASSUME \A w \in Watchers : HeldBy(w)',
         \A c \in Clients : cPhase'[c] = "ready" => cView'[c] # None
  PROVE  HeldBack'
BY DEF HeldBack, Primed, SuspectIsCurrent, HeldBy

\* A watcher whose sheets stay as they are.
LEMMA HeldOn ==
  ASSUME NEW w \in Watchers, HeldBy(w),
         wActor'[w] = wActor[w], wLast'[w] = wLast[w], wSuspect'[w] = wSuspect[w]
  PROVE  HeldBy(w)'
BY DEF HeldBy

\* stop() may leave garbage, which holds nothing back.
LEMMA ReleaseHeld ==
  ASSUME NEW W, NEW F, Release(W, F), NEW w \in Watchers, HeldBy(w)
  PROVE  HeldBy(w)'
<1>1. CASE w \in {v \in W : F[v] = "none"}
  BY <1>1 DEF Release, HeldBy
<1>2. CASE w \notin {v \in W : F[v] = "none"}
  <2>1. wActor'[w] = wActor[w] /\ wLast'[w] = wLast[w] /\ wSuspect'[w] = wSuspect[w]
    BY <1>2 DEF Release
  <2>2. QED
    BY <2>1, HeldOn
<1>3. QED
  BY <1>1, <1>2

\* An answer is dropped, held back or sent on.
LEMMA FetchDoneHeld ==
  ASSUME IInv, HeldBack, NEW w \in Watchers, FetchDone(w)
  PROVE  HeldBack'
<1>1. wActor[w] # None /\ UNCHANGED <<wActor, cPhase>>
  BY DEF FetchDone, IInv, Bound
<1>2. \A v \in Watchers : HeldBy(v)
  BY HeldByEach
<1>3. CASE Same(w)
  <2>1. UNCHANGED <<wLast, wSuspect, cView>>
    BY <1>3 DEF Same
  <2>2. QED
    BY <1>1, <2>1 DEF HeldBack, Primed, SuspectIsCurrent
<1>4. CASE HoldBack(w)
  <2>1. wLast' = wLast /\ cView' = cView /\ wSuspect' = [wSuspect EXCEPT ![w] = wAnswer[w]]
    BY <1>4 DEF HoldBack
  <2>2. wSuspect'[w] = wAnswer[w] /\ \A v \in Watchers \ {w} : wSuspect'[v] = wSuspect[v]
    BY <2>1 DEF IInv, TypeOK
  <2>3. IsSuspiciousSectionLoss(wLast[w].secs, wAnswer[w].secs)
    BY <1>4 DEF HoldBack, Suspicious
  <2>4. wLast[w] # None
    BY <1>1, <1>2 DEF HeldBy
  <2>5. HeldBy(w)'
    BY <1>1, <2>1, <2>2, <2>3, <2>4 DEF HeldBy
  <2>6. \A v \in Watchers : HeldBy(v)'
    BY <1>1, <1>2, <2>1, <2>2, <2>5, HeldOn
  <2>7. QED
    BY <1>1, <2>1, <2>6, HeldByEach, HeldByEachNext
<1>5. CASE Broadcast(w)
  <2>1. /\ wAnswer[w] # None
        /\ wLast' = [wLast EXCEPT ![w] = wAnswer[w]] /\ wSuspect' = [wSuspect EXCEPT ![w] = None]
        /\ cView' = [c \in Clients |-> IF c \in ClientsOf(w) THEN wAnswer[w] ELSE cView[c]]
    BY <1>5 DEF Broadcast
  <2>2. /\ wSuspect'[w] = None /\ wLast'[w] = wAnswer[w]
        /\ \A v \in Watchers \ {w} : wSuspect'[v] = wSuspect[v] /\ wLast'[v] = wLast[v]
    BY <2>1 DEF IInv, TypeOK
  <2>3. HeldBy(w)'
    BY <1>1, <2>1, <2>2 DEF HeldBy
  <2>4. \A v \in Watchers : HeldBy(v)'
    BY <1>1, <1>2, <2>2, <2>3, HeldOn
  <2>5. \A c \in Clients : cPhase'[c] = "ready" => cView'[c] # None
    BY <1>1, <2>1 DEF HeldBack, Primed
  <2>6. QED
    BY <2>4, <2>5, HeldByEachNext
<1>6. QED
  BY <1>3, <1>4, <1>5 DEF FetchDone

\* A watcher is primed with the sheet its first client was sent.
LEMMA AttachHeld ==
  ASSUME IInv, HeldBack, NEW c \in Clients, Attach(c)
  PROVE  HeldBack'
<1>1. \A v \in Watchers : HeldBy(v)
  BY HeldByEach
<1>2. \A d \in Clients : cPhase'[d] = "ready" => cView'[d] # None
  BY DEF Attach, JoinWatcher, HeldBack, Primed, IInv, TypeOK
<1>3. CASE UNCHANGED <<wActor, wLast, wSuspect>>
  BY <1>1, <1>2, <1>3, HeldOn, HeldByEachNext
<1>4. ASSUME NEW w \in Watchers, wActor[w] = None, wLast' = [wLast EXCEPT ![w] = cView[c]],
             wActor' = [wActor EXCEPT ![w] = cActor[c]], UNCHANGED wSuspect
      PROVE  HeldBack'
  <2>1. cView[c] # None
    BY DEF Attach, JoinWatcher, HeldBack, Primed
  <2>2. /\ wLast'[w] = cView[c] /\ wSuspect'[w] = None
        /\ \A v \in Watchers \ {w} : wActor'[v] = wActor[v] /\ wLast'[v] = wLast[v] /\ wSuspect'[v] = wSuspect[v]
    BY <1>1, <1>4 DEF IInv, TypeOK, HeldBy
  <2>3. HeldBy(w)'
    BY <2>1, <2>2 DEF HeldBy
  <2>4. \A v \in Watchers : HeldBy(v)'
    BY <1>1, <2>2, <2>3, HeldOn
  <2>5. QED
    BY <1>2, <2>4, HeldByEachNext
<1>5. QED
  BY <1>3, <1>4 DEF Attach, JoinWatcher, watcherVars

LEMMA NextHeld == IInv /\ HeldBack /\ [Next]_vars => HeldBack'
<1> SUFFICES ASSUME IInv, HeldBack, [Next]_vars PROVE HeldBack'
  OBVIOUS
<1>1. \A v \in Watchers : HeldBy(v)
  BY HeldByEach
<1>2. \A c \in Clients : cPhase[c] = "ready" => cView[c] # None
  BY DEF HeldBack, Primed
<1>3. CASE UNCHANGED <<wActor, wLast, wSuspect, cPhase, cView>>
  BY <1>3 DEF HeldBack, Primed, SuspectIsCurrent
<1>4. ASSUME NEW c \in Clients,
             \/ ReadInitial(c) \/ DropEarly(c) \/ ResumeGone(c)
             \/ \E a \in Actors : Connect(c, a)
      PROVE  HeldBack'
  <2>1. UNCHANGED watcherVars
    BY <1>4 DEF ReadInitial, DropEarly, ResumeGone, Connect
  <2>2. \A v \in Watchers : HeldBy(v)'
    BY <1>1, <2>1, HeldOn DEF watcherVars
  <2>3. \A d \in Clients : cPhase'[d] = "ready" => cView'[d] # None
    <3>1. CASE ReadInitial(c)
      <4>1. PICK r : /\ cPhase' = [cPhase EXCEPT ![c] = IF r = None THEN "off" ELSE "ready"]
                     /\ cView'  = [cView EXCEPT ![c] = r]
        BY <3>1 DEF ReadInitial
      <4>2. QED
        BY <1>2, <4>1 DEF IInv, TypeOK
    <3>2. CASE DropEarly(c)
      BY <1>2, <3>2 DEF DropEarly, IInv, TypeOK
    <3>3. CASE ResumeGone(c)
      BY <1>2, <3>3 DEF ResumeGone, IInv, TypeOK
    <3>4. CASE \E a \in Actors : Connect(c, a)
      BY <1>2, <3>4 DEF Connect, IInv, TypeOK
    <3>5. QED
      BY <1>4, <3>1, <3>2, <3>3, <3>4
  <2>4. QED
    BY <2>2, <2>3, HeldByEachNext
<1>5. ASSUME NEW c \in Clients, Detach(c) PROVE HeldBack'
  <2>1. \A v \in Watchers : HeldBy(v)'
    BY <1>1, <1>5, ReleaseHeld DEF Detach
  <2>2. \A d \in Clients : cPhase'[d] = "ready" => cView'[d] # None
    BY <1>2, <1>5 DEF Detach, IInv, TypeOK
  <2>3. QED
    BY <2>1, <2>2, HeldByEachNext
<1>6. CASE CloseApp
  <2>1. \A v \in Watchers : HeldBy(v)'
    BY <1>1, <1>6, ReleaseHeld DEF CloseApp
  <2>2. \A d \in Clients : cPhase'[d] = "ready" => cView'[d] # None
    BY <1>2, <1>6 DEF CloseApp
  <2>3. QED
    BY <2>1, <2>2, HeldByEachNext
<1>7. ASSUME NEW w \in Watchers, RefreshStep(w) PROVE HeldBack'
  <2>1. CASE FetchRead(w)
    BY <1>3, <2>1 DEF FetchRead, clientVars
  <2>2. CASE FetchDropped(w)
    <3>1. Release({w}, wFetch') /\ UNCHANGED <<cPhase, cView>>
      BY <2>2 DEF FetchDropped, clientVars
    <3>2. \A v \in Watchers : HeldBy(v)'
      BY <1>1, <3>1, ReleaseHeld
    <3>3. QED
      BY <1>2, <3>1, <3>2, HeldByEachNext
  <2>3. QED
    BY <1>7, <2>1, <2>2, FetchDoneHeld DEF RefreshStep
<1>8. CASE Environment
  <2>1. ASSUME NEW a \in Actors, Edit(a) \/ Settle(a) PROVE UNCHANGED <<watcherVars, clientVars>>
    BY <2>1 DEF Edit, Settle
  <2>2. RestartStream => UNCHANGED <<watcherVars, clientVars>>
    BY DEF RestartStream
  <2>3. UNCHANGED <<watcherVars, clientVars>> => HeldBack'
    BY <1>3 DEF watcherVars, clientVars
  <2>4. QED
    BY <1>4, <1>5, <1>6, <1>8, <2>1, <2>2, <2>3 DEF Environment
<1>9. ASSUME NEW s \in Streams, StreamStep(s) \/ PollStep(s) PROVE HeldBack'
  BY <1>3, <1>9 DEF StreamStep, PollStep, StreamOpens, StreamEnds, BackoffOver, Deliver, PollFires, PollSkips,
     PollRefreshes, PollDone, watcherVars, clientVars
<1>10. CASE UNCHANGED vars
  BY <1>3, <1>10 DEF vars, watcherVars, clientVars
<1>11. QED
  BY <1>4, <1>7, <1>8, <1>9, <1>10, AttachHeld DEF Next, Route

\* A sheet that lost whole sections is held back against the sheet the clients
\* have, in whatever order answers, torn reads, stops and re-attached browsers
\* come (ActorWatcher.refresh, suspectJson).
THEOREM HeldBackAgainstNow == Spec => []SuspectIsCurrent
<1>1. Init => HeldBack
  BY DEF Init, HeldBack, Primed, SuspectIsCurrent
<1>2. HeldBack => SuspectIsCurrent
  BY DEF HeldBack
<1>3. QED
  BY <1>1, <1>2, NextHeld, Invariance, PTL DEF Spec
=============================================================================
