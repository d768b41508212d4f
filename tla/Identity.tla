------------------------------ MODULE Identity ------------------------------
(***************************************************************************)
(* The gateway's identity towards the relay: the API key it reads off the  *)
(* shared volume (key-source.ts), the client row it resolves with it       *)
(* (client-id-resolver.ts), and what server.ts and app.ts do when either   *)
(* changes: every stream that was opened with the old identity is opened   *)
(* again, or closed.  RELAY_API_KEY_FILE is set and RELAY_CLIENT_ID auto.  *)
(***************************************************************************)
EXTENDS RelayHost

CONSTANTS
    Feeds           \* GM roll feeds a browser may open

VARIABLES
    gatewayKey,     \* ApiKeySource.key
    cache,          \* ClientIdResolver.cache: None or a client row
    reason,
    probe,          \* the pass under way: None, [with |-> key] or [answer |-> rows]
    encounterStream,\* the identity the encounter loops subscribed with; None
                    \* while EncounterManager.start() awaits its seed
    feed,           \* feed -> "none", "history", "gone" (cleaned up while its
                    \* history was read) or "open"
    feedIdentity    \* feed -> the identity its relay subscription has, or None

streamVars == <<encounterStream, feed, feedIdentity>>
resolverVars == <<cache, reason, probe>>
identityVars == <<gatewayKey, resolverVars, streamVars>>

\* What relay calls are made with right now.
Current == [key |-> gatewayKey, client |-> cache]

IdentityInit ==
    /\ gatewayKey = keyFile
    /\ cache = None /\ reason = "no-world-online" /\ probe = None
    /\ encounterStream = None
    /\ feed = [f \in Feeds |-> "none"]
    /\ feedIdentity = [f \in Feeds |-> None]

----------------------------------------------------------------------------
(* The fan-out.                                                            *)

\* EncounterManager.restartStream, which does nothing before start() is done,
\* and the GM roll feeds' cleanups.  (LiveManager.restartStream is in Live.)
FireIdentityChanged(identity) ==
    /\ encounterStream' = IF encounterStream = None THEN None ELSE identity
    /\ feed' = [f \in Feeds |-> IF feed[f] \in {"history", "gone"} THEN "gone" ELSE "none"]
    /\ feedIdentity' = [f \in Feeds |-> None]

----------------------------------------------------------------------------
(* key-source.ts.  A watch event and the poll both end in reload().        *)

\* Mutant of KeyReloaded: nobody is told.
KeyReloadedQuietly ==
    /\ keyFile # None /\ keyFile # gatewayKey
    /\ gatewayKey' = keyFile
    /\ UNCHANGED <<resolverVars, hostVars, streamVars>>

\* Mutant of KeyReloaded: only the first key is taken.
KeyReloadedOnce ==
    /\ keyFile # None /\ gatewayKey = None
    /\ gatewayKey' = keyFile
    /\ FireIdentityChanged([key |-> keyFile, client |-> cache])
    /\ UNCHANGED <<resolverVars, hostVars>>

\* An absent file leaves the last good key; a changed key is announced.
KeyReloaded ==
    /\ keyFile # None /\ keyFile # gatewayKey
    /\ gatewayKey' = keyFile
    /\ FireIdentityChanged([key |-> keyFile, client |-> cache])
    /\ UNCHANGED <<resolverVars, hostVars>>

----------------------------------------------------------------------------
(* client-id-resolver.ts.                                                  *)

Awaited == probe # None /\ "with" \in DOMAIN probe
Answered == probe # None /\ "answer" \in DOMAIN probe

\* A pass begins: without a key it is over, and one at a time is under way.
ProbeBegins ==
    /\ probe = None
    /\ IF gatewayKey = None
       THEN reason' = "key-unavailable" /\ UNCHANGED probe
       ELSE probe' = [with |-> gatewayKey] /\ UNCHANGED reason
    /\ UNCHANGED <<gatewayKey, cache, hostVars, streamVars>>

\* The relay answers; the answer travels.
ProbeServed ==
    /\ Awaited /\ relayUp /\ Valid(probe.with)
    /\ probe' = [answer |-> OnlineRows]
    /\ UNCHANGED <<gatewayKey, cache, reason, hostVars, streamVars>>

\* The call fails, or 3 s are over: then a late answer is dropped.
ProbeFails ==
    /\ \/ Awaited /\ Unreached
       \/ Awaited /\ Reached /\ ~Valid(probe.with)
       \/ Answered /\ Fault
    /\ probe' = None /\ reason' = "relay-unreachable"
    /\ UNCHANGED <<gatewayKey, cache, streamVars, keyFile>>
    /\ UNCHANGED <<relayUp, account, keys, minted, clients, excuses>>

\* Mutant of Adopted: any online row is adopted once there is a cache.
AdoptedAnyWorld(online, row) ==
    IF cache = None THEN online = {row} ELSE row \in online

\* What the pass may adopt: the cached world's rows (the first one listed),
\* and without a cache the only row there is.
Adopted(online, row) ==
    IF cache = None THEN online = {row}
                    ELSE row \in online /\ WorldOf[row] = WorldOf[cache]

ProbeAnswered ==
    /\ Answered /\ probe' = None
    /\ LET online == probe.answer IN
       \/ \E row \in ClientIds :
             /\ Adopted(online, row)
             /\ reason' = "resolved"
             /\ cache' = row
             /\ IF row = cache THEN UNCHANGED streamVars
                ELSE FireIdentityChanged([key |-> gatewayKey, client |-> row])
       \/ /\ ~\E row \in ClientIds : Adopted(online, row)
          /\ reason' = CASE cache # None -> "world-offline"
                         [] online = {} -> "no-world-online"
                         [] OTHER -> "multiple-worlds-online"
          /\ UNCHANGED <<cache, streamVars>>
    /\ UNCHANGED <<gatewayKey, hostVars>>

----------------------------------------------------------------------------
(* server.ts: main and close.                                              *)

\* EncounterManager.start(): the seed is done with, and the loops subscribe
\* with what is current now.  (Listening comes before, after a bounded wait
\* for a key in which nothing but the key source is at work.)
EncountersStarted ==
    /\ encounterStream = None
    /\ encounterStream' = Current
    /\ UNCHANGED <<gatewayKey, resolverVars, hostVars, feed, feedIdentity>>

\* GET /api/gm/rolls/events: the cleanup is registered, then the history read.
FeedBegins(f) ==
    /\ feed[f] = "none"
    /\ feed' = [feed EXCEPT ![f] = "history"]
    /\ UNCHANGED <<gatewayKey, resolverVars, hostVars>>
    /\ UNCHANGED <<encounterStream, feedIdentity>>

\* The history was read, or failed: a connection that an identity change has
\* cleaned up meanwhile is not subscribed.
FeedOpens(f) ==
    /\ feed[f] \in {"history", "gone"}
    /\ feed' = [feed EXCEPT ![f] = IF feed[f] = "history" THEN "open" ELSE "none"]
    /\ feedIdentity' = [feedIdentity EXCEPT ![f] = IF feed[f] = "history" THEN Current ELSE None]
    /\ UNCHANGED <<gatewayKey, resolverVars, hostVars>>
    /\ UNCHANGED encounterStream

\* The browser leaves, or the relay ends the subscription.
FeedEnds(f) ==
    /\ feed[f] = "open"
    /\ feed' = [feed EXCEPT ![f] = "none"]
    /\ feedIdentity' = [feedIdentity EXCEPT ![f] = None]
    /\ UNCHANGED <<gatewayKey, resolverVars, hostVars>>
    /\ UNCHANGED encounterStream

\* The process dies and is started again: the key is read at once, silently,
\* and the world it was pinned to is forgotten.
GatewayRestarts ==
    /\ Fault
    /\ gatewayKey' = keyFile
    /\ cache' = None /\ reason' = "no-world-online" /\ probe' = None
    /\ encounterStream' = None
    /\ feed' = [f \in Feeds |-> "none"]
    /\ feedIdentity' = [f \in Feeds |-> None]
    /\ UNCHANGED <<relayUp, account, keys, minted, clients, excuses, keyFile>>

ProbeEnds == ProbeServed \/ ProbeFails \/ ProbeAnswered

IdentityNext ==
    \/ KeyReloaded \/ ProbeBegins \/ ProbeEnds \/ EncountersStarted
    \/ GatewayRestarts
    \/ \E f \in Feeds : FeedBegins(f) \/ FeedOpens(f) \/ FeedEnds(f)

----------------------------------------------------------------------------
(* Properties.                                                             *)

\* Whatever is open towards the relay was opened with the key and the client
\* row that requests are made with: a key that is rotated or a row that is
\* adopted at any point of a start, a probe or a feed's history reading leaves
\* no stream of the old identity behind (server.ts fan-out).
StreamsAreCurrent ==
    /\ encounterStream \in {None, Current}
    /\ \A f \in Feeds : feedIdentity[f] \in {None, Current}

\* While the gateway runs it is never switched to another world, whatever
\* goes offline, comes online or is paired again (client-id-resolver.ts).
NeverSwitchesWorlds ==
    [][cache # None /\ cache' # None => WorldOf[cache'] = WorldOf[cache]]_cache
=============================================================================
