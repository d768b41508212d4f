------------------------------- MODULE Stack --------------------------------
(***************************************************************************)
(* The turnkey stack as the gateway sees it: the relay, the shared volume, *)
(* a sidecar that keeps the promises of KeyKeeper (module Sidecar shows    *)
(* that the real one does), and the gateway's own identity.                *)
(***************************************************************************)
EXTENDS KeyKeeper, Identity

stackVars == <<hostVars, identityVars>>

StackInit == HostInit /\ IdentityInit

KeeperActs == KeeperStep /\ UNCHANGED identityVars
HostActs == HostNext /\ UNCHANGED identityVars
StackNext == KeeperActs \/ HostActs \/ IdentityNext

\* The sidecar converges, the relay comes back; the gateway polls its key
\* file, starts and probes.
StackSpec ==
    /\ StackInit /\ [][StackNext]_stackVars
    /\ WF_stackVars(RelayStarts /\ UNCHANGED identityVars)
    /\ WF_stackVars(Registers /\ ~account /\ UNCHANGED identityVars)
    /\ WF_stackVars(Mints /\ UNCHANGED identityVars)
    /\ WF_stackVars(Persists /\ UNCHANGED identityVars)
    /\ WF_stackVars(KeyReloaded) /\ WF_stackVars(EncountersStarted)
    /\ WF_stackVars(ProbeBegins) /\ WF_stackVars(ProbeEnds)

----------------------------------------------------------------------------
(* Properties.                                                             *)

\* What the resolver reports is so: the world it follows is online, or why it
\* follows none.
Resolved ==
    \/ cache \in OnlineRows /\ reason = "resolved"
    \/ /\ cache # None /\ reason = "world-offline"
       /\ \A c \in OnlineRows : WorldOf[c] # WorldOf[cache]
    \/ cache = None /\ OnlineRows = {} /\ reason = "no-world-online"
    \/ cache = None /\ Cardinality(OnlineRows) > 1 /\ reason = "multiple-worlds-online"

\* Once the relay and the volume are left alone, the gateway ends up with the
\* key on file, a client row of the world it may follow, health that says why
\* if there is none, and its encounter stream up: whatever keys, rows, probes
\* and restarts came before, in whatever order.
GatewayConverges ==
    <>[](/\ gatewayKey = keyFile /\ Valid(gatewayKey)
         /\ encounterStream = Current
         /\ Resolved)
=============================================================================
