------------------------------ MODULE Sidecar -------------------------------
(***************************************************************************)
(* apps/bootstrap: the sidecar's converge loop.  Every pass makes sure     *)
(* that a relay key with the scopes the gateway needs is on the shared     *)
(* volume, puts the Foundry module in place, and keeps a world online.     *)
(* Each wait for the relay ends one action; the process may die anywhere.  *)
(* Nothing it remembers but the files survives that.                       *)
(***************************************************************************)
EXTENDS RelayHost

CONSTANTS
    OldScopes, NewScopes    \* GATEWAY_KEY_SCOPES before and after an upgrade

ASSUME ScopesAssumption ==
    /\ OldScopes \subseteq NewScopes
    /\ None \notin [requested : SUBSET NewScopes, granted : SUBSET NewScopes]

\* The bound on keys is never in the way.
ASSUME KeysAssumption == MaxKeys >= MaxFaults + 2

VARIABLES
    scopesFile,     \* relay.env.scopes.json: None or [requested, granted]
    canonical,      \* the scopes this version of the sidecar asks for
    pc,             \* where the pass stands; "idle" between passes
    key,            \* runConvergePass's key (the persisted or the minted one)
    authBackoff,    \* less than AUTH_BACKOFF_MS since the last auth attempt
    sessionBackoff, \* less than SESSION_BACKOFF_MS since the last session attempt
    phase           \* status.json's phase

sidecarVars == <<scopesFile, canonical, pc, key, authBackoff, sessionBackoff, phase>>

SidecarInit ==
    /\ scopesFile = None
    /\ canonical = OldScopes
    /\ pc = "idle" /\ key = None
    /\ authBackoff = FALSE /\ sessionBackoff = FALSE
    /\ phase = "starting"

\* The pass goes on at another place, or ends.
Goto(l) == pc' = l /\ UNCHANGED <<key, phase>>
Tell(l, p) == pc' = l /\ phase' = p /\ UNCHANGED key
With(l, k) == pc' = l /\ key' = k /\ UNCHANGED phase
End(p) == pc' = "idle" /\ phase' = p /\ key' = None

Rest == UNCHANGED canonical
RelayAsIs == UNCHANGED <<relayUp, account, keys, minted, clients, excuses>>
Files == UNCHANGED <<keyFile, scopesFile>>
Backoffs == UNCHANGED <<authBackoff, sessionBackoff>>

----------------------------------------------------------------------------
(* 1. The key.                                                             *)

\* Mutant of HasScopeDrift: asks what was granted.
HasScopeDriftGranted ==
    ~(scopesFile # None /\ canonical \subseteq scopesFile.granted)

\* A missing scopes file counts as drift; a scope the relay refused does not.
HasScopeDrift ==
    ~(scopesFile # None /\ canonical \subseteq scopesFile.requested)

\* A key is needed: at most one attempt per AUTH_BACKOFF_MS.
Decide ==
    IF authBackoff THEN End("waiting-relay") /\ UNCHANGED authBackoff
                   ELSE Goto("ensure") /\ authBackoff' = TRUE

\* The pass reads the persisted key and probes it, if there is one.
PassBegins ==
    /\ pc = "idle"
    /\ IF keyFile = None THEN Decide ELSE With("probe", keyFile) /\ UNCHANGED authBackoff
    /\ UNCHANGED sessionBackoff /\ Rest /\ Files /\ UNCHANGED relayVars

\* Without an answer nothing is concluded about the key.
Probed ==
    /\ pc = "probe"
    /\ \/ Reached /\ IF Valid(key) /\ ~HasScopeDrift
                     THEN Goto("module") /\ UNCHANGED authBackoff ELSE Decide
       \/ Unreached /\ End("waiting-relay") /\ UNCHANGED authBackoff
    /\ UNCHANGED sessionBackoff /\ Rest /\ RelayAsIs /\ Files

\* ensureKey reads and probes once more.
EnsureProbed ==
    /\ pc = "ensure"
    /\ IF keyFile = None
       THEN UNCHANGED faults /\ Tell("register", "provisioning-account")
       ELSE \/ Unreached /\ End("error")
            \/ Reached /\ IF Valid(keyFile) /\ ~HasScopeDrift
                          THEN With("module", keyFile)
                          ELSE Tell("register", "provisioning-account")
    /\ Backoffs /\ Rest /\ RelayAsIs /\ Files

\* An account that is there already is as good; throttled is a failure.
Registered ==
    /\ pc = "register"
    /\ \/ Reached /\ account' = TRUE /\ Goto("login")
       \/ Unreached /\ account' \in {account, account \/ relayUp} /\ End("error")
    /\ UNCHANGED <<relayUp, keys, minted, clients, excuses>>
    /\ Backoffs /\ Rest /\ Files

LoggedIn ==
    /\ pc = "login"
    /\ \/ Reached /\ account /\ Tell("mint", "minting-key")
       \/ Reached /\ ~account /\ End("error")
       \/ Unreached /\ End("error")
    /\ Backoffs /\ Rest /\ RelayAsIs /\ Files

\* mintKey drops what the relay does not know and asks again.  An answer that
\* is lost leaves a key nobody has.
Minted ==
    /\ pc = "mint"
    /\ \/ /\ relayUp /\ account /\ minted < MaxKeys
          /\ minted' = minted + 1
          /\ keys' = [k \in DOMAIN keys \cup {minted'} |->
                         IF k = minted' THEN canonical \cap RelayScopes ELSE keys[k]]
          /\ \/ Reached /\ With("persist", minted') /\ UNCHANGED excuses
             \/ Fault /\ End("error") /\ excuses' = excuses + 1
       \/ /\ Unreached \/ (Reached /\ ~account)
          /\ End("error")
          /\ UNCHANGED <<minted, keys, excuses>>
    /\ UNCHANGED <<relayUp, account, clients>> /\ Backoffs /\ Rest /\ Files

\* Mutant of KeyWritten: the scopes are written before the key.
ScopesFirst ==
    /\ pc = "persist"
    /\ LET scopes == [requested |-> canonical, granted |-> canonical \cap RelayScopes] IN
       IF scopesFile = scopes
       THEN keyFile' = key /\ Goto("persist-scopes") /\ UNCHANGED scopesFile
       ELSE scopesFile' = scopes /\ Goto("persist") /\ UNCHANGED keyFile
    /\ Backoffs /\ Rest /\ UNCHANGED relayVars

\* Two files, two renames.
KeyWritten ==
    /\ pc = "persist"
    /\ keyFile' = key
    /\ Goto("persist-scopes")
    /\ UNCHANGED scopesFile /\ Backoffs /\ Rest /\ UNCHANGED relayVars

ScopesWritten ==
    /\ pc = "persist-scopes"
    /\ scopesFile' = [requested |-> canonical, granted |-> canonical \cap RelayScopes]
    /\ Goto("verify")
    /\ UNCHANGED keyFile /\ Backoffs /\ Rest /\ UNCHANGED relayVars

Verified ==
    /\ pc = "verify"
    /\ \/ Reached /\ Valid(key) /\ Tell("module", "key-ready")
       \/ Reached /\ ~Valid(key) /\ End("error")
       \/ Unreached /\ End("error")
    /\ Backoffs /\ Rest /\ RelayAsIs /\ Files

----------------------------------------------------------------------------
(* 2. and 3. The module is placed, never over one that is there; whether   *)
(* that works or not, the pass goes on.  Relaunching worlds is switched    *)
(* off (ADMIN_RELAUNCH).                                                   *)

\* Mutant of ModulePlaced: a failure ends the pass.
ModulePlacedOrEnd ==
    /\ pc = "module"
    /\ End("placing-module") \/ Goto("world")
    /\ Backoffs /\ Rest /\ Files /\ UNCHANGED relayVars

\* Placed, not placed (will be tried again), or nothing to say.
ModulePlaced ==
    /\ pc = "module"
    /\ \/ Tell("world", "placing-module")
       \/ Goto("world")
    /\ Backoffs /\ Rest /\ Files /\ UNCHANGED relayVars

----------------------------------------------------------------------------
(* 4. The session.                                                         *)

\* GET /clients wants a valid key.
Listed == Reached /\ Valid(key)
NotListed == Unreached \/ (Reached /\ ~Valid(key))

\* Between two attempts the phase stays as the last one left it.
WorldChecked ==
    /\ pc = "world"
    /\ \/ Listed /\ OnlineRows # {} /\ End("online") /\ UNCHANGED sessionBackoff
       \/ NotListed /\ End("waiting-relay") /\ UNCHANGED sessionBackoff
       \/ /\ Listed /\ OnlineRows = {}
          /\ IF sessionBackoff THEN End(phase) ELSE Tell("attempt", "starting-session")
          /\ sessionBackoff' = TRUE
    /\ UNCHANGED authBackoff /\ Rest /\ RelayAsIs /\ Files

\* Headless pairing is off: with no client row somebody has to pair.
AttemptListed ==
    /\ pc = "attempt"
    /\ \/ NotListed /\ End("waiting-relay")
       \/ Listed /\ OnlineRows # {} /\ End("online")
       \/ Listed /\ Rows = {} /\ End("needs-pairing")
       \/ Listed /\ OnlineRows = {} /\ Rows # {} /\ Goto("handshake")
    /\ Backoffs /\ Rest /\ RelayAsIs /\ Files

Handshaken ==
    /\ pc = "handshake"
    /\ \/ Listed /\ Goto("start")
       \/ NotListed /\ \E p \in {"waiting-relay", "waiting-world"} : End(p)
    /\ Backoffs /\ Rest /\ RelayAsIs /\ Files

\* The relay's browser logs in to the world Foundry runs; it may get there
\* and the answer be lost.
Started ==
    /\ pc = "start"
    /\ \/ /\ relayUp /\ Valid(key)
          /\ \E c \in Rows : clients' = [clients EXCEPT ![c] = "online"]
          /\ \/ Reached /\ Goto("confirm")
             \/ Fault /\ End("waiting-relay")
       \/ /\ NotListed \/ (Reached /\ Rows = {})
          /\ UNCHANGED clients
          /\ \E p \in {"waiting-relay", "waiting-world", "gm-login-failed"} : End(p)
    /\ UNCHANGED <<relayUp, account, keys, minted, excuses>>
    /\ Backoffs /\ Rest /\ Files

Confirmed ==
    /\ pc = "confirm"
    /\ \/ Listed /\ OnlineRows # {} /\ End("online")
       \/ (NotListed \/ (Listed /\ OnlineRows = {})) /\ End("waiting-world")
    /\ Backoffs /\ Rest /\ RelayAsIs /\ Files

----------------------------------------------------------------------------
(* Time, and the process.                                                  *)

AuthBackoffEnds ==
    /\ authBackoff /\ authBackoff' = FALSE
    /\ UNCHANGED <<canonical, pc, key, sessionBackoff, phase, scopesFile, hostVars>>

SessionBackoffEnds ==
    /\ sessionBackoff /\ sessionBackoff' = FALSE
    /\ UNCHANGED <<canonical, pc, key, authBackoff, phase, scopesFile, hostVars>>

\* The sidecar dies and is started again, perhaps as a newer version.  It has
\* not told anything yet: status.json is as it was.
SidecarRestarts ==
    /\ Fault
    /\ canonical' \in {canonical, NewScopes}
    /\ pc' = "idle" /\ key' = None
    /\ authBackoff' = FALSE /\ sessionBackoff' = FALSE
    /\ excuses' = excuses + (IF pc \in {"persist", "persist-scopes"} THEN 1 ELSE 0)
                          + (IF canonical' # canonical THEN 1 ELSE 0)
    /\ UNCHANGED <<relayUp, account, keys, minted, clients, keyFile, scopesFile, phase>>

SidecarStep ==
    \/ PassBegins \/ Probed \/ EnsureProbed \/ Registered \/ LoggedIn
    \/ Minted \/ KeyWritten \/ ScopesWritten \/ Verified \/ ModulePlaced
    \/ WorldChecked \/ AttemptListed \/ Handshaken \/ Started \/ Confirmed

\* What happens to the relay and the volume: wiping it takes both files.
SidecarHost ==
    /\ HostNext
    /\ scopesFile' = IF keyFile' # keyFile THEN None ELSE scopesFile
    /\ UNCHANGED <<canonical, pc, key, authBackoff, sessionBackoff, phase>>

vars == <<hostVars, sidecarVars>>

Init == HostInit /\ SidecarInit

Next == SidecarStep \/ AuthBackoffEnds \/ SessionBackoffEnds \/ SidecarRestarts \/ SidecarHost

\* The loop goes on, its calls are bounded, its backoffs end, and the relay
\* comes back.
Spec ==
    /\ Init /\ [][Next]_vars
    /\ WF_vars(SidecarStep) /\ WF_vars(AuthBackoffEnds) /\ WF_vars(SessionBackoffEnds)
    /\ WF_vars(RelayStarts /\ SidecarHost)

----------------------------------------------------------------------------
(* Properties.                                                             *)

\* A key that lacks a scope this version needs and this relay knows is
\* noticed, whatever the order of deaths, upgrades and wipes: the scopes file
\* never vouches for another key than the one on file (ensureKey).
UnderScopedIsNoticed ==
    keyFile # None /\ Valid(keyFile) /\ ~(canonical \cap RelayScopes \subseteq keys[keyFile])
        => HasScopeDrift

\* Seen from the gateway it keeps the promises of KeyKeeper: no key is minted
\* without a cause, and none but the newest is put on file.
Keeper == INSTANCE KeyKeeper
ImplementsKeyKeeper == Keeper!KeeperSpec

\* Once the relay and the volume are left alone the sidecar heals whatever
\* came before: a key the relay accepts is on file with every scope; a world
\* that was ever paired is online, and the status says so, or asks for pairing.
\* (While the module cannot be placed the status may keep saying that.)
SidecarConverges ==
    <>[](/\ keyFile # None /\ Valid(keyFile) /\ ~HasScopeDrift
         /\ Rows # {} => OnlineRows # {} /\ phase \in {"online", "placing-module"}
         /\ Rows = {} => phase \in {"needs-pairing", "starting-session", "placing-module"})
=============================================================================
