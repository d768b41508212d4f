----------------------------- MODULE KeyKeeper ------------------------------
(***************************************************************************)
(* What the sidecar promises to those who use its key: it asks the relay   *)
(* for one key, and for another only when something made that necessary;   *)
(* it puts the newest key, and no other, on the shared volume; and it      *)
(* brings worlds back online that were paired.                             *)
(***************************************************************************)
EXTENDS RelayHost

Registers ==
    /\ relayUp /\ account' = TRUE
    /\ UNCHANGED faults \/ Fault
    /\ UNCHANGED <<relayUp, keys, minted, clients, excuses, keyFile>>

\* The answer may be lost, which is a reason to ask again.
Mints ==
    /\ relayUp /\ account /\ minted < 1 + excuses
    /\ minted' = minted + 1
    /\ \E scopes \in SUBSET RelayScopes :
          keys' = [k \in DOMAIN keys \cup {minted'} |-> IF k = minted' THEN scopes ELSE keys[k]]
    /\ \/ UNCHANGED <<faults, excuses>>
       \/ Fault /\ excuses' = excuses + 1
    /\ UNCHANGED <<relayUp, account, clients, keyFile>>

Persists ==
    /\ minted > 0 /\ keyFile # minted /\ keyFile' = minted
    /\ UNCHANGED relayVars

BringsOnline(c) ==
    /\ relayUp /\ clients[c] # "none"
    /\ clients' = [clients EXCEPT ![c] = "online"]
    /\ UNCHANGED faults \/ Fault
    /\ UNCHANGED <<relayUp, account, keys, minted, excuses, keyFile>>

\* A call is lost, or the keeper dies and returns, perhaps in the middle of
\* persisting a key, perhaps as a version that wants more scopes.
Fails ==
    /\ Fault
    /\ excuses' \in excuses..(excuses + 2) /\ excuses' < MaxKeys
    /\ UNCHANGED <<relayUp, account, keys, minted, clients, keyFile>>

KeeperStep ==
    Registers \/ Mints \/ Persists \/ Fails \/ \E c \in ClientIds : BringsOnline(c)

KeeperSpec == HostInit /\ [][HostNext \/ KeeperStep]_hostVars
=============================================================================
