----------------------------- MODULE RelayHost ------------------------------
(***************************************************************************)
(* What the bootstrap sidecar and the gateway share: the relay, as their   *)
(* code knows it, the worlds paired with it, and the key files on the      *)
(* volume both mount.  The relay is outside src/: a model of what the      *)
(* callers rely on and must survive.                                       *)
(***************************************************************************)
EXTENDS Integers, FiniteSets

CONSTANTS
    None,
    ClientIds,      \* relay client rows: one per pairing of a world
    WorldOf,        \* client row -> its world
    RelayScopes,    \* the scopes this relay build knows
    MaxRows,        \* bound: client rows at a time
    MaxFaults,      \* bound: things that go wrong or change outside
    MaxKeys         \* bound: keys minted

ASSUME HostAssumption == None \notin Nat /\ {MaxRows, MaxFaults, MaxKeys} \subseteq Nat

VARIABLES
    relayUp,
    account,        \* is the account registered?
    keys,           \* key -> its scopes, for the keys the relay knows
    minted,         \* keys minted so far; a key is its number
    clients,        \* client row -> "none", "offline" or "online"
    faults,
    excuses,        \* history: events that make another key necessary
    keyFile         \* relay.env: None or a key

relayVars == <<relayUp, account, keys, minted, clients, faults, excuses>>
hostVars == <<relayVars, keyFile>>

Valid(key) == key \in DOMAIN keys
OnlineRows == {c \in ClientIds : clients[c] = "online"}
Rows == {c \in ClientIds : clients[c] # "none"}

\* Something goes wrong; all of these together are bounded.
Fault == faults < MaxFaults /\ faults' = faults + 1

\* A call to the relay is answered, or fails or is given up.
Reached == relayUp /\ UNCHANGED faults
Unreached == IF relayUp THEN Fault ELSE UNCHANGED faults

HostInit ==
    /\ relayUp \in BOOLEAN
    /\ account = FALSE /\ keys = <<>> /\ minted = 0
    /\ clients = [c \in ClientIds |-> "none"]
    /\ faults = 0 /\ excuses = 0
    /\ keyFile = None

RelayStops ==
    /\ relayUp /\ Fault /\ relayUp' = FALSE
    /\ UNCHANGED <<account, keys, minted, clients, excuses, keyFile>>

RelayStarts ==
    /\ ~relayUp /\ relayUp' = TRUE
    /\ UNCHANGED <<account, keys, minted, clients, faults, excuses, keyFile>>

\* The relay comes back with a fresh database: no account, key or client row.
RelayWiped ==
    /\ Fault /\ keys # <<>>
    /\ account' = FALSE /\ keys' = <<>>
    /\ clients' = [c \in ClientIds |-> "none"]
    /\ excuses' = excuses + 1
    /\ UNCHANGED <<relayUp, minted, keyFile>>

\* The shared volume is wiped.
VolumeWiped ==
    /\ Fault /\ keyFile # None
    /\ keyFile' = None
    /\ excuses' = excuses + 1
    /\ UNCHANGED <<relayUp, account, keys, minted, clients>>

\* The operator pairs a world, with the account the sidecar registered.
Pair(c) ==
    /\ relayUp /\ account /\ clients[c] = "none" /\ Cardinality(Rows) < MaxRows
    /\ clients' = [clients EXCEPT ![c] = "online"]
    /\ UNCHANGED <<relayUp, account, keys, minted, faults, excuses, keyFile>>

\* The browser that kept a world online goes away.
WorldCloses(c) ==
    /\ Fault /\ clients[c] = "online"
    /\ clients' = [clients EXCEPT ![c] = "offline"]
    /\ UNCHANGED <<relayUp, account, keys, minted, excuses, keyFile>>

HostNext ==
    \/ RelayStops \/ RelayStarts \/ RelayWiped \/ VolumeWiped
    \/ \E c \in ClientIds : Pair(c) \/ WorldCloses(c)
=============================================================================
