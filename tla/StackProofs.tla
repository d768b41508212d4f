----------------------------- MODULE StackProofs ----------------------------
(***************************************************************************)
(* Proofs about the stack.  First the sidecar: the converge loop keeps the *)
(* promises of KeyKeeper (no key is minted without a cause, none but the   *)
(* newest is put on file), and a key that lacks a scope is noticed.  Then  *)
(* the gateway: whatever keys, rows, probes and restarts there are, no     *)
(* stream of an old identity stays behind, and no other world is followed. *)
(* Last both together: the real sidecar beside the gateway.                *)
(***************************************************************************)
EXTENDS Sidecar, Stack, TLAPS

(* 1. The sidecar.                                                         *)

Persisting == {"persist", "persist-scopes"}
Asking == {"register", "login", "mint"}

\* Will another key be needed before the sidecar is content?
Need ==
  IF pc = "persist" THEN ~Valid(key)
  ELSE IF pc = "persist-scopes" THEN ~(keyFile = key /\ Valid(key))
  ELSE keyFile = None \/ ~Valid(keyFile) \/ HasScopeDrift

Types ==
  /\ relayUp \in BOOLEAN /\ account \in BOOLEAN
  /\ {minted, faults, excuses} \subseteq Nat
  /\ DOMAIN keys \subseteq 1..minted
  /\ {keyFile, key} \subseteq {None} \cup 1..minted
  /\ canonical \in {OldScopes, NewScopes}

\* Every excuse was a fault, except that an upgrade may come on top of one.
Counted ==
  /\ faults <= MaxFaults
  /\ excuses <= faults + (IF canonical = OldScopes THEN 0 ELSE 1)

\* A key for a start and one for each excuse, the one still needed included.
Accounted ==
  /\ minted + (IF Need THEN 1 ELSE 0) <= 1 + excuses
  /\ pc \in Asking => Need

\* What is being persisted is the newest key.
Newest ==
  /\ pc \in Persisting => key = minted /\ minted > 0
  /\ pc \in Persisting /\ Valid(key) => keys[key] = canonical \cap RelayScopes
  /\ pc = "persist-scopes" => keyFile \in {None, key}

\* The scopes file vouches for the key on file.
Vouched ==
  scopesFile # None =>
    /\ scopesFile.requested \subseteq canonical
    /\ keyFile # None /\ Valid(keyFile) => scopesFile.requested \cap RelayScopes \subseteq keys[keyFile]

Inv == Types /\ Counted /\ Accounted /\ Newest /\ Vouched

\* Enough room for what the sidecar does.
LEMMA Room ==
  ASSUME Inv
  PROVE  excuses < MaxKeys
<1>1. excuses <= faults + 1
  BY DEF Inv, Types, Counted
<1>2. {faults, excuses} \subseteq Nat /\ faults <= MaxFaults
  BY DEF Inv, Types, Counted
<1>3. QED
  BY <1>1, <1>2, HostAssumption, KeysAssumption

LEMMA InvInit == Init => Inv
<1> SUFFICES ASSUME Init PROVE Inv
  OBVIOUS
<1>1. DOMAIN keys = {}
  BY DEF Init, HostInit
<1>2. Types /\ Counted
  <2>1. /\ relayUp \in BOOLEAN /\ account = FALSE /\ minted = 0 /\ faults = 0 /\ excuses = 0
        /\ keyFile = None /\ key = None /\ canonical = OldScopes
    BY DEF Init, HostInit, SidecarInit
  <2>2. 0 <= MaxFaults
    BY HostAssumption
  <2>3. Types
    <3>1. relayUp \in BOOLEAN /\ account \in BOOLEAN
      BY <2>1
    <3>2. {minted, faults, excuses} \subseteq Nat /\ DOMAIN keys \subseteq 1..minted
      BY <1>1, <2>1
    <3>3. {keyFile, key} \subseteq {None} \cup 1..minted /\ canonical \in {OldScopes, NewScopes}
      BY <2>1
    <3>4. QED
      BY <3>1, <3>2, <3>3 DEF Types
  <2>4. Counted
    BY <2>1, <2>2 DEF Counted
  <2>5. QED
    BY <2>3, <2>4
<1>3. Accounted /\ Newest /\ Vouched
  BY DEF Init, HostInit, SidecarInit, Accounted, Newest, Vouched, Need, Asking, Persisting
<1>4. QED
  BY <1>2, <1>3 DEF Inv

\* A call was answered, or failed.
Called == faults' = faults \/ (faults' = faults + 1 /\ faults < MaxFaults)

\* Steps in which the key, its scopes and its files stay as they are, outside
\* of persisting.
Quiet ==
  /\ UNCHANGED <<keys, minted, excuses, keyFile, scopesFile, canonical>>
  /\ Called
  /\ relayUp' \in BOOLEAN /\ account' \in BOOLEAN
  /\ pc \notin Persisting /\ pc' \notin Persisting
  /\ pc' \in Asking => Need
  /\ key' \in {None} \cup 1..minted

LEMMA QuietKeeps ==
  ASSUME Inv, Quiet
  PROVE  Inv'
<1>1. Need' <=> Need
  BY DEF Quiet, Need, Persisting, HasScopeDrift, Valid
<1>2. Types'
  BY DEF Inv, Types, Quiet, Called
<1>3. Counted'
  BY HostAssumption DEF Inv, Types, Counted, Quiet, Called
<1> HIDE DEF Need
<1>4. Accounted'
  BY <1>1 DEF Inv, Accounted, Quiet
<1>5. Newest'
  BY DEF Newest, Quiet, Persisting
<1>6. Vouched'
  BY DEF Inv, Vouched, Quiet, Valid
<1>7. QED
  BY <1>2, <1>3, <1>4, <1>5, <1>6 DEF Inv

LEMMA CallsAreCounted ==
  ASSUME Inv, Reached \/ Unreached \/ Fault \/ UNCHANGED faults
  PROVE  Called
BY DEF Called, Reached, Unreached, Fault

LEMMA QuietSteps ==
  ASSUME Inv,
         \/ PassBegins \/ Probed \/ EnsureProbed \/ Registered \/ LoggedIn \/ Verified \/ ModulePlaced
         \/ WorldChecked \/ AttemptListed \/ Handshaken \/ Started \/ Confirmed
  PROVE  Quiet
<1> USE DEF Quiet, Inv, Types, Persisting, Asking, Goto, Tell, With, End, Rest, Files, RelayAsIs, relayVars
<1>1. CASE PassBegins
  BY <1>1, CallsAreCounted DEF PassBegins, Decide
<1>2. CASE Probed
  BY <1>2, CallsAreCounted DEF Probed, Decide
<1>3. CASE EnsureProbed
  <2>1. UNCHANGED <<keys, minted, excuses, keyFile, scopesFile, canonical, relayUp, account>> /\ Called
    BY <1>3, CallsAreCounted DEF EnsureProbed
  <2>2. pc \notin Persisting /\ pc' \in {"register", "idle", "module"} /\ key' \in {key, None, keyFile}
    BY <1>3 DEF EnsureProbed
  <2>3. pc' = "register" => Need
    BY <1>3 DEF EnsureProbed, Need
  <2>4. QED
    BY <2>1, <2>2, <2>3
<1>4. CASE Registered
  <2>1. UNCHANGED <<keys, minted, excuses, keyFile, scopesFile, canonical, relayUp>> /\ Called
    BY <1>4, CallsAreCounted DEF Registered
  <2>2. account' \in BOOLEAN
    BY <1>4 DEF Registered
  <2>3. pc = "register" /\ pc' \in {"login", "idle"} /\ key' \in {key, None}
    BY <1>4 DEF Registered
  <2>4. QED
    BY <2>1, <2>2, <2>3 DEF Accounted
<1>5. CASE LoggedIn
  BY <1>5, CallsAreCounted DEF LoggedIn, Accounted
<1>6. CASE Verified
  BY <1>6, CallsAreCounted DEF Verified
<1>7. CASE ModulePlaced
  BY <1>7, CallsAreCounted DEF ModulePlaced
<1>8. CASE WorldChecked
  BY <1>8, CallsAreCounted DEF WorldChecked, Listed, NotListed
<1>9. CASE AttemptListed
  BY <1>9, CallsAreCounted DEF AttemptListed, Listed, NotListed
<1>10. CASE Handshaken
  BY <1>10, CallsAreCounted DEF Handshaken, Listed, NotListed
<1>11. CASE Started
  BY <1>11, CallsAreCounted DEF Started, Listed, NotListed
<1>12. CASE Confirmed
  BY <1>12, CallsAreCounted DEF Confirmed, Listed, NotListed
<1>13. QED
  BY <1>1, <1>2, <1>3, <1>4, <1>5, <1>6, <1>7, <1>8, <1>9, <1>10, <1>11, <1>12

\* A key is minted, and gets here or is lost.
LEMMA MintedKeeps ==
  ASSUME Inv, Minted
  PROVE  Inv'
<1>1. pc = "mint" /\ Need /\ UNCHANGED <<relayUp, account, keyFile, scopesFile, canonical>>
  BY DEF Inv, Accounted, Asking, Minted, Rest, Files
<1>2. CASE UNCHANGED <<minted, keys, excuses>>
  <2>1. pc' = "idle" /\ key' = None /\ Called
    <3>1. (Reached \/ Unreached) /\ End("error")
      <4>1. minted' = minted /\ minted \in Nat
        BY <1>2 DEF Inv, Types
      <4>2. QED
        BY <4>1 DEF Minted
    <3>2. QED
      BY <3>1, CallsAreCounted DEF End
  <2>2. Quiet
    BY <1>1, <1>2, <2>1 DEF Quiet, Inv, Types, Persisting, Asking
  <2>3. QED
    BY <2>2, QuietKeeps
<1>3. CASE ~UNCHANGED <<minted, keys, excuses>>
  <2>1. /\ minted' = minted + 1 /\ minted < MaxKeys
        /\ keys' = [k \in DOMAIN keys \cup {minted'} |->
                       IF k = minted' THEN canonical \cap RelayScopes ELSE keys[k]]
        /\ \/ Reached /\ With("persist", minted') /\ UNCHANGED excuses
           \/ Fault /\ End("error") /\ excuses' = excuses + 1
    BY <1>3 DEF Minted
  <2>2. Called
    BY <2>1, CallsAreCounted
  <2>3. minted \in Nat /\ minted' \in Nat /\ 1..minted \subseteq 1..minted' /\ minted' \in 1..minted'
        /\ minted' \notin 1..minted /\ minted' # None
    BY <2>1, HostAssumption DEF Inv, Types
  <2>4. DOMAIN keys' = DOMAIN keys \cup {minted'} /\ keys'[minted'] = canonical \cap RelayScopes
        /\ \A k \in DOMAIN keys : keys'[k] = keys[k]
    BY <2>1, <2>3 DEF Inv, Types
  <2>5. (pc' = "persist" /\ key' = minted' /\ excuses' = excuses)
        \/ (pc' = "idle" /\ key' = None /\ excuses' = excuses + 1 /\ faults' = faults + 1 /\ faults < MaxFaults)
    BY <2>1 DEF With, End, Fault
  <2>6. Types'
    BY <1>1, <2>1, <2>2, <2>3, <2>4, <2>5 DEF Inv, Types, Called
  <2>7. Counted'
    BY <1>1, <2>2, <2>5, HostAssumption DEF Inv, Types, Counted, Called
  <2>8. Accounted'
    <3>1. minted <= excuses /\ excuses \in Nat /\ minted \in Nat
      BY <1>1, <2>3 DEF Inv, Accounted, Types
    <3>2. pc' = "persist" => ~Need'
      BY <2>4, <2>5 DEF Need, Valid
    <3> HIDE DEF Need
    <3>3. QED
      BY <2>1, <2>5, <3>1, <3>2 DEF Accounted, Asking
  <2>9. Newest'
    BY <1>1, <2>3, <2>4, <2>5 DEF Newest, Persisting
  <2>10. Vouched'
    <3>1. keyFile # None /\ keyFile \in DOMAIN keys' => keyFile \in DOMAIN keys /\ keys'[keyFile] = keys[keyFile]
      BY <2>3, <2>4 DEF Inv, Types
    <3>2. QED
      BY <1>1, <3>1 DEF Inv, Vouched, Valid
  <2>11. QED
    BY <2>6, <2>7, <2>8, <2>9, <2>10 DEF Inv
<1>4. QED
  BY <1>2, <1>3

\* The key and the scopes are written.
LEMMA WrittenKeeps ==
  ASSUME Inv, KeyWritten \/ ScopesWritten
  PROVE  Inv'
<1>1. UNCHANGED <<key, relayUp, account, minted, keys, excuses, faults, canonical>>
  BY DEF KeyWritten, ScopesWritten, Goto, Rest, relayVars
<1>2. pc \in Persisting /\ key = minted /\ minted > 0 /\ minted \in Nat /\ key \in 1..minted /\ key # None
  BY HostAssumption DEF Inv, Types, Newest, KeyWritten, ScopesWritten, Persisting
<1>3. CASE KeyWritten
  <2>1. pc = "persist" /\ pc' = "persist-scopes" /\ keyFile' = key /\ scopesFile' = scopesFile
    BY <1>3 DEF KeyWritten, Goto
  <2>2. Need' <=> Need
    BY <1>1, <2>1 DEF Need, Valid
  <2>3. Types' /\ Counted'
    BY <1>1, <1>2, <2>1 DEF Inv, Types, Counted
  <2>4. Accounted'
    <3> HIDE DEF Need
    <3>1. QED
      BY <1>1, <2>1, <2>2 DEF Inv, Accounted, Asking
  <2>5. Newest'
    BY <1>1, <1>2, <2>1 DEF Inv, Newest, Persisting, Valid
  <2>6. Vouched'
    BY <1>1, <2>1 DEF Inv, Vouched, Newest, Persisting, Valid
  <2>7. QED
    BY <2>3, <2>4, <2>5, <2>6 DEF Inv
<1>4. CASE ScopesWritten
  <2> DEFINE scopes == [requested |-> canonical, granted |-> canonical \cap RelayScopes]
  <2>1. pc = "persist-scopes" /\ pc' = "verify" /\ keyFile' = keyFile /\ scopesFile' = scopes
    BY <1>4 DEF ScopesWritten, Goto
  <2>2. scopes # None
    <3>1. canonical \subseteq NewScopes
      BY ScopesAssumption DEF Inv, Types
    <3>2. scopes \in [requested : SUBSET NewScopes, granted : SUBSET NewScopes]
      BY <3>1
    <3>3. QED
      BY <3>2, ScopesAssumption
  <2>3. scopes.requested = canonical
    OBVIOUS
  <2> HIDE DEF scopes
  <2>4. Need' => Need
    BY <1>1, <1>2, <2>1, <2>2, <2>3 DEF Need, Valid, HasScopeDrift
  <2>5. Types' /\ Counted'
    BY <1>1, <1>2, <2>1 DEF Inv, Types, Counted
  <2>6. Accounted'
    <3> HIDE DEF Need
    <3>1. QED
      BY <1>1, <2>1, <2>4 DEF Inv, Accounted, Asking, Types
  <2>7. Newest'
    BY <2>1 DEF Newest, Persisting
  <2>8. Vouched'
    BY <1>1, <2>1, <2>3 DEF Inv, Vouched, Newest, Persisting, Valid
  <2>9. QED
    BY <2>5, <2>6, <2>7, <2>8 DEF Inv
<1>5. QED
  BY <1>3, <1>4

\* The sidecar dies and comes back.
LEMMA RestartKeeps ==
  ASSUME Inv, SidecarRestarts
  PROVE  Inv'
<1>1. UNCHANGED <<relayUp, account, keys, minted, keyFile, scopesFile>> /\ pc' = "idle" /\ key' = None
      /\ faults' = faults + 1 /\ faults < MaxFaults
  BY DEF SidecarRestarts, Fault
<1>2. canonical' \in {canonical, NewScopes} /\ canonical \subseteq canonical'
      /\ canonical' \in {OldScopes, NewScopes}
      /\ (canonical' # canonical => canonical = OldScopes /\ canonical' # OldScopes)
  BY ScopesAssumption DEF SidecarRestarts, Inv, Types
<1>3. excuses' = excuses + (IF pc \in Persisting THEN 1 ELSE 0) + (IF canonical' # canonical THEN 1 ELSE 0)
  BY DEF SidecarRestarts, Persisting
<1>4. {minted, faults, excuses} \subseteq Nat
  BY DEF Inv, Types
<1>5. Types'
  BY <1>1, <1>2, <1>3, <1>4 DEF Inv, Types
<1>6. Counted'
  <2>1. excuses <= faults + (IF canonical = OldScopes THEN 0 ELSE 1)
    BY DEF Inv, Counted
  <2>2. faults' <= MaxFaults
    BY <1>1, <1>4, HostAssumption
  <2>3. excuses' <= faults' + (IF canonical' = OldScopes THEN 0 ELSE 1)
    BY <1>1, <1>2, <1>3, <1>4, <2>1
  <2>4. QED
    BY <2>2, <2>3 DEF Counted
<1>7. Accounted'
  <2>1. pc \notin Persisting /\ canonical' = canonical => (Need' <=> Need)
    BY <1>1 DEF Need, Persisting, HasScopeDrift, Valid
  <2>2. minted + (IF Need THEN 1 ELSE 0) <= 1 + excuses
    BY DEF Inv, Accounted
  <2> HIDE DEF Need
  <2>3. minted' + (IF Need' THEN 1 ELSE 0) <= 1 + excuses'
    <3>1. CASE pc \notin Persisting /\ canonical' = canonical
      BY <1>1, <1>3, <1>4, <2>1, <2>2, <3>1
    <3>2. CASE ~(pc \notin Persisting /\ canonical' = canonical)
      <4>1. excuses' >= excuses + 1 /\ excuses' \in Nat
        BY <1>3, <1>4, <3>2
      <4>2. QED
        BY <1>1, <1>4, <2>2, <4>1
    <3>3. QED
      BY <3>1, <3>2
  <2>4. QED
    BY <1>1, <2>3 DEF Accounted, Asking
<1>8. Newest'
  BY <1>1 DEF Newest, Persisting
<1>9. Vouched'
  BY <1>1, <1>2 DEF Inv, Vouched, Valid
<1>10. QED
  BY <1>5, <1>6, <1>7, <1>8, <1>9 DEF Inv

\* What happens to the relay and the volume.
LEMMA HostKeeps ==
  ASSUME Inv, SidecarHost
  PROVE  Inv'
<1>1. UNCHANGED <<canonical, pc, key>> /\ minted' = minted
      /\ scopesFile' = IF keyFile' # keyFile THEN None ELSE scopesFile
  BY DEF SidecarHost, HostNext, RelayStops, RelayStarts, RelayWiped, VolumeWiped, Pair, WorldCloses
<1>2. {minted, faults, excuses} \subseteq Nat
  BY DEF Inv, Types
<1>3. CASE UNCHANGED <<keys, keyFile, excuses>>
  <2>1. relayUp' \in BOOLEAN /\ account' \in BOOLEAN /\ Called
    BY <1>3 DEF SidecarHost, HostNext, RelayStops, RelayStarts, RelayWiped, VolumeWiped, Pair, WorldCloses,
       Fault, Called, Inv, Types
  <2>2. scopesFile' = scopesFile
    BY <1>1, <1>3
  <2>3. Need' <=> Need
    BY <1>1, <1>3, <2>2 DEF Need, HasScopeDrift, Valid
  <2>4. Types' /\ Counted'
    BY <1>1, <1>2, <1>3, <2>1, HostAssumption DEF Inv, Types, Counted, Called
  <2> HIDE DEF Need
  <2>5. Accounted'
    BY <1>1, <1>3, <2>3 DEF Inv, Accounted
  <2>6. Newest' /\ Vouched'
    BY <1>1, <1>3, <2>2 DEF Inv, Newest, Vouched, Valid
  <2>7. QED
    BY <2>4, <2>5, <2>6 DEF Inv
<1>4. CASE RelayWiped \/ VolumeWiped
  <2>1. excuses' = excuses + 1 /\ faults' = faults + 1 /\ faults < MaxFaults
        /\ relayUp' \in BOOLEAN /\ account' \in BOOLEAN
    BY <1>4 DEF RelayWiped, VolumeWiped, Fault, Inv, Types
  <2>2. (DOMAIN keys' = {} /\ keyFile' = keyFile) \/ (keyFile' = None /\ keys' = keys)
    BY <1>4 DEF RelayWiped, VolumeWiped
  <2>3. Types'
    BY <1>1, <1>2, <2>1, <2>2 DEF Inv, Types
  <2>4. Counted'
    BY <1>1, <1>2, <2>1, HostAssumption DEF Inv, Counted
  <2>5. Accounted'
    <3>1. pc \in Asking => Need'
      BY <1>1, <2>2 DEF Need, Asking, Valid
    <3>2. minted + (IF Need THEN 1 ELSE 0) <= 1 + excuses
      BY DEF Inv, Accounted
    <3> HIDE DEF Need
    <3>3. minted' + (IF Need' THEN 1 ELSE 0) <= 1 + excuses'
      BY <1>1, <1>2, <2>1, <3>2
    <3>4. QED
      BY <1>1, <3>1, <3>3 DEF Accounted
  <2>6. Newest'
    BY <1>1, <2>2 DEF Inv, Newest, Valid
  <2>7. Vouched'
    BY <1>1, <2>2 DEF Inv, Vouched, Valid
  <2>8. QED
    BY <2>3, <2>4, <2>5, <2>6, <2>7 DEF Inv
<1>5. QED
  BY <1>3, <1>4 DEF SidecarHost, HostNext, RelayStops, RelayStarts, RelayWiped, VolumeWiped, Pair, WorldCloses

LEMMA InvNext == Inv /\ [Next]_vars => Inv'
<1> SUFFICES ASSUME Inv, [Next]_vars PROVE Inv'
  OBVIOUS
<1>1. CASE UNCHANGED <<hostVars, canonical, pc, key, scopesFile>>
  <2>1. Need' <=> Need
    BY <1>1 DEF Need, HasScopeDrift, Valid, hostVars, relayVars
  <2>2. Types' /\ Counted' /\ Newest' /\ Vouched'
    BY <1>1 DEF Inv, Types, Counted, Newest, Vouched, Valid, hostVars, relayVars
  <2> HIDE DEF Need
  <2>3. Accounted'
    BY <1>1, <2>1 DEF Inv, Accounted, hostVars, relayVars
  <2>4. QED
    BY <2>2, <2>3 DEF Inv
<1>2. CASE SidecarStep
  BY <1>2, QuietSteps, QuietKeeps, MintedKeeps, WrittenKeeps DEF SidecarStep
<1>3. CASE SidecarRestarts
  BY <1>3, RestartKeeps
<1>4. CASE SidecarHost
  BY <1>4, HostKeeps
<1>5. QED
  BY <1>1, <1>2, <1>3, <1>4 DEF Next, AuthBackoffEnds, SessionBackoffEnds, vars, sidecarVars

\* A key that lacks a scope this version asks for and this relay knows is
\* noticed (ensureKey), whatever deaths, upgrades and wipes came before.
THEOREM UnderScopedNoticed == Spec => []UnderScopedIsNoticed
<1>1. Inv => UnderScopedIsNoticed
  BY DEF Inv, Vouched, UnderScopedIsNoticed, HasScopeDrift
<1>2. QED
  BY <1>1, InvInit, InvNext, PTL DEF Spec

----------------------------------------------------------------------------
(* Refinement: every step is one of KeyKeeper's, or none.                  *)

LEMMA RoomAfter ==
  ASSUME Inv'
  PROVE  excuses' < MaxKeys
<1>1. excuses' <= faults' + 1
  BY DEF Inv, Types, Counted
<1>2. {faults, excuses}' \subseteq Nat /\ faults' <= MaxFaults
  BY DEF Inv, Types, Counted
<1>3. QED
  BY <1>1, <1>2, HostAssumption, KeysAssumption

LEMMA InitKept == Init => Keeper!HostInit
BY DEF Init, HostInit, Keeper!HostInit

LEMMA HostKept == HostNext => Keeper!HostNext
<1>1. RelayStops => Keeper!RelayStops
  BY DEF RelayStops, Fault, Keeper!RelayStops, Keeper!Fault
<1>2. RelayStarts => Keeper!RelayStarts
  BY DEF RelayStarts, Keeper!RelayStarts
<1>3. RelayWiped => Keeper!RelayWiped
  BY DEF RelayWiped, Fault, Keeper!RelayWiped, Keeper!Fault
<1>4. VolumeWiped => Keeper!VolumeWiped
  BY DEF VolumeWiped, Fault, Keeper!VolumeWiped, Keeper!Fault
<1>5. ASSUME NEW c \in ClientIds PROVE Pair(c) => Keeper!Pair(c)
  <2>1. Rows = Keeper!Rows
    BY DEF Rows, Keeper!Rows
  <2> HIDE DEF Rows
  <2>2. QED
    BY <2>1 DEF Pair, Keeper!Pair, Cardinality, Keeper!Cardinality
<1>6. ASSUME NEW c \in ClientIds PROVE WorldCloses(c) => Keeper!WorldCloses(c)
  BY DEF WorldCloses, Fault, Keeper!WorldCloses, Keeper!Fault
<1>7. QED
  BY <1>1, <1>2, <1>3, <1>4, <1>5, <1>6 DEF HostNext, Keeper!HostNext

\* A call that changes nothing else, answered or not.
LEMMA CallKept ==
  ASSUME Inv, UNCHANGED <<relayUp, account, keys, minted, clients, excuses, keyFile>>,
         Reached \/ Unreached \/ Fault \/ UNCHANGED faults
  PROVE  Keeper!Fails \/ UNCHANGED Keeper!hostVars
<1>1. UNCHANGED faults \/ Fault
  BY DEF Reached, Unreached
<1>2. excuses \in Nat /\ excuses < MaxKeys
  BY Room DEF Inv, Types
<1>3. excuses \in excuses..(excuses + 2)
  BY <1>2
<1>4. QED
  BY <1>1, <1>2, <1>3 DEF Fault, Keeper!Fails, Keeper!Fault, Keeper!hostVars, Keeper!relayVars

LEMMA RegisteredKept ==
  ASSUME Inv, Registered
  PROVE  Keeper!KeeperStep \/ UNCHANGED Keeper!hostVars
<1>1. UNCHANGED <<relayUp, keys, minted, clients, excuses, keyFile>>
  BY DEF Registered, Files
<1>2. CASE account' = account
  <2>1. QED
    BY <1>1, <1>2, CallKept DEF Registered, Keeper!KeeperStep
<1>3. CASE account' # account
  <2>1. relayUp /\ account' = TRUE /\ (UNCHANGED faults \/ Fault)
    BY <1>3 DEF Registered, Reached, Unreached, Inv, Types
  <2>2. QED
    BY <1>1, <2>1 DEF Keeper!KeeperStep, Keeper!Registers, Keeper!Fault, Fault
<1>4. QED
  BY <1>2, <1>3

LEMMA MintedKept ==
  ASSUME Inv, Minted
  PROVE  Keeper!KeeperStep \/ UNCHANGED Keeper!hostVars
<1>1. pc = "mint" /\ Need /\ UNCHANGED <<relayUp, account, clients, keyFile>>
  BY DEF Inv, Accounted, Asking, Minted, Files
<1>2. minted < 1 + excuses
  <2>1. minted + (IF Need THEN 1 ELSE 0) <= 1 + excuses /\ {minted, excuses} \subseteq Nat
    BY DEF Inv, Accounted, Types
  <2> HIDE DEF Need
  <2>2. QED
    BY <1>1, <2>1
<1>3. CASE UNCHANGED <<minted, keys, excuses>>
  <2>1. Reached \/ Unreached \/ Fault
    BY DEF Minted
  <2>2. QED
    BY <1>1, <1>3, <2>1, CallKept DEF Keeper!KeeperStep
<1>4. CASE ~UNCHANGED <<minted, keys, excuses>>
  <2>1. /\ relayUp /\ account /\ minted' = minted + 1
        /\ keys' = [k \in DOMAIN keys \cup {minted'} |->
                       IF k = minted' THEN canonical \cap RelayScopes ELSE keys[k]]
        /\ \/ UNCHANGED <<faults, excuses>>
           \/ Fault /\ excuses' = excuses + 1
    BY <1>4 DEF Minted, Reached
  <2>2. canonical \cap RelayScopes \in SUBSET RelayScopes
    OBVIOUS
  <2>3. \E scopes \in SUBSET RelayScopes :
          keys' = [k \in DOMAIN keys \cup {minted'} |-> IF k = minted' THEN scopes ELSE keys[k]]
    BY <2>1, <2>2
  <2>4. Keeper!Mints
    BY <1>1, <1>2, <2>1, <2>3 DEF Keeper!Mints, Keeper!Fault, Fault
  <2>5. QED
    BY <2>4 DEF Keeper!KeeperStep
<1>5. QED
  BY <1>3, <1>4

LEMMA WrittenKept ==
  ASSUME Inv, KeyWritten \/ ScopesWritten
  PROVE  Keeper!KeeperStep \/ UNCHANGED Keeper!hostVars
<1>1. CASE KeyWritten
  <2>1. key = minted /\ minted > 0 /\ keyFile' = key /\ UNCHANGED relayVars
    BY <1>1 DEF Inv, Newest, Persisting, KeyWritten
  <2>2. CASE keyFile = key
    BY <2>1, <2>2 DEF relayVars, Keeper!hostVars, Keeper!relayVars
  <2>3. CASE keyFile # key
    BY <2>1, <2>3 DEF relayVars, Keeper!Persists, Keeper!relayVars, Keeper!KeeperStep
  <2>4. QED
    BY <2>2, <2>3
<1>2. CASE ScopesWritten
  BY <1>2 DEF ScopesWritten, relayVars, Keeper!hostVars, Keeper!relayVars
<1>3. QED
  BY <1>1, <1>2

LEMMA StartedKept ==
  ASSUME Inv, Started
  PROVE  Keeper!KeeperStep \/ UNCHANGED Keeper!hostVars
<1>1. UNCHANGED <<relayUp, account, keys, minted, excuses, keyFile>>
  BY DEF Started, Files
<1>2. CASE UNCHANGED clients
  <2>1. Reached \/ Unreached \/ Fault
    BY DEF Started, NotListed
  <2>2. QED
    BY <1>1, <1>2, <2>1, CallKept DEF Keeper!KeeperStep
<1>3. CASE ~UNCHANGED clients
  <2>1. PICK c \in Rows : relayUp /\ clients' = [clients EXCEPT ![c] = "online"] /\ (UNCHANGED faults \/ Fault)
    BY <1>3 DEF Started, Reached
  <2>2. c \in ClientIds /\ clients[c] # "none"
    BY DEF Rows
  <2>3. Keeper!BringsOnline(c)
    BY <1>1, <2>1, <2>2 DEF Keeper!BringsOnline, Keeper!Fault, Fault
  <2>4. QED
    BY <2>2, <2>3 DEF Keeper!KeeperStep
<1>4. QED
  BY <1>2, <1>3

LEMMA RestartKept ==
  ASSUME Inv, Inv', SidecarRestarts
  PROVE  Keeper!Fails
<1>1. excuses' < MaxKeys
  BY RoomAfter
<1>2. excuses' \in excuses..(excuses + 2)
  BY DEF SidecarRestarts, Inv, Types
<1>3. QED
  BY <1>1, <1>2 DEF SidecarRestarts, Fault, Keeper!Fails, Keeper!Fault

LEMMA StepKept ==
  ASSUME Inv, Inv', [Next]_vars
  PROVE  [Keeper!HostNext \/ Keeper!KeeperStep]_(Keeper!hostVars)
<1>1. CASE UNCHANGED hostVars
  BY <1>1 DEF hostVars, relayVars, Keeper!hostVars, Keeper!relayVars
<1>2. CASE SidecarHost
  BY <1>2, HostKept DEF SidecarHost
<1>3. CASE SidecarRestarts
  BY <1>3, RestartKept DEF Keeper!KeeperStep
<1>4. CASE Registered \/ Minted \/ KeyWritten \/ ScopesWritten \/ Started
  BY <1>4, RegisteredKept, MintedKept, WrittenKept, StartedKept
<1>5. CASE PassBegins \/ ModulePlaced
  BY <1>5 DEF PassBegins, ModulePlaced, Files, relayVars, Keeper!hostVars, Keeper!relayVars
<1>6. CASE Probed \/ EnsureProbed \/ LoggedIn \/ Verified \/ WorldChecked \/ AttemptListed \/ Handshaken
           \/ Confirmed
  <2>1. UNCHANGED <<relayUp, account, keys, minted, clients, excuses, keyFile>>
    BY <1>6 DEF Probed, EnsureProbed, LoggedIn, Verified, WorldChecked, AttemptListed, Handshaken, Confirmed,
       RelayAsIs, Files
  <2>2. Reached \/ Unreached \/ Fault \/ UNCHANGED faults
    BY <1>6 DEF Probed, EnsureProbed, LoggedIn, Verified, WorldChecked, AttemptListed, Handshaken, Confirmed,
       Listed, NotListed
  <2>3. QED
    BY <2>1, <2>2, CallKept DEF Keeper!KeeperStep
<1>7. QED
  BY <1>1, <1>2, <1>3, <1>4, <1>5, <1>6
  DEF Next, SidecarStep, AuthBackoffEnds, SessionBackoffEnds, vars

\* Seen from the gateway the sidecar is a KeyKeeper (runConvergePass, ensureKey),
\* for any relay, worlds, scopes and number of faults.
THEOREM KeepsItsPromises == Spec => ImplementsKeyKeeper
<1>1. QED
  BY InitKept, StepKept, InvInit, InvNext, PTL DEF Spec, ImplementsKeyKeeper, Keeper!KeeperSpec

----------------------------------------------------------------------------
(* 2. The gateway.                                                         *)

\* The feeds' identities are about the feeds.
FeedsFollow == DOMAIN feedIdentity = Feeds /\ StreamsAreCurrent

\* Announcing the identity that is current from now on makes all streams so.
LEMMA AnnouncedIsCurrent ==
  ASSUME FireIdentityChanged(Current')
  PROVE  FeedsFollow'
<1>1. DOMAIN feedIdentity' = Feeds /\ \A f \in Feeds : feedIdentity'[f] = None
  BY DEF FireIdentityChanged
<1>2. encounterStream' \in {None, Current'}
  BY DEF FireIdentityChanged
<1>3. QED
  BY <1>1, <1>2 DEF FeedsFollow, StreamsAreCurrent

\* A step of one feed that gives it nothing or what is current.
LEMMA FeedStep ==
  ASSUME FeedsFollow, NEW f \in Feeds, NEW i \in {None, Current}, UNCHANGED <<gatewayKey, cache, encounterStream>>,
         feedIdentity' = [feedIdentity EXCEPT ![f] = i]
  PROVE  FeedsFollow'
<1>1. Current' = Current
  BY DEF Current
<1>2. DOMAIN feedIdentity' = Feeds /\ \A g \in Feeds : feedIdentity'[g] = IF g = f THEN i ELSE feedIdentity[g]
  BY DEF FeedsFollow
<1> HIDE DEF Current
<1>3. QED
  BY <1>1, <1>2 DEF FeedsFollow, StreamsAreCurrent

\* The identity and the streams stay as they are.
LEMMA NothingOpened ==
  ASSUME FeedsFollow, UNCHANGED <<gatewayKey, cache, encounterStream, feedIdentity>>
  PROVE  FeedsFollow'
BY DEF FeedsFollow, StreamsAreCurrent, Current

LEMMA FeedsInit == StackInit => FeedsFollow
BY DEF StackInit, IdentityInit, FeedsFollow, StreamsAreCurrent

LEMMA FeedsNext == FeedsFollow /\ [StackNext]_stackVars => FeedsFollow'
<1> SUFFICES ASSUME FeedsFollow, [StackNext]_stackVars PROVE FeedsFollow'
  OBVIOUS
<1>1. CASE UNCHANGED identityVars
  BY <1>1, NothingOpened DEF identityVars, resolverVars, streamVars
<1>2. CASE KeyReloaded
  <2>1. Current' = [key |-> keyFile, client |-> cache]
    BY <1>2 DEF KeyReloaded, Current, resolverVars
  <2>2. QED
    BY <1>2, <2>1, AnnouncedIsCurrent DEF KeyReloaded
<1>3. CASE ProbeBegins \/ ProbeServed \/ ProbeFails
  BY <1>3, NothingOpened DEF ProbeBegins, ProbeServed, ProbeFails, streamVars
<1>4. CASE ProbeAnswered
  <2>1. UNCHANGED gatewayKey
    BY <1>4 DEF ProbeAnswered
  <2>2. CASE UNCHANGED <<cache, streamVars>>
    BY <2>1, <2>2, NothingOpened DEF streamVars
  <2>3. CASE \E row \in ClientIds :
               /\ cache' = row
               /\ IF row = cache THEN UNCHANGED streamVars
                                 ELSE FireIdentityChanged([key |-> gatewayKey, client |-> row])
    <3>1. PICK row \in ClientIds :
               /\ cache' = row
               /\ IF row = cache THEN UNCHANGED streamVars
                                 ELSE FireIdentityChanged([key |-> gatewayKey, client |-> row])
      BY <2>3
    <3>2. CASE row = cache
      BY <2>1, <3>1, <3>2, NothingOpened DEF streamVars
    <3>3. CASE row # cache
      <4>1. Current' = [key |-> gatewayKey, client |-> row]
        BY <2>1, <3>1 DEF Current
      <4>2. QED
        BY <3>1, <3>3, <4>1, AnnouncedIsCurrent
    <3>4. QED
      BY <3>2, <3>3
  <2>4. QED
    BY <1>4, <2>2, <2>3 DEF ProbeAnswered
<1>5. CASE EncountersStarted
  BY <1>5 DEF EncountersStarted, FeedsFollow, StreamsAreCurrent, Current, resolverVars
<1>6. CASE GatewayRestarts
  BY <1>6 DEF GatewayRestarts, FeedsFollow, StreamsAreCurrent
<1>7. ASSUME NEW f \in Feeds, FeedBegins(f) \/ FeedOpens(f) \/ FeedEnds(f)
      PROVE  FeedsFollow'
  <2>1. CASE FeedBegins(f)
    BY <2>1, NothingOpened DEF FeedBegins, resolverVars
  <2>2. CASE FeedOpens(f)
    <3>1. UNCHANGED <<gatewayKey, cache, encounterStream>>
      BY <2>2 DEF FeedOpens, resolverVars
    <3>2. PICK i \in {None, Current} : feedIdentity' = [feedIdentity EXCEPT ![f] = i]
      BY <2>2 DEF FeedOpens
    <3>3. QED
      BY <3>1, <3>2, FeedStep
  <2>3. CASE FeedEnds(f)
    <3>1. UNCHANGED <<gatewayKey, cache, encounterStream>>
      BY <2>3 DEF FeedEnds, resolverVars
    <3>2. feedIdentity' = [feedIdentity EXCEPT ![f] = None]
      BY <2>3 DEF FeedEnds
    <3>3. QED
      BY <3>1, <3>2, FeedStep
  <2>4. QED
    BY <1>7, <2>1, <2>2, <2>3
<1>8. QED
  BY <1>1, <1>2, <1>3, <1>4, <1>5, <1>6, <1>7
  DEF StackNext, KeeperActs, HostActs, IdentityNext, ProbeEnds, stackVars

\* No stream of an old identity stays behind, for any number of roll feeds,
\* client rows, keys and faults (the fan-out of server.ts).
THEOREM NoStaleStream == StackSpec => []StreamsAreCurrent
<1>1. FeedsFollow => StreamsAreCurrent
  BY DEF FeedsFollow
<1>2. QED
  BY <1>1, FeedsInit, FeedsNext, PTL DEF StackSpec

LEMMA SameWorld ==
  ASSUME [StackNext]_stackVars
  PROVE  [cache # None /\ cache' # None => WorldOf[cache'] = WorldOf[cache]]_cache
<1>1. CASE cache' = cache
  BY <1>1
<1>2. CASE ProbeAnswered
  BY <1>2 DEF ProbeAnswered, Adopted
<1>3. CASE GatewayRestarts
  BY <1>3 DEF GatewayRestarts
<1>4. cache' = cache \/ ProbeAnswered \/ GatewayRestarts
  BY DEF StackNext, KeeperActs, HostActs, IdentityNext, ProbeEnds, stackVars, identityVars, resolverVars, KeyReloaded,
     ProbeBegins, ProbeServed, ProbeFails, EncountersStarted, FeedBegins, FeedOpens, FeedEnds
<1>5. QED
  BY <1>1, <1>2, <1>3, <1>4

\* While it runs the gateway follows one world (client-id-resolver.ts), however
\* many worlds, pairings and faults there are.
THEOREM OneWorld == StackSpec => NeverSwitchesWorlds
BY SameWorld, PTL DEF StackSpec, NeverSwitchesWorlds

----------------------------------------------------------------------------
(* 3. Both: the sidecar as it is, in the place of its promise.             *)

wholeVars == <<stackVars, sidecarVars>>
WholeInit == Init /\ IdentityInit
WholeNext == (Next /\ UNCHANGED identityVars) \/ (IdentityNext /\ UNCHANGED sidecarVars)
WholeSpec == WholeInit /\ [][WholeNext]_wholeVars

\* All the gateway does to what the sidecar relies on is to lose calls.
LEMMA GatewayOnlyFails ==
  ASSUME IdentityNext
  PROVE  /\ UNCHANGED <<relayUp, account, keys, minted, clients, excuses, keyFile>>
         /\ UNCHANGED faults \/ Fault
<1>1. CASE ProbeFails
  BY <1>1 DEF ProbeFails, Unreached, Reached
<1>2. CASE GatewayRestarts
  BY <1>2 DEF GatewayRestarts
<1>3. CASE UNCHANGED hostVars
  BY <1>3 DEF hostVars, relayVars
<1>4. QED
  BY <1>1, <1>2, <1>3 DEF IdentityNext, ProbeEnds, KeyReloaded, ProbeBegins, ProbeServed, ProbeAnswered,
     EncountersStarted, FeedBegins, FeedOpens, FeedEnds

LEMMA GatewayKeeps ==
  ASSUME Inv, IdentityNext, UNCHANGED sidecarVars
  PROVE  Inv'
<1>1. UNCHANGED <<relayUp, account, keys, minted, clients, excuses, keyFile, canonical, pc, key, scopesFile>>
  BY GatewayOnlyFails DEF sidecarVars
<1>2. Called
  BY GatewayOnlyFails DEF Called, Fault
<1>3. Need' <=> Need
  BY <1>1 DEF Need, HasScopeDrift, Valid
<1>4. Types'
  BY <1>1, <1>2 DEF Inv, Types, Called
<1>5. Counted'
  BY <1>1, <1>2, HostAssumption DEF Inv, Types, Counted, Called
<1> HIDE DEF Need
<1>6. Accounted'
  BY <1>1, <1>3 DEF Inv, Accounted
<1>7. Newest' /\ Vouched'
  BY <1>1 DEF Inv, Newest, Vouched, Valid
<1>8. QED
  BY <1>4, <1>5, <1>6, <1>7 DEF Inv

LEMMA WholeKeeps == Inv /\ [WholeNext]_wholeVars => Inv'
<1>1. ASSUME Inv, UNCHANGED wholeVars PROVE Inv'
  <2>1. UNCHANGED vars
    BY <1>1 DEF wholeVars, stackVars, vars
  <2>2. QED
    BY <1>1, <2>1, InvNext
<1>2. QED
  BY <1>1, InvNext, GatewayKeeps DEF WholeNext

\* What KeyKeeper does to the relay and the volume, it does in Stack.
LEMMA PromiseIsStacks ==
  ASSUME [Keeper!HostNext \/ Keeper!KeeperStep]_(Keeper!hostVars)
  PROVE  HostNext \/ KeeperStep \/ UNCHANGED hostVars
<1>1. Keeper!HostNext => HostNext
  <2>1. Keeper!RelayStops \/ Keeper!RelayStarts \/ Keeper!RelayWiped \/ Keeper!VolumeWiped => HostNext
    BY DEF HostNext, RelayStops, RelayStarts, RelayWiped, VolumeWiped, Fault, Keeper!Fault,
       Keeper!RelayStops, Keeper!RelayStarts, Keeper!RelayWiped, Keeper!VolumeWiped
  <2>2. ASSUME NEW c \in ClientIds PROVE Keeper!Pair(c) => Pair(c)
    <3>1. Rows = Keeper!Rows
      BY DEF Rows, Keeper!Rows
    <3> HIDE DEF Rows
    <3>2. QED
      BY <3>1 DEF Pair, Keeper!Pair, Cardinality, Keeper!Cardinality
  <2>3. ASSUME NEW c \in ClientIds PROVE Keeper!WorldCloses(c) => WorldCloses(c)
    BY DEF WorldCloses, Fault, Keeper!WorldCloses, Keeper!Fault
  <2>4. QED
    BY <2>1, <2>2, <2>3 DEF HostNext, Keeper!HostNext
<1>2. Keeper!KeeperStep => KeeperStep
  BY DEF KeeperStep, Keeper!KeeperStep, Registers, Keeper!Registers, Mints, Keeper!Mints,
     Persists, Keeper!Persists, BringsOnline, Keeper!BringsOnline, Fails, Keeper!Fails,
     Fault, Keeper!Fault, relayVars, Keeper!relayVars
<1>3. UNCHANGED Keeper!hostVars => UNCHANGED hostVars
  BY DEF hostVars, relayVars, Keeper!hostVars, Keeper!relayVars
<1>4. QED
  BY <1>1, <1>2, <1>3

LEMMA WholeStepKept ==
  ASSUME Inv, Inv', [WholeNext]_wholeVars
  PROVE  [StackNext]_stackVars
<1>1. CASE UNCHANGED wholeVars
  BY <1>1 DEF wholeVars
<1>2. CASE IdentityNext
  BY <1>2 DEF StackNext
<1>3. CASE Next /\ UNCHANGED identityVars
  <2>1. HostNext \/ KeeperStep \/ UNCHANGED hostVars
    BY <1>3, StepKept, PromiseIsStacks
  <2>2. QED
    BY <1>3, <2>1 DEF StackNext, KeeperActs, HostActs, stackVars
<1>4. QED
  BY <1>1, <1>2, <1>3 DEF WholeNext

\* The gateway beside the real sidecar (runConvergePass) does nothing that it
\* would not do beside one that merely keeps its promises: all Stack says of
\* streams and worlds holds of the deployed system.
THEOREM SidecarFitsTheStack == WholeSpec => StackInit /\ [][StackNext]_stackVars
<1>1. WholeInit => Inv /\ StackInit
  BY InvInit DEF WholeInit, StackInit, Init
<1>2. QED
  BY <1>1, WholeKeeps, WholeStepKept, PTL DEF WholeSpec

\* And so no stream of an old identity stays behind there, and no other world
\* is followed (server.ts, client-id-resolver.ts).
THEOREM DeployedIsSound == WholeSpec => []StreamsAreCurrent /\ NeverSwitchesWorlds
<1>1. FeedsFollow => StreamsAreCurrent
  BY DEF FeedsFollow
<1>2. QED
  BY <1>1, SidecarFitsTheStack, FeedsInit, FeedsNext, SameWorld, PTL DEF NeverSwitchesWorlds
=============================================================================
