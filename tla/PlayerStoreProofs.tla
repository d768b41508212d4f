-------------------------- MODULE PlayerStoreProofs -------------------------
(***************************************************************************)
(* Proofs about PlayerStore: what it does to players.yaml is what          *)
(* PlayerList promises, and what an answered request took away opens       *)
(* nothing, through crashes, reloads and hand edits.                       *)
(***************************************************************************)
EXTENDS PlayerStore, WellFoundedInduction, TLAPS

----------------------------------------------------------------------------
(* The operators PlayerList is written with are the store's.               *)

LEMMA SameRefusal ==
  ASSUME NEW b, NEW r
  PROVE  Promised!Refused(b, r) <=> Refused(b, r)
BY DEF Promised!Refused, Refused

LEMMA SameAfter ==
  ASSUME NEW b, NEW r
  PROVE  Promised!After(b, r) = After(b, r)
<1>1. Promised!FirstOf(b, NameOf(r)) = FirstOf(b, NameOf(r))
  BY DEF Promised!FirstOf, FirstOf
<1>2. QED
  BY <1>1 DEF Promised!After, After

LEMMA SameEdits ==
  ASSUME NEW b
  PROVE  Promised!HandEdits(b) = HandEdits(b)
<1>1. \A i : Promised!RemoveAt(b, i) = RemoveAt(b, i)
  BY DEF Promised!RemoveAt, RemoveAt
<1>2. Promised!TokensOf(b) = TokensOf(b)
  BY DEF Promised!TokensOf, TokensOf
<1>3. ASSUME NEW x PROVE x \in Promised!HandEdits(b) <=> x \in HandEdits(b)
  <2>1. x \in Promised!HandEdits(b) <=>
          \/ \E i \in DOMAIN b : x = Promised!RemoveAt(b, i)
          \/ \E n \in Names, t \in HandTokens \ Promised!TokensOf(b) : x = Append(b, [name |-> n, token |-> t])
    BY DEF Promised!HandEdits
  <2>2. x \in HandEdits(b) <=>
          \/ \E i \in DOMAIN b : x = RemoveAt(b, i)
          \/ \E n \in Names, t \in HandTokens \ TokensOf(b) : x = Append(b, [name |-> n, token |-> t])
    BY DEF HandEdits
  <2>3. QED
    BY <1>1, <1>2, <2>1, <2>2
<1>4. QED
  BY <1>3

LEMMA SameFirst == Promised!FirstLists = FirstLists
BY DEF Promised!FirstLists, FirstLists

----------------------------------------------------------------------------
(* What the lists of the store have to do with each other.                 *)

\* Mutations wait their turn, each once, none of which took effect yet.
Queued ==
  /\ status \in [Requests -> {"new", "queued", "running", "ok", "failed", "lost"}]
  /\ writeQueue \in Seq(Requests)
  /\ \A i \in 1..Len(writeQueue) : status[writeQueue[i]] = "queued"
  /\ \A i, j \in 1..Len(writeQueue) : writeQueue[i] = writeQueue[j] => i = j
  /\ done \subseteq Requests /\ \A r \in done : status[r] \notin {"new", "queued"}

\* A file that is not the list is one an editor is writing.
OnDisk ==
  /\ file = list \/ (file = Bad /\ saving = "torn")
  /\ saving \in {"no", "torn", "orphan"}
  /\ saving # "no" => opened # None

Known == {list} \cup outdated

\* What the list at work was made of, and what the temporary file is.
AtWork ==
  running # Idle =>
    /\ running = [of |-> running.of, next |-> running.next, stage |-> running.stage]
    /\ running.of \in Requests /\ status[running.of] = "running"
    /\ running.stage \in {"begun", "written", "renamed"}
    /\ running.stage # "renamed" =>
         /\ running.of \notin done
         /\ \E base \in Known : ~Refused(base, running.of) /\ running.next = After(base, running.of)
    /\ running.stage = "written" => tmp = running.next
    /\ running.stage = "renamed" => running.next \in Known

\* What is in memory was on file, unless the answer to a rename is under way.
InMemory == up => players \in Known \/ running.stage = "renamed"

Inv == Queued /\ OnDisk /\ AtWork /\ InMemory

LEMMA InvInit == StoreInit => Inv
<1> SUFFICES ASSUME StoreInit PROVE Inv
  OBVIOUS
<1>1. Queued
  BY DEF StoreInit, Queued
<1>2. OnDisk /\ AtWork /\ InMemory
  BY DEF StoreInit, OnDisk, AtWork, InMemory, Known
<1>3. QED
  BY <1>1, <1>2 DEF Inv

\* Nothing of this is touched.
LEMMA Untouched ==
  ASSUME Inv, UNCHANGED <<up, file, tmp, players, writeQueue, running, status, opened, saving, outdated, list, done>>
  PROVE  Inv'
BY DEF Inv, Queued, OnDisk, AtWork, InMemory, Known

LEMMA MutateKeeps ==
  ASSUME Inv, NEW r \in Requests, Mutate(r)
  PROVE  Inv'
<1>1. status[r] = "new" /\ status' = [status EXCEPT ![r] = "queued"] /\ writeQueue' = Append(writeQueue, r)
      /\ UNCHANGED <<up, file, tmp, players, running, opened, saving, outdated, list, done>>
  BY DEF Mutate, hand, history
<1>2. writeQueue \in Seq(Requests) /\ writeQueue' \in Seq(Requests) /\ Len(writeQueue) \in Nat
      /\ Len(writeQueue') = Len(writeQueue) + 1 /\ writeQueue'[Len(writeQueue) + 1] = r
      /\ \A i \in 1..Len(writeQueue) : writeQueue'[i] = writeQueue[i]
  BY <1>1 DEF Inv, Queued
<1>3. \A q \in Requests : q # r => status'[q] = status[q]
  BY <1>1 DEF Inv, Queued
<1>4. status'[r] = "queued"
  BY <1>1 DEF Inv, Queued
<1>5. \A i \in 1..Len(writeQueue) : writeQueue[i] # r /\ writeQueue[i] \in Requests
  BY <1>1, <1>2 DEF Inv, Queued
<1>6. Queued'
  <2>1. status' \in [Requests -> {"new", "queued", "running", "ok", "failed", "lost"}]
    BY <1>1 DEF Inv, Queued
  <2>2. \A i \in 1..Len(writeQueue') : i \in 1..Len(writeQueue) \/ i = Len(writeQueue) + 1
    BY <1>2
  <2>3. \A i \in 1..Len(writeQueue') : status'[writeQueue'[i]] = "queued"
    BY <1>2, <1>3, <1>4, <1>5, <2>2 DEF Inv, Queued
  <2>4. \A i, j \in 1..Len(writeQueue') : writeQueue'[i] = writeQueue'[j] => i = j
    BY <1>2, <1>5, <2>2 DEF Inv, Queued
  <2>5. \A q \in done' : status'[q] \notin {"new", "queued"}
    BY <1>1, <1>3 DEF Inv, Queued
  <2>6. done' \subseteq Requests
    BY <1>1 DEF Inv, Queued
  <2>7. QED
    BY <1>2, <2>1, <2>3, <2>4, <2>5, <2>6 DEF Queued
<1>7. OnDisk' /\ AtWork' /\ InMemory'
  <2>1. OnDisk' /\ InMemory'
    BY <1>1 DEF Inv, OnDisk, InMemory, Known
  <2>2. AtWork'
    BY <1>1, <1>3 DEF Inv, AtWork, Known
  <2>3. QED
    BY <2>1, <2>2
<1>8. QED
  BY <1>6, <1>7 DEF Inv

LEMMA TurnKeeps ==
  ASSUME Inv, NEW r \in Requests, TurnComes(r)
  PROVE  Inv'
<1> DEFINE rest == Tail(writeQueue)
<1>1. /\ up /\ running = Idle /\ writeQueue # <<>> /\ r = Head(writeQueue) /\ writeQueue' = rest
      /\ UNCHANGED <<up, file, tmp, players, opened, saving, outdated, list, done>>
  BY DEF TurnComes, Begin, hand
<1>2. /\ writeQueue \in Seq(Requests) /\ rest \in Seq(Requests) /\ Len(rest) = Len(writeQueue) - 1
      /\ Len(writeQueue) \in Nat \ {0} /\ \A i \in 1..Len(rest) : rest[i] = writeQueue[i + 1]
      /\ r = writeQueue[1]
  BY <1>1 DEF Inv, Queued
<1> HIDE DEF rest
<1>3. \A i \in 1..Len(rest) : i + 1 \in 1..Len(writeQueue) /\ i + 1 # 1 /\ 1 \in 1..Len(writeQueue)
  BY <1>2
<1>4. \A i \in 1..Len(rest) : rest[i] \in Requests /\ rest[i] # r /\ status[rest[i]] = "queued"
  BY <1>2, <1>3 DEF Inv, Queued
<1>5. status[r] = "queued" /\ r \notin done
  BY <1>2 DEF Inv, Queued
<1>6. \A q \in Requests : q # r => status'[q] = status[q]
  BY DEF TurnComes, Begin, Inv, Queued
<1>7. Queued'
  <2>1. status' \in [Requests -> {"new", "queued", "running", "ok", "failed", "lost"}]
    BY DEF TurnComes, Begin, Inv, Queued
  <2>2. \A i \in 1..Len(rest) : status'[rest[i]] = "queued"
    BY <1>4, <1>6
  <2>3. \A i, j \in 1..Len(rest) : rest[i] = rest[j] => i = j
    <3>1. ASSUME NEW i \in 1..Len(rest), NEW j \in 1..Len(rest), rest[i] = rest[j]
          PROVE  i + 1 = j + 1
      <4>1. writeQueue[i + 1] = writeQueue[j + 1] /\ i + 1 \in 1..Len(writeQueue) /\ j + 1 \in 1..Len(writeQueue)
        BY <1>2, <1>3, <3>1
      <4>2. QED
        BY <4>1 DEF Inv, Queued
    <3>2. \A i, j \in 1..Len(rest) : i + 1 = j + 1 => i = j
      BY <1>2
    <3>3. QED
      BY <3>1, <3>2
  <2>4. \A q \in done : status'[q] \notin {"new", "queued"}
    BY <1>5, <1>6, <2>1 DEF Inv, Queued, TurnComes, Begin
  <2>5. done' \subseteq Requests
    BY <1>1 DEF Inv, Queued
  <2>6. QED
    BY <1>1, <1>2, <2>1, <2>2, <2>3, <2>4, <2>5 DEF Queued
<1>8. OnDisk'
  BY <1>1 DEF Inv, OnDisk
<1>9. players \in Known
  BY <1>1 DEF Inv, InMemory, Idle
<1>10. InMemory'
  BY <1>1, <1>9 DEF InMemory, Known
<1>11. AtWork'
  <2>1. CASE Refused(players, r)
    BY <1>1, <2>1 DEF AtWork, TurnComes, Begin
  <2>2. CASE ~Refused(players, r)
    <3>1. running' = [of |-> r, next |-> After(players, r), stage |-> "begun"] /\ status'[r] = "running"
      BY <2>2 DEF TurnComes, Begin, Inv, Queued
    <3>2. running'.of = r /\ running'.next = After(players, r) /\ running'.stage = "begun"
      BY <3>1
    <3>3. Known' = Known
      BY <1>1 DEF Known
    <3>4. QED
      BY <1>1, <1>5, <1>9, <2>2, <3>1, <3>2, <3>3 DEF AtWork
  <2>3. QED
    BY <2>1, <2>2
<1>12. QED
  BY <1>7, <1>8, <1>10, <1>11 DEF Inv

\* The next stage of the mutation at work.
LEMMA NextStage ==
  ASSUME Inv, NEW st, running # Idle, running' = [running EXCEPT !.stage = st]
  PROVE  running'.of = running.of /\ running'.next = running.next /\ running'.stage = st
         /\ running' = [of |-> running'.of, next |-> running'.next, stage |-> running'.stage]
<1> DEFINE o == running.of  n == running.next  s == running.stage
<1>1. running = [of |-> o, next |-> n, stage |-> s]
  BY DEF Inv, AtWork
<1> HIDE DEF o, n, s
<1>2. running' = [of |-> o, next |-> n, stage |-> st]
  BY <1>1
<1>3. QED
  BY <1>2 DEF o, n

LEMMA WrittenKeeps ==
  ASSUME Inv, TmpWritten
  PROVE  Inv'
<1>1. running # Idle /\ running.stage = "begun" /\ running' = [running EXCEPT !.stage = "written"]
      /\ tmp' = running.next
      /\ UNCHANGED <<up, file, players, writeQueue, status, opened, saving, outdated, list, done>>
  BY DEF TmpWritten, hand, history, Idle
<1>2. running'.of = running.of /\ running'.next = running.next /\ running'.stage = "written"
      /\ running' = [of |-> running'.of, next |-> running'.next, stage |-> running'.stage]
  BY <1>1, NextStage
<1>3. Queued' /\ OnDisk'
  BY <1>1 DEF Inv, Queued, OnDisk
<1>4. Known' = Known
  BY <1>1 DEF Known
<1>5. AtWork'
  BY <1>1, <1>2, <1>4 DEF Inv, AtWork
<1>6. InMemory'
  BY <1>1, <1>4 DEF Inv, InMemory
<1>7. QED
  BY <1>3, <1>5, <1>6 DEF Inv

LEMMA RenamedKeeps ==
  ASSUME Inv, Renamed
  PROVE  Inv'
<1>1. /\ running # Idle /\ running.stage = "written" /\ running' = [running EXCEPT !.stage = "renamed"]
      /\ file' = tmp /\ list' = tmp /\ done' = done \cup {running.of}
      /\ saving' = IF saving = "torn" THEN "orphan" ELSE saving
      /\ UNCHANGED <<up, players, writeQueue, status, opened, outdated>>
  BY DEF Renamed, Idle
<1>2. running'.of = running.of /\ running'.next = running.next /\ running'.stage = "renamed"
      /\ running' = [of |-> running'.of, next |-> running'.next, stage |-> running'.stage]
  BY <1>1, NextStage
<1>3. status[running.of] = "running" /\ running.of \in Requests /\ tmp = running.next
  BY <1>1 DEF Inv, AtWork
<1>4. Queued'
  BY <1>1, <1>3 DEF Inv, Queued
<1>5. OnDisk'
  BY <1>1 DEF Inv, OnDisk
<1>6. AtWork'
  BY <1>1, <1>2, <1>3 DEF Inv, AtWork, Known
<1>7. InMemory'
  BY <1>2 DEF InMemory
<1>8. QED
  BY <1>4, <1>5, <1>6, <1>7 DEF Inv

LEMMA PersistedKeeps ==
  ASSUME Inv, Persisted
  PROVE  Inv'
<1>1. /\ running # Idle /\ running.stage = "renamed" /\ running' = Idle /\ players' = running.next
      /\ status' = [status EXCEPT ![running.of] = "ok"]
      /\ UNCHANGED <<up, file, writeQueue, opened, saving, outdated, list, done>>
  BY DEF Persisted, hand, history, Idle
<1>2. status[running.of] = "running" /\ running.of \in Requests /\ running.next \in Known
  BY <1>1 DEF Inv, AtWork
<1>3. Known' = Known
  BY <1>1 DEF Known
<1>4. \A q \in Requests : status'[q] = IF q = running.of THEN "ok" ELSE status[q]
  BY <1>1 DEF Inv, Queued
<1>5. \A i \in 1..Len(writeQueue) : writeQueue[i] \in Requests /\ writeQueue[i] # running.of
  BY <1>2 DEF Inv, Queued
<1>6. Queued'
  <2>1. status' \in [Requests -> {"new", "queued", "running", "ok", "failed", "lost"}]
    BY <1>1, <1>2 DEF Inv, Queued
  <2>2. \A q \in done : status'[q] \notin {"new", "queued"}
    BY <1>1, <1>2, <2>1 DEF Inv, Queued
  <2>3. QED
    BY <1>1, <1>4, <1>5, <2>1, <2>2 DEF Inv, Queued
<1>7. OnDisk' /\ AtWork' /\ InMemory'
  BY <1>1, <1>2, <1>3 DEF Inv, OnDisk, AtWork, InMemory
<1>8. QED
  BY <1>6, <1>7 DEF Inv

LEMMA FailureKeeps ==
  ASSUME Inv, WriteFails
  PROVE  Inv'
<1>1. /\ running # Idle /\ running.stage \in {"begun", "written"} /\ running' = Idle
      /\ status' = [status EXCEPT ![running.of] = "failed"]
      /\ UNCHANGED <<up, file, players, writeQueue, opened, saving, outdated, list, done>>
  BY DEF WriteFails, hand, history, Idle
<1>2. status[running.of] = "running" /\ running.of \in Requests
  BY <1>1 DEF Inv, AtWork
<1>3. Known' = Known
  BY <1>1 DEF Known
<1>4. \A q \in Requests : status'[q] = IF q = running.of THEN "failed" ELSE status[q]
  BY <1>1 DEF Inv, Queued
<1>5. \A i \in 1..Len(writeQueue) : writeQueue[i] \in Requests /\ writeQueue[i] # running.of
  BY <1>2 DEF Inv, Queued
<1>6. Queued'
  <2>1. status' \in [Requests -> {"new", "queued", "running", "ok", "failed", "lost"}]
    BY <1>1, <1>2 DEF Inv, Queued
  <2>2. \A q \in done : status'[q] \notin {"new", "queued"}
    BY <1>1, <1>2, <2>1 DEF Inv, Queued
  <2>3. QED
    BY <1>1, <1>4, <1>5, <2>1, <2>2 DEF Inv, Queued
<1>7. OnDisk' /\ AtWork'
  BY <1>1 DEF Inv, OnDisk, AtWork
<1>8. InMemory'
  BY <1>1, <1>3 DEF Inv, InMemory
<1>9. QED
  BY <1>6, <1>7, <1>8 DEF Inv

LEMMA ReloadKeeps ==
  ASSUME Inv, Reload
  PROVE  Inv'
<1>1. players' = (IF file = Bad THEN players ELSE file)
      /\ UNCHANGED <<up, file, tmp, writeQueue, running, status, opened, saving, outdated, list, done>>
  BY DEF Reload, hand, history
<1>2. file # Bad => file \in Known
  BY DEF Inv, OnDisk, Known
<1>3. Known' = Known
  BY <1>1 DEF Known
<1>4. Queued' /\ OnDisk' /\ AtWork'
  BY <1>1, <1>3 DEF Inv, Queued, OnDisk, AtWork
<1>5. InMemory'
  BY <1>1, <1>2, <1>3 DEF Inv, InMemory
<1>6. QED
  BY <1>4, <1>5 DEF Inv

\* The editor reads and writes: what was known stays known.
LEMMA EditorKeeps ==
  ASSUME Inv, EditorOpens \/ EditorTears \/ EditorSaves \/ EditorLoses
  PROVE  Inv'
<1>1. UNCHANGED <<up, tmp, players, writeQueue, running, status, done>>
  BY DEF EditorOpens, EditorTears, EditorSaves, EditorLoses, memory, history
<1>2. Known \subseteq Known'
  BY DEF EditorOpens, EditorTears, EditorSaves, EditorLoses, Known, history
<1>3. Queued'
  BY <1>1 DEF Inv, Queued
<1>4. OnDisk'
  <2>1. CASE EditorOpens
    BY <2>1 DEF EditorOpens, Inv, OnDisk, history
  <2>2. CASE EditorTears
    BY <2>2 DEF EditorTears, Inv, OnDisk, history
  <2>3. CASE EditorSaves
    BY <2>3 DEF EditorSaves, Inv, OnDisk
  <2>4. CASE EditorLoses
    BY <2>4 DEF EditorLoses, Inv, OnDisk, history
  <2>5. QED
    BY <2>1, <2>2, <2>3, <2>4
<1>5. AtWork'
  BY <1>1, <1>2 DEF Inv, AtWork
<1>6. InMemory'
  BY <1>1, <1>2 DEF Inv, InMemory
<1>7. QED
  BY <1>3, <1>4, <1>5, <1>6 DEF Inv

LEMMA CrashKeeps ==
  ASSUME Inv, Crash
  PROVE  Inv'
<1>1. /\ up' = FALSE /\ running' = Idle /\ writeQueue' = <<>>
      /\ status' = [r \in Requests |-> IF status[r] \in {"queued", "running"} THEN "lost" ELSE status[r]]
      /\ UNCHANGED <<file, opened, saving, list, done>>
  BY DEF Crash, hand, history
<1>2. Queued'
  <2>1. status' \in [Requests -> {"new", "queued", "running", "ok", "failed", "lost"}]
    BY <1>1 DEF Inv, Queued
  <2>2. writeQueue' \in Seq(Requests) /\ Len(writeQueue') = 0
    BY <1>1
  <2>3. done' \subseteq Requests /\ \A r \in done' : status'[r] \notin {"new", "queued"}
    BY <1>1 DEF Inv, Queued
  <2>4. QED
    BY <2>1, <2>2, <2>3 DEF Queued
<1>3. QED
  BY <1>1, <1>2 DEF Inv, OnDisk, AtWork, InMemory

LEMMA RestartKeeps ==
  ASSUME Inv, Restart
  PROVE  Inv'
<1>1. /\ players' = file /\ file # Bad
      /\ UNCHANGED <<file, tmp, writeQueue, running, status, opened, saving, outdated, list, done>>
  BY DEF Restart, hand, history
<1>2. Known' = Known
  BY <1>1 DEF Known
<1>3. Queued' /\ OnDisk' /\ AtWork'
  BY <1>1, <1>2 DEF Inv, Queued, OnDisk, AtWork
<1>4. InMemory'
  BY <1>1 DEF Inv, OnDisk, InMemory, Known
<1>5. QED
  BY <1>3, <1>4 DEF Inv

LEMMA InvNext == Inv /\ [StoreNext]_vars => Inv'
<1> SUFFICES ASSUME Inv, [StoreNext]_vars PROVE Inv'
  OBVIOUS
<1>1. CASE UNCHANGED vars \/ Watched
  BY <1>1, Untouched DEF vars, Watched, memory, hand, history
<1>2. CASE StoreStep
  BY <1>2, TurnKeeps, WrittenKeeps, RenamedKeeps, PersistedKeeps DEF StoreStep
<1>3. CASE Reload
  BY <1>3, ReloadKeeps
<1>4. CASE Environment
  BY <1>4, MutateKeeps, FailureKeeps, EditorKeeps, CrashKeeps, RestartKeeps DEF Environment
<1>5. QED
  BY <1>1, <1>2, <1>3, <1>4 DEF StoreNext

----------------------------------------------------------------------------
(* Refinement.                                                             *)

listVars == <<ListOnDisk, done, opened, outdated>>

\* The list on disk is the last well-formed one, now and after a step.
LEMMA OnDiskIsList == Inv => ListOnDisk = list
BY DEF Inv, OnDisk, ListOnDisk

LEMMA OnDiskStaysList ==
  ASSUME Inv'
  PROVE  ListOnDisk' = list'
BY DEF Inv, OnDisk, ListOnDisk

LEMMA InitKept == StoreInit => Promised!ListInit
BY SameFirst DEF StoreInit, Promised!ListInit, ListOnDisk

LEMMA RenamedKept ==
  ASSUME Inv, Inv', Renamed
  PROVE  \E r \in Requests : Promised!Apply(r)
<1>1. /\ running # Idle /\ running.stage = "written" /\ list' = tmp /\ done' = done \cup {running.of}
      /\ UNCHANGED <<opened, outdated>>
  BY DEF Renamed, Idle
<1>2. running.of \in Requests /\ running.of \notin done /\ tmp = running.next
  BY <1>1 DEF Inv, AtWork
<1>3. PICK base \in Known : ~Refused(base, running.of) /\ running.next = After(base, running.of)
  BY <1>1 DEF Inv, AtWork
<1>4. ~Promised!Refused(base, running.of) /\ running.next = Promised!After(base, running.of)
  BY <1>3, SameRefusal, SameAfter
<1>5. base \in {ListOnDisk} \cup outdated
  BY <1>3, OnDiskIsList DEF Known
<1>6. ListOnDisk' = Promised!After(base, running.of)
  BY <1>1, <1>2, <1>4, OnDiskStaysList
<1>7. QED
  BY <1>1, <1>2, <1>4, <1>5, <1>6 DEF Promised!Apply

LEMMA EditorKept ==
  ASSUME Inv, Inv', EditorOpens \/ EditorTears \/ EditorSaves \/ EditorLoses
  PROVE  Promised!EditorOpens \/ Promised!EditorSaves \/ Promised!EditorLoses \/ UNCHANGED listVars
<1> ListOnDisk = list /\ ListOnDisk' = list'
  BY OnDiskIsList, OnDiskStaysList
<1> HIDE DEF ListOnDisk
<1>1. CASE EditorOpens
  BY <1>1 DEF EditorOpens, Inv, OnDisk, Promised!EditorOpens, history
<1>2. CASE EditorTears
  BY <1>2 DEF EditorTears, listVars, history
<1>3. CASE EditorSaves
  <2>1. opened # None /\ list' \in HandEdits(opened)
    BY <1>3 DEF EditorSaves, Inv, OnDisk
  <2>2. list' \in Promised!HandEdits(opened)
    BY <2>1, SameEdits
  <2>3. QED
    BY <1>3, <2>1, <2>2 DEF EditorSaves, Promised!EditorSaves
<1>4. CASE EditorLoses
  BY <1>4 DEF EditorLoses, Inv, OnDisk, Promised!EditorLoses, history
<1>5. QED
  BY <1>1, <1>2, <1>3, <1>4

LEMMA StepKept ==
  ASSUME Inv, Inv', [StoreNext]_vars
  PROVE  [Promised!ListNext]_listVars
<1> ListOnDisk = list /\ ListOnDisk' = list'
  BY OnDiskIsList, OnDiskStaysList
<1> HIDE DEF ListOnDisk
<1>1. CASE UNCHANGED <<hand, history>>
  BY <1>1 DEF hand, history, listVars
<1>2. CASE Renamed
  BY <1>2, RenamedKept DEF Promised!ListNext
<1>3. CASE EditorOpens \/ EditorTears \/ EditorSaves \/ EditorLoses
  BY <1>3, EditorKept DEF Promised!ListNext
<1>4. CASE \E r \in Requests : TurnComes(r)
  BY <1>4 DEF TurnComes, Begin, hand, listVars
<1>5. QED
  BY <1>1, <1>2, <1>3, <1>4 DEF StoreNext, StoreStep, Environment, vars, Mutate, TmpWritten, Persisted, Watched,
     Reload, WriteFails, Crash, Restart

\* What the store does to players.yaml is what PlayerList promises (mutate,
\* persist, reload), for any names, requests, hand edits and crashes.
THEOREM StoreKeepsItsPromises == StoreSpec => ImplementsPlayerList
<1>1. listVars = <<ListOnDisk, done, opened, outdated>>
  BY DEF listVars
<1>2. QED
  BY <1>1, InitKept, InvInit, InvNext, StepKept, PTL DEF StoreSpec, ImplementsPlayerList, Promised!ListSpec, listVars

----------------------------------------------------------------------------
(* Induction, over a set of numbers.                                       *)

LEMMA LeastNat ==
  ASSUME NEW T, T \subseteq Nat, T # {}
  PROVE  \E x \in T : \A y \in T : x <= y
<1>1. IsWellFoundedOn(OpToRel(<, Nat), Nat)
  BY NatLessThanWellFounded
<1>2. PICK x \in T : \A y \in T : ~ (<<y, x>> \in OpToRel(<, Nat))
  BY <1>1, WFMin
<1>3. \A y \in T : ~(y < x)
  BY <1>2 DEF OpToRel
<1>4. QED
  BY <1>3

LEMMA Induction ==
  ASSUME NEW S, 0 \in S, \A n \in Nat : n \in S => n + 1 \in S
  PROVE  Nat \subseteq S
<1> SUFFICES ASSUME Nat \ S # {} PROVE FALSE
  OBVIOUS
<1>1. PICK x \in Nat \ S : \A y \in Nat \ S : x <= y
  BY LeastNat
<1>2. x - 1 \in Nat /\ x - 1 \notin Nat \ S
  BY <1>1
<1>3. QED
  BY <1>2

----------------------------------------------------------------------------
(* The tokens of the lists the store makes.                                *)

LEMMA TokensAppended ==
  ASSUME NEW l \in Seq(Players), NEW p \in Players
  PROVE  Append(l, p) \in Seq(Players) /\ TokensOf(Append(l, p)) = TokensOf(l) \cup {p.token}
<1>1. /\ Append(l, p) \in Seq(Players) /\ Len(Append(l, p)) = Len(l) + 1 /\ Len(l) \in Nat
      /\ DOMAIN l = 1..Len(l) /\ DOMAIN Append(l, p) = 1..(Len(l) + 1)
      /\ \A i \in 1..Len(l) : Append(l, p)[i] = l[i]
      /\ Append(l, p)[Len(l) + 1] = p
  OBVIOUS
<1>2. \A i \in 1..(Len(l) + 1) : i \in 1..Len(l) \/ i = Len(l) + 1
  BY <1>1
<1>3. \A i \in 1..Len(l) : i \in 1..(Len(l) + 1)
  BY <1>1
<1>4. Len(l) + 1 \in 1..(Len(l) + 1)
  BY <1>1
<1>5. QED
  BY <1>1, <1>2, <1>3, <1>4 DEF TokensOf

\* What Without keeps of the first i players, for each i.
Keeps(F, l, n, k) ==
  F = [i \in 0..k |-> IF i = 0 THEN <<>>
                      ELSE IF l[i].name = n THEN F[i - 1]
                      ELSE Append(F[i - 1], l[i])]

LEMMA KeepsSomething ==
  ASSUME NEW l, NEW n, NEW k \in Nat
  PROVE  \E F : Keeps(F, l, n, k)
<1> DEFINE S == {j \in Nat : \E F : Keeps(F, l, n, j)}
<1>1. 0 \in S
  <2>1. Keeps([i \in 0..0 |-> <<>>], l, n, 0)
    BY DEF Keeps
  <2>2. QED
    BY <2>1
<1>2. ASSUME NEW j \in Nat, j \in S PROVE j + 1 \in S
  <2>1. PICK F : Keeps(F, l, n, j)
    BY <1>2
  <2> DEFINE next == IF l[j + 1].name = n THEN F[j] ELSE Append(F[j], l[j + 1])
             G == [i \in 0..(j + 1) |-> IF i = j + 1 THEN next ELSE F[i]]
  <2>2. \A i \in 0..j : F[i] = IF i = 0 THEN <<>> ELSE IF l[i].name = n THEN F[i - 1] ELSE Append(F[i - 1], l[i])
    BY <2>1 DEF Keeps
  <2>3. \A i \in 0..(j + 1) : i # 0 => G[i - 1] = F[i - 1]
    OBVIOUS
  <2>4. \A i \in 0..(j + 1) : i # j + 1 => G[i] = F[i] /\ i \in 0..j
    OBVIOUS
  <2>5. G[j + 1] = next
    OBVIOUS
  <2> HIDE DEF next
  <2>6. ASSUME NEW i \in 0..(j + 1)
        PROVE  G[i] = IF i = 0 THEN <<>> ELSE IF l[i].name = n THEN G[i - 1] ELSE Append(G[i - 1], l[i])
    <3>1. CASE i = j + 1
      <4>1. i # 0 /\ G[i] = next /\ G[i - 1] = F[j]
        BY <2>3, <2>5, <3>1
      <4>2. QED
        BY <3>1, <4>1 DEF next
    <3>2. CASE i # j + 1
      BY <2>2, <2>3, <2>4, <3>2
    <3>3. QED
      BY <3>1, <3>2
  <2>7. Keeps(G, l, n, j + 1)
    BY <2>6 DEF Keeps
  <2>8. QED
    BY <2>7
<1> HIDE DEF S
<1>3. k \in S
  BY <1>1, <1>2, Induction
<1>4. QED
  BY <1>3 DEF S

\* Only players of the list are kept.
LEMMA WithoutKeeps ==
  ASSUME NEW l \in Seq(Players), NEW n
  PROVE  /\ Without(l, n) \in Seq(Players)
         /\ TokensOf(Without(l, n)) \subseteq TokensOf(l)
<1> DEFINE F == CHOOSE F : Keeps(F, l, n, Len(l))
           S == {i \in Nat : i <= Len(l) => F[i] \in Seq(Players) /\ TokensOf(F[i]) \subseteq TokensOf(l)}
<1>1. Keeps(F, l, n, Len(l))
  BY KeepsSomething
<1>2. Without(l, n) = F[Len(l)]
  BY DEF Without, Keeps
<1> HIDE DEF F
<1>3. 0 \in S
  BY <1>1 DEF Keeps, TokensOf
<1>4. ASSUME NEW i \in Nat, i \in S PROVE i + 1 \in S
  <2> SUFFICES ASSUME i + 1 <= Len(l) PROVE F[i + 1] \in Seq(Players) /\ TokensOf(F[i + 1]) \subseteq TokensOf(l)
    OBVIOUS
  <2>1. F[i] \in Seq(Players) /\ TokensOf(F[i]) \subseteq TokensOf(l)
    BY <1>4
  <2>2. F[i + 1] = IF l[i + 1].name = n THEN F[i] ELSE Append(F[i], l[i + 1])
    <3>1. i + 1 \in 0..Len(l) /\ i + 1 # 0 /\ (i + 1) - 1 = i
      OBVIOUS
    <3>2. \A j \in 0..Len(l) : F[j] = IF j = 0 THEN <<>> ELSE IF l[j].name = n THEN F[j - 1] ELSE Append(F[j - 1], l[j])
      BY <1>1 DEF Keeps
    <3>3. QED
      BY <3>1, <3>2
  <2>3. l[i + 1] \in Players /\ l[i + 1].token \in TokensOf(l)
    BY DEF TokensOf
  <2>4. Append(F[i], l[i + 1]) \in Seq(Players) /\ TokensOf(Append(F[i], l[i + 1])) = TokensOf(F[i]) \cup {l[i + 1].token}
    BY <2>1, <2>3, TokensAppended
  <2>5. QED
    BY <2>1, <2>2, <2>3, <2>4
<1> HIDE DEF S
<1>5. Len(l) \in S
  BY <1>3, <1>4, Induction
<1>6. QED
  BY <1>2, <1>5 DEF S

LEMMA AfterKeeps ==
  ASSUME NEW l \in Seq(Players), NEW r \in Requests
  PROVE  After(l, r) \in Seq(Players) /\ TokensOf(After(l, r)) \subseteq TokensOf(l) \cup {r}
<1>1. NameOf(r) \in Names /\ OpOf(r) \in {"create", "rotate", "remove"} /\ r \in Tokens
  BY RequestAssumption DEF Tokens
<1>2. CASE OpOf(r) = "create"
  <2>1. [name |-> NameOf(r), token |-> r] \in Players
    BY <1>1 DEF Players
  <2>2. After(l, r) = Append(l, [name |-> NameOf(r), token |-> r])
    BY <1>2 DEF After
  <2>3. QED
    BY <2>1, <2>2, TokensAppended
<1>3. CASE OpOf(r) = "rotate"
  <2> DEFINE f == FirstOf(l, NameOf(r))
  <2>1. After(l, r) = [l EXCEPT ![f].token = r]
    BY <1>3 DEF After
  <2> HIDE DEF f
  <2>2. Len(l) \in Nat /\ \A i \in 1..Len(l) : l[i] \in Players
    OBVIOUS
  <2>3. ASSUME NEW i \in 1..Len(l)
        PROVE  [l EXCEPT ![f].token = r][i] \in Players /\ [l EXCEPT ![f].token = r][i].token \in {l[i].token, r}
    BY <1>1, <2>2 DEF Players
  <2>4. DOMAIN [l EXCEPT ![f].token = r] = 1..Len(l) /\ DOMAIN l = 1..Len(l)
    OBVIOUS
  <2>5. [l EXCEPT ![f].token = r] \in Seq(Players)
    <3> DEFINE m == [l EXCEPT ![f].token = r]
    <3>1. m = [i \in 1..Len(l) |-> m[i]]
      BY <2>4
    <3>2. m \in [1..Len(l) -> Players]
      BY <2>3, <3>1
    <3> HIDE DEF m
    <3>3. m \in Seq(Players)
      BY <2>2, <3>2
    <3>4. QED
      BY <3>3 DEF m
  <2>6. QED
    BY <2>1, <2>3, <2>4, <2>5 DEF TokensOf
<1>4. CASE OpOf(r) = "remove"
  BY <1>4, WithoutKeeps DEF After
<1>5. QED
  BY <1>1, <1>2, <1>3, <1>4

LEMMA EditKeeps ==
  ASSUME NEW l \in Seq(Players), NEW m \in HandEdits(l)
  PROVE  m \in Seq(Players) /\ TokensOf(m) \subseteq TokensOf(l) \cup HandTokens
<1>1. CASE \E i \in DOMAIN l : m = RemoveAt(l, i)
  <2>1. PICK i \in 1..Len(l) : m = SubSeq(l, 1, i - 1) \o SubSeq(l, i + 1, Len(l))
    <3>1. DOMAIN l = 1..Len(l)
      OBVIOUS
    <3>2. QED
      BY <1>1, <3>1 DEF RemoveAt
  <2> DEFINE a == SubSeq(l, 1, i - 1)  b == SubSeq(l, i + 1, Len(l))
  <2>2. /\ a \in Seq(Players) /\ Len(a) = i - 1 /\ \A j \in 1..Len(a) : a[j] = l[j]
        /\ b \in Seq(Players) /\ Len(b) = Len(l) - i /\ \A j \in 1..Len(b) : b[j] = l[i + j]
    OBVIOUS
  <2> HIDE DEF a, b
  <2>3. /\ a \o b \in Seq(Players) /\ DOMAIN (a \o b) = 1..(Len(l) - 1)
        /\ \A j \in 1..(Len(l) - 1) : (a \o b)[j] = IF j < i THEN l[j] ELSE l[j + 1]
    BY <2>2
  <2>4. \A j \in 1..(Len(l) - 1) : j \in DOMAIN l /\ j + 1 \in DOMAIN l
    OBVIOUS
  <2>5. TokensOf(a \o b) \subseteq TokensOf(l)
    BY <2>3, <2>4 DEF TokensOf
  <2>6. QED
    BY <2>1, <2>3, <2>5 DEF a, b
<1>2. CASE \E n \in Names, t \in HandTokens \ TokensOf(l) : m = Append(l, [name |-> n, token |-> t])
  <2>1. PICK n \in Names, t \in HandTokens : m = Append(l, [name |-> n, token |-> t])
    BY <1>2
  <2>2. [name |-> n, token |-> t] \in Players
    BY DEF Players, Tokens
  <2>3. QED
    BY <2>1, <2>2, TokensAppended
<1>3. m \in HandEdits(l) <=>
        \/ \E i \in DOMAIN l : m = RemoveAt(l, i)
        \/ \E n \in Names, t \in HandTokens \ TokensOf(l) : m = Append(l, [name |-> n, token |-> t])
  BY DEF HandEdits
<1>4. QED
  BY <1>1, <1>2, <1>3

\* A token no player has opens nothing.
LEMMA NotVerified ==
  ASSUME NEW l \in Seq(Players), NEW t, t \notin TokensOf(l)
  PROVE  VerifyToken(l, t) = 0
<1>1. {i \in 1..Len(l) : l[i].token = t} = {}
  BY DEF TokensOf
<1>2. QED
  BY <1>1 DEF VerifyToken, SelectInSeq

----------------------------------------------------------------------------
(* What an answered request took away is gone.                             *)

\* All lists are lists of players.
Lists ==
  /\ players \in Seq(Players) /\ list \in Seq(Players)
  /\ opened # None => opened \in Seq(Players)
  /\ running # Idle => running.next \in Seq(Players)

\* No list at hand has the token.
Off(t, l) == t \notin TokensOf(l)
OffFile(t) == Off(t, list) /\ (opened # None => Off(t, opened))
OffStore(t) == Off(t, players) /\ (running # Idle => Off(t, running.next))

Waits(r) == status[r] \in {"new", "queued"}

\* The token of a request that still waits is nowhere, and was not taken away.
Fresh ==
  \A r \in Requests : Waits(r) => OffFile(r) /\ OffStore(r) /\ \A q \in Requests : r \notin taken[q]

AtWorkIs(r) == running # Idle /\ running.of = r
Answered(r) == status[r] = "ok" /\ r \notin overtaken

\* The request's file is in place, and no editor has an older one.
InPlace(r) == Answered(r) \/ (AtWorkIs(r) /\ running.stage = "renamed" /\ r \notin overtaken)

\* What a request took away is not in the list it made, not on file from when
\* that came into place, and not in memory from when it was answered.
TakenAway ==
  /\ taken \in [Requests -> SUBSET Tokens]
  /\ \A r \in Requests : \A t \in taken[r] \ HandTokens :
       /\ AtWorkIs(r) => Off(t, running.next)
       /\ InPlace(r) => OffFile(t)
       /\ Answered(r) => OffStore(t)

Gone == Lists /\ Fresh /\ TakenAway

LEMMA GoneInit == StoreInit => Gone
<1> SUFFICES ASSUME StoreInit PROVE Gone
  OBVIOUS
<1>1. /\ players \in FirstLists /\ list = players /\ opened = None /\ running = Idle
      /\ status = [r \in Requests |-> "new"] /\ taken = [r \in Requests |-> {}]
  BY DEF StoreInit
<1>2. ASSUME NEW l \in FirstLists
      PROVE  l \in Seq(Players) /\ TokensOf(l) \subseteq OldTokens
  <2>1. l = <<>> \/ \E n \in Names, t \in OldTokens : l = <<[name |-> n, token |-> t]>>
    BY DEF FirstLists
  <2>2. CASE l = <<>>
    BY <2>2 DEF TokensOf
  <2>3. CASE \E n \in Names, t \in OldTokens : l = <<[name |-> n, token |-> t]>>
    <3>1. PICK n \in Names, t \in OldTokens : l = <<[name |-> n, token |-> t]>>
      BY <2>3
    <3>2. [name |-> n, token |-> t] \in Players
      BY DEF Players, Tokens
    <3>3. l = Append(<<>>, [name |-> n, token |-> t]) /\ <<>> \in Seq(Players) /\ TokensOf(<<>>) = {}
      BY <3>1 DEF TokensOf
    <3>4. QED
      BY <3>2, <3>3, TokensAppended
  <2>4. QED
    BY <2>1, <2>2, <2>3
<1>3. Lists
  BY <1>1, <1>2 DEF Lists
<1>4. Fresh
  BY <1>1, <1>2, RequestAssumption DEF Fresh, OffFile, OffStore, Off
<1>5. TakenAway
  BY <1>1 DEF TakenAway
<1>6. QED
  BY <1>3, <1>4, <1>5 DEF Gone

\* Steps that make no list: what was on file comes to memory or to an editor,
\* and the mutation at work goes on or ends, but for its rename and its answer.
Passes ==
  /\ UNCHANGED <<list, taken, overtaken>>
  /\ \A r \in Requests : (Waits(r)' => Waits(r)) /\ (status'[r] = "ok" => status[r] = "ok")
  /\ players' \in {players, list} /\ opened' \in {opened, None, list}
  /\ \/ running' = Idle
     \/ /\ running # Idle /\ running'.of = running.of /\ running'.next = running.next
        /\ running'.stage = "renamed" => running.stage = "renamed"

LEMMA PassesKeeps ==
  ASSUME Gone, Passes
  PROVE  Gone'
<1>1. \A t : OffFile(t) => OffFile(t)'
  BY DEF Passes, OffFile, Off
<1>2. \A t : OffFile(t) /\ OffStore(t) => OffStore(t)'
  BY DEF Passes, OffFile, OffStore, Off
<1>3. \A r \in Requests : /\ Waits(r)' => Waits(r)
                          /\ AtWorkIs(r)' => AtWorkIs(r) /\ running'.next = running.next
                          /\ Answered(r)' => Answered(r)
                          /\ InPlace(r)' => InPlace(r)
  <2>1. ASSUME NEW r \in Requests PROVE AtWorkIs(r)' => AtWorkIs(r) /\ running'.next = running.next
    BY DEF Passes, AtWorkIs
  <2>2. ASSUME NEW r \in Requests PROVE Answered(r)' => Answered(r)
    BY DEF Passes, Answered
  <2>3. ASSUME NEW r \in Requests PROVE InPlace(r)' => InPlace(r)
    BY <2>1, <2>2 DEF Passes, InPlace, AtWorkIs
  <2>4. QED
    BY <2>1, <2>2, <2>3 DEF Passes
<1>4. Lists'
  BY DEF Gone, Lists, Passes
<1>5. Fresh'
  BY <1>1, <1>2, <1>3 DEF Gone, Fresh, Passes
<1>6. TakenAway'
  <2>1. taken' = taken
    BY DEF Passes
  <2>2. ASSUME NEW r \in Requests, NEW t \in taken[r] \ HandTokens
        PROVE  /\ AtWorkIs(r)' => Off(t, running'.next)
               /\ InPlace(r)' => OffFile(t)'
               /\ Answered(r)' => OffStore(t)'
    <3>1. Answered(r) => InPlace(r)
      BY DEF InPlace
    <3>2. QED
      BY <1>1, <1>2, <1>3, <3>1 DEF Gone, TakenAway
  <2>3. QED
    BY <2>1, <2>2 DEF Gone, TakenAway, Off
<1>7. QED
  BY <1>4, <1>5, <1>6 DEF Gone

LEMMA TurnTakes ==
  ASSUME Inv, Gone, NEW r \in Requests, TurnComes(r)
  PROVE  Gone'
<1>1. status[r] = "queued" /\ running = Idle
      /\ UNCHANGED <<players, list, opened, overtaken>>
  BY DEF TurnComes, Begin, hand, Inv, Queued
<1>2. \A q \in Requests : q # r => status'[q] = status[q]
  BY DEF TurnComes, Begin, Inv, Queued
<1>3. CASE Refused(players, r)
  <2>1. taken' = [taken EXCEPT ![r] = {}] /\ running' = Idle /\ status'[r] = "failed"
    BY <1>1, <1>3 DEF TurnComes, Begin, Inv, Queued
  <2>2. \A q \in Requests : taken'[q] \subseteq taken[q] /\ taken'[q] \subseteq Tokens
    BY <2>1 DEF Gone, TakenAway
  <2>3. \A q \in Requests : (Waits(q)' => Waits(q)) /\ (Answered(q)' => Answered(q))
    BY <1>1, <1>2, <2>1 DEF Waits, Answered
  <2>4. \A t : OffFile(t)' = OffFile(t) /\ OffStore(t)' = OffStore(t)
    BY <1>1, <2>1 DEF OffFile, OffStore, Off
  <2>5. Lists'
    BY <1>1, <2>1 DEF Gone, Lists
  <2>6. Fresh'
    BY <2>2, <2>3, <2>4 DEF Gone, Fresh
  <2>7. \A q \in Requests : ~AtWorkIs(q)' /\ (InPlace(q)' <=> Answered(q)')
    BY <2>1 DEF AtWorkIs, InPlace
  <2>8. taken' \in [Requests -> SUBSET Tokens]
    BY <2>1 DEF Gone, TakenAway
  <2>9. \A q \in Requests : Answered(q) => InPlace(q)
    BY DEF InPlace
  <2>10. TakenAway'
    BY <2>2, <2>3, <2>4, <2>7, <2>8, <2>9 DEF Gone, TakenAway
  <2>11. QED
    BY <2>5, <2>6, <2>10 DEF Gone
<1>4. CASE ~Refused(players, r)
  <2> DEFINE next == After(players, r)
  <2>1. /\ taken' = [taken EXCEPT ![r] = TokensOf(players) \ TokensOf(next)]
        /\ running' = [of |-> r, next |-> next, stage |-> "begun"] /\ status'[r] = "running"
    BY <1>1, <1>4 DEF TurnComes, Begin, Inv, Queued
  <2>2. players \in Seq(Players) /\ next \in Seq(Players) /\ TokensOf(next) \subseteq TokensOf(players) \cup {r}
    BY AfterKeeps DEF Gone, Lists
  <2> HIDE DEF next
  <2>3. running'.of = r /\ running'.next = next /\ running'.stage = "begun"
    BY <2>1
  <2>4. \A q \in Requests : (Waits(q)' => Waits(q) /\ q # r) /\ (Answered(q)' => Answered(q) /\ q # r)
    BY <1>1, <1>2, <2>1 DEF Waits, Answered
  <2>5. \A q \in Requests : q # r => taken'[q] = taken[q]
    BY <2>1 DEF Gone, TakenAway
  <2>6. taken'[r] = TokensOf(players) \ TokensOf(next)
    BY <2>1 DEF Gone, TakenAway
  <2>7. \A t : /\ OffFile(t)' = OffFile(t)
               /\ OffStore(t) /\ t # r => OffStore(t)'
    BY <1>1, <2>2, <2>3 DEF OffFile, OffStore, Off
  <2>8. Lists'
    BY <1>1, <2>2, <2>3 DEF Gone, Lists
  <2>9. Fresh'
    <3>1. ASSUME NEW q \in Requests, Waits(q)' PROVE OffFile(q)' /\ OffStore(q)'
      BY <2>4, <2>7, <3>1 DEF Gone, Fresh
    <3>2. ASSUME NEW q \in Requests, NEW p \in Requests, Waits(q)' PROVE q \notin taken'[p]
      <4>1. Waits(q) /\ Off(q, players)
        BY <2>4, <3>2 DEF Gone, Fresh, OffStore
      <4>2. QED
        BY <2>5, <2>6, <4>1 DEF Gone, Fresh, Off
    <3>3. QED
      BY <3>1, <3>2 DEF Fresh
  <2>10. TakenAway'
    <3>1. TokensOf(players) \subseteq Tokens
      <4>1. \A i \in DOMAIN players : players[i] \in Players
        BY <2>2
      <4>2. \A p \in Players : p.token \in Tokens
        BY DEF Players
      <4>3. QED
        BY <4>1, <4>2 DEF TokensOf
    <3>2. taken' \in [Requests -> SUBSET Tokens]
      BY <2>1, <3>1 DEF Gone, TakenAway
    <3>3. \A t \in taken'[r] : Off(t, next)
      BY <2>6 DEF Off
    <3>4. ASSUME NEW q \in Requests, NEW t \in taken'[q] \ HandTokens, InPlace(q)'
          PROVE  OffFile(t)' /\ OffStore(t)'
      <4>1. Answered(q)'
        BY <2>3, <3>4 DEF InPlace
      <4>2. Answered(q) /\ q # r /\ t \in taken[q] \ HandTokens
        BY <2>4, <2>5, <4>1
      <4>3. OffFile(t) /\ OffStore(t)
        BY <4>2 DEF Gone, TakenAway, InPlace
      <4>4. t # r
        BY <1>1, <4>2 DEF Gone, Fresh, Waits
      <4>5. QED
        BY <2>7, <4>3, <4>4
    <3>5. \A q \in Requests : Answered(q)' => InPlace(q)'
      BY DEF InPlace
    <3>6. \A q \in Requests : AtWorkIs(q)' => q = r
      BY <2>3 DEF AtWorkIs
    <3>7. QED
      BY <2>3, <3>2, <3>3, <3>4, <3>5, <3>6 DEF TakenAway, Off
  <2>11. QED
    BY <2>8, <2>9, <2>10 DEF Gone
<1>5. QED
  BY <1>3, <1>4

LEMMA RenamedTakes ==
  ASSUME Inv, Gone, Renamed
  PROVE  Gone'
<1> DEFINE w == running.of
<1>1. /\ running # Idle /\ running.stage = "written" /\ list' = running.next
      /\ running'.of = w /\ running'.next = running.next /\ running'.stage = "renamed" /\ running' # Idle
      /\ w \in Requests /\ status[w] = "running"
      /\ overtaken' = IF opened = None THEN overtaken ELSE overtaken \cup {w}
      /\ UNCHANGED <<players, opened, status, taken>>
  <2>1. /\ running # Idle /\ running.stage = "written" /\ list' = tmp
        /\ running' = [running EXCEPT !.stage = "renamed"]
        /\ overtaken' = IF opened = None THEN overtaken ELSE overtaken \cup {w}
        /\ UNCHANGED <<players, opened, status, taken>>
    BY DEF Renamed, Idle
  <2>2. running'.of = w /\ running'.next = running.next /\ running'.stage = "renamed"
    BY <2>1, NextStage
  <2>3. tmp = running.next /\ w \in Requests /\ status[w] = "running"
    BY <2>1 DEF Inv, AtWork
  <2>4. QED
    BY <2>1, <2>2, <2>3 DEF Idle
<1> HIDE DEF w
<1>2. \A t : OffFile(t) /\ OffStore(t) => OffFile(t)' /\ OffStore(t)'
  BY <1>1 DEF OffFile, OffStore, Off
<1>3. Lists'
  BY <1>1 DEF Gone, Lists
<1>4. Fresh'
  BY <1>1, <1>2 DEF Gone, Fresh, Waits
<1>5. TakenAway'
  <2>1. ASSUME NEW q \in Requests, NEW t \in taken[q] \ HandTokens
        PROVE  /\ AtWorkIs(q)' => Off(t, running'.next)
               /\ InPlace(q)' => OffFile(t)'
               /\ Answered(q)' => OffStore(t)'
    <3>1. AtWorkIs(q)' => AtWorkIs(q) /\ q = w
      BY <1>1 DEF AtWorkIs, w
    <3>2. AtWorkIs(q)' => Off(t, running'.next)
      BY <1>1, <3>1 DEF Gone, TakenAway
    <3>3. Answered(q)' => OffFile(t)' /\ OffStore(t)'
      <4>1. Answered(q)' => Answered(q)
        BY <1>1 DEF Answered
      <4>2. Answered(q) => OffFile(t) /\ OffStore(t)
        BY DEF Gone, TakenAway, InPlace
      <4>3. QED
        BY <1>2, <4>1, <4>2
    <3>4. ASSUME AtWorkIs(q)', q \notin overtaken' PROVE OffFile(t)'
      <4>1. opened = None
        BY <1>1, <3>1, <3>4
      <4>2. Off(t, running.next)
        BY <3>1, <3>4 DEF Gone, TakenAway
      <4>3. QED
        BY <1>1, <4>1, <4>2 DEF OffFile, Off
    <3>5. QED
      BY <3>2, <3>3, <3>4 DEF InPlace
  <2>2. taken' = taken
    BY <1>1
  <2>3. QED
    BY <2>1, <2>2 DEF Gone, TakenAway, Off
<1>6. QED
  BY <1>3, <1>4, <1>5 DEF Gone

LEMMA PersistedTakes ==
  ASSUME Inv, Gone, Persisted
  PROVE  Gone'
<1> DEFINE w == running.of
<1>1. /\ running # Idle /\ running.stage = "renamed" /\ running' = Idle /\ players' = running.next
      /\ w \in Requests /\ status' = [status EXCEPT ![w] = "ok"]
      /\ UNCHANGED <<list, opened, taken, overtaken>>
  BY DEF Persisted, hand, history, Idle, Inv, AtWork
<1>2. \A q \in Requests : q # w => status'[q] = status[q]
  BY <1>1 DEF Inv, Queued
<1>3. status'[w] = "ok"
  BY <1>1 DEF Inv, Queued
<1>4. \A t : OffFile(t)' = OffFile(t) /\ (Off(t, running.next) => OffStore(t)')
  BY <1>1 DEF OffFile, OffStore, Off
<1>5. \A q \in Requests : AtWorkIs(q) <=> q = w
  BY <1>1 DEF AtWorkIs
<1> HIDE DEF w
<1>6. Lists'
  BY <1>1 DEF Gone, Lists
<1>7. Fresh'
  <2>1. \A q \in Requests : Waits(q)' => Waits(q)
    BY <1>2, <1>3 DEF Waits
  <2>2. \A q \in Requests : OffStore(q) => Off(q, running.next)
    BY <1>1 DEF OffStore
  <2>3. QED
    BY <1>1, <1>4, <2>1, <2>2 DEF Gone, Fresh
<1>8. TakenAway'
  <2>1. ASSUME NEW q \in Requests, NEW t \in taken[q] \ HandTokens, Answered(q)'
        PROVE  OffFile(t)' /\ OffStore(t)'
    <3>1. CASE q = w
      <4>1. InPlace(q) /\ AtWorkIs(q)
        BY <1>1, <1>5, <2>1, <3>1 DEF InPlace, Answered
      <4>2. QED
        BY <1>4, <4>1 DEF Gone, TakenAway
    <3>2. CASE q # w
      <4>1. Answered(q)
        BY <1>1, <1>2, <2>1, <3>2 DEF Answered
      <4>2. OffFile(t) /\ OffStore(t)
        BY <4>1 DEF Gone, TakenAway, InPlace
      <4>3. QED
        BY <1>1, <1>4, <4>2 DEF OffStore
    <3>3. QED
      BY <3>1, <3>2
  <2>2. \A q \in Requests : ~AtWorkIs(q)' /\ (InPlace(q)' <=> Answered(q)')
    BY <1>1 DEF AtWorkIs, InPlace
  <2>3. QED
    BY <1>1, <2>1, <2>2 DEF Gone, TakenAway
<1>9. QED
  BY <1>6, <1>7, <1>8 DEF Gone

LEMMA SavingTakes ==
  ASSUME Inv, Gone, EditorSaves
  PROVE  Gone'
<1>1. /\ opened # None /\ opened' = None /\ list' \in HandEdits(opened)
      /\ UNCHANGED <<players, running, status, taken, overtaken>>
  BY DEF EditorSaves, Inv, OnDisk
<1>2. list' \in Seq(Players) /\ TokensOf(list') \subseteq TokensOf(opened) \cup HandTokens
  BY <1>1, EditKeeps DEF Gone, Lists
<1>3. \A t : t \notin HandTokens /\ OffFile(t) => OffFile(t)'
  BY <1>1, <1>2 DEF OffFile, Off
<1>4. \A t : OffStore(t)' = OffStore(t)
  BY <1>1 DEF OffStore, Off
<1>5. \A q : /\ Waits(q)' = Waits(q) /\ AtWorkIs(q)' = AtWorkIs(q)
             /\ Answered(q)' = Answered(q) /\ InPlace(q)' = InPlace(q)
  BY <1>1 DEF Waits, AtWorkIs, Answered, InPlace
<1>6. Lists'
  BY <1>1, <1>2 DEF Gone, Lists
<1>7. Fresh'
  BY <1>1, <1>3, <1>4, <1>5, RequestAssumption DEF Gone, Fresh
<1>8. TakenAway'
  BY <1>1, <1>3, <1>4, <1>5 DEF Gone, TakenAway, Off
<1>9. QED
  BY <1>6, <1>7, <1>8 DEF Gone

LEMMA GoneNext ==
  ASSUME Inv, Gone, [StoreNext]_vars
  PROVE  Gone'
<1>1. file # Bad => file = list
  BY DEF Inv, OnDisk
<1>2. CASE UNCHANGED vars
  BY <1>2, PassesKeeps DEF vars, memory, hand, history, Passes, Waits
<1>3. CASE (\E r \in Requests : Mutate(r)) \/ Watched \/ Reload
  <2>1. CASE \E r \in Requests : Mutate(r)
    <3>1. PICK r \in Requests : Mutate(r)
      BY <2>1
    <3>2. status[r] = "new" /\ status' = [status EXCEPT ![r] = "queued"]
          /\ UNCHANGED <<list, taken, overtaken, players, opened, running>>
      BY <3>1 DEF Mutate, hand, history
    <3>3. \A q \in Requests : status'[q] = IF q = r THEN "queued" ELSE status[q]
      BY <3>2 DEF Inv, Queued
    <3>4. Passes
      BY <3>2, <3>3 DEF Passes, Waits
    <3>5. QED
      BY <3>4, PassesKeeps
  <2>2. CASE Watched
    BY <2>2, PassesKeeps DEF Watched, hand, history, Passes, Waits
  <2>3. CASE Reload
    BY <1>1, <2>3, PassesKeeps DEF Reload, hand, history, Passes, Waits
  <2>4. QED
    BY <1>3, <2>1, <2>2, <2>3
<1>4. CASE TmpWritten
  <2>1. running # Idle /\ running' = [running EXCEPT !.stage = "written"]
        /\ UNCHANGED <<list, taken, overtaken, players, opened, status>>
    BY <1>4 DEF TmpWritten, hand, history, Idle
  <2>2. running'.of = running.of /\ running'.next = running.next /\ running'.stage = "written"
    BY <2>1, NextStage
  <2>3. QED
    BY <2>1, <2>2, PassesKeeps DEF Passes, Waits
<1>5. CASE WriteFails
  <2>1. running # Idle /\ running' = Idle /\ status' = [status EXCEPT ![running.of] = "failed"]
        /\ UNCHANGED <<list, taken, overtaken, players, opened>>
    BY <1>5 DEF WriteFails, hand, history, Idle
  <2>2. \A q \in Requests : status'[q] \in {"failed", status[q]}
    BY <2>1 DEF Inv, Queued
  <2>3. Passes
    BY <2>1, <2>2 DEF Passes, Waits
  <2>4. QED
    BY <2>3, PassesKeeps
<1>6. CASE EditorOpens \/ EditorTears \/ EditorLoses
  <2>1. UNCHANGED <<list, taken, overtaken, status, players, running>> /\ opened' \in {opened, None, list}
    <3>1. CASE EditorOpens
      BY <1>1, <3>1 DEF EditorOpens, Inv, OnDisk, memory, history
    <3>2. CASE EditorTears \/ EditorLoses
      BY <3>2 DEF EditorTears, EditorLoses, memory, history
    <3>3. QED
      BY <1>6, <3>1, <3>2
  <2>2. QED
    BY <2>1, PassesKeeps DEF Passes, Waits
<1>7. CASE Crash
  <2>1. /\ running' = Idle
        /\ status' = [r \in Requests |-> IF status[r] \in {"queued", "running"} THEN "lost" ELSE status[r]]
        /\ UNCHANGED <<list, taken, overtaken, players, opened>>
    BY <1>7 DEF Crash, hand, history
  <2>2. \A q \in Requests : status'[q] \in {"lost", status[q]}
    BY <2>1
  <2>3. Passes
    BY <2>1, <2>2 DEF Passes, Waits
  <2>4. QED
    BY <2>3, PassesKeeps
<1>8. CASE Restart
  BY <1>1, <1>8, PassesKeeps DEF Restart, hand, history, Passes, Waits
<1>9. QED
  BY <1>2, <1>3, <1>4, <1>5, <1>6, <1>7, <1>8, TurnTakes, RenamedTakes, PersistedTakes, SavingTakes
     DEF StoreNext, StoreStep, Environment

LEMMA GoneIsInForce == Gone => AnsweredIsInForce
<1> SUFFICES ASSUME Gone, NEW r \in Requests, status[r] = "ok", r \notin overtaken,
                    NEW t \in taken[r] \ HandTokens
             PROVE  VerifyToken(players, t) = 0 /\ VerifyToken(list, t) = 0
  BY DEF AnsweredIsInForce
<1>1. InPlace(r) /\ Answered(r)
  BY DEF InPlace, Answered
<1>2. Off(t, list) /\ Off(t, players)
  BY <1>1 DEF Gone, TakenAway, OffFile, OffStore
<1>3. QED
  BY <1>2, NotVerified DEF Gone, Lists, Off

\* The tokens an answered request took away open nothing, in memory and after
\* a restart, whatever reloads, crashes, failed writes and other mutations come
\* in between, unless an editor that had the file open puts them back (rotate,
\* remove, reload); for any number of requests, hand edits and crashes.
THEOREM AnswersAreInForce == StoreSpec => []AnsweredIsInForce
<1>1. StoreInit => Inv /\ Gone
  BY InvInit, GoneInit
<1>2. Inv /\ Gone /\ [StoreNext]_vars => (Inv /\ Gone)'
  BY InvNext, GoneNext
<1>3. QED
  BY <1>1, <1>2, GoneIsInForce, PTL DEF StoreSpec
=============================================================================
