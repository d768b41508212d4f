---------------------------- MODULE PlayerStore -----------------------------
(***************************************************************************)
(* apps/gateway/src/player-store.ts with the admin routes that call it:    *)
(* players.yaml, rewritten by console requests one after the other and     *)
(* hot-reloaded after hand edits, by a process that may crash and restart. *)
(***************************************************************************)
EXTENDS Integers, PlayerOps

CONSTANTS
    Bad,                    \* a file the parser rejects
    MaxEdits, MaxCrashes    \* bounds: hand edits, crashes

VARIABLES
    up,         \* is the process running?
    file,       \* players.yaml: a list of players, or Bad
    tmp,        \* .players.yaml.tmp, or None
    players,    \* FilePlayerStore.players
    writeQueue, \* mutations that wait for their turn
    running,    \* the mutation at work: [of, next, stage], or Idle
    event,      \* the watcher has something to report
    reloadTimer,\* the debounced reload is armed
    status,     \* request -> "new", "queued", "running", "ok", "failed" or "lost"
    opened,     \* the list a hand edit started from, or None
    saving,     \* the editor is writing: "no", "torn" or "orphan"
    edits, crashes,
    list,       \* history: the last well-formed content of the file
    done,       \* history: requests whose file came into place
    outdated,   \* history: lists that hand edits replaced
    taken,      \* history: request -> the tokens it took away
    overtaken   \* history: requests done while an editor had the file open

memory == <<players, writeQueue, running, event, reloadTimer, status>>
hand == <<opened, saving, edits, outdated>>
history == <<list, done, taken, overtaken>>
vars == <<up, file, tmp, memory, hand, crashes, history>>

Idle == [of |-> None, next |-> None, stage |-> "idle"]

----------------------------------------------------------------------------
StoreInit ==
    /\ up = TRUE
    /\ file \in FirstLists
    /\ tmp = None
    /\ players = file /\ list = file
    /\ writeQueue = <<>>
    /\ running = Idle
    /\ event = FALSE /\ reloadTimer = FALSE
    /\ status = [r \in Requests |-> "new"]
    /\ opened = None /\ saving = "no" /\ edits = 0 /\ crashes = 0
    /\ done = {} /\ outdated = {} /\ overtaken = {}
    /\ taken = [r \in Requests |-> {}]
----------------------------------------------------------------------------
(* Mutations: create, rotate and remove run one after the other.           *)

\* An admin route calls the store: mutate() chains onto the queue.
Mutate(r) ==
    /\ up /\ status[r] = "new"
    /\ writeQueue' = Append(writeQueue, r)
    /\ status' = [status EXCEPT ![r] = "queued"]
    /\ UNCHANGED <<up, file, tmp, players, running, event, reloadTimer, hand, crashes, history>>

Begin(r) ==
    /\ status' = [status EXCEPT ![r] = IF Refused(players, r) THEN "failed" ELSE "running"]
    /\ running' = IF Refused(players, r) THEN running
                  ELSE [of |-> r, next |-> After(players, r), stage |-> "begun"]
    /\ taken' = [taken EXCEPT ![r] = IF Refused(players, r) THEN {}
                                     ELSE TokensOf(players) \ TokensOf(After(players, r))]
    /\ UNCHANGED <<up, file, tmp, players, event, reloadTimer, hand, crashes, list, done, overtaken>>

\* Mutant of TurnComes: mutations are not queued.
TurnComesAtOnce(r) ==
    /\ up /\ r \in Range(writeQueue)
    /\ writeQueue' = SelectSeq(writeQueue, LAMBDA q : q # r)
    /\ Begin(r)

\* Its turn comes: refused, or the next list is computed from the one in
\* memory, and the temporary file begun.
TurnComes(r) ==
    /\ up /\ running = Idle
    /\ writeQueue # <<>> /\ Head(writeQueue) = r
    /\ writeQueue' = Tail(writeQueue)
    /\ Begin(r)

TmpWritten ==
    /\ up /\ running.stage = "begun"
    /\ tmp' = running.next
    /\ running' = [running EXCEPT !.stage = "written"]
    /\ UNCHANGED <<up, file, players, writeQueue, event, reloadTimer, status, hand, crashes, history>>

\* writeFile or rename fails: so does the request; nothing has changed.
WriteFails ==
    /\ up /\ running.stage \in {"begun", "written"}
    /\ running' = Idle
    /\ status' = [status EXCEPT ![running.of] = "failed"]
    /\ UNCHANGED <<up, file, tmp, players, writeQueue, event, reloadTimer, hand, crashes, history>>

\* The temporary file is renamed into place, which the watcher sees.  An
\* editor at work goes on writing to the file that was there.
Renamed ==
    /\ up /\ running.stage = "written"
    /\ file' = tmp /\ list' = tmp /\ tmp' = None
    /\ running' = [running EXCEPT !.stage = "renamed"]
    /\ event' = TRUE
    /\ saving' = IF saving = "torn" THEN "orphan" ELSE saving
    /\ done' = done \cup {running.of}
    /\ overtaken' = IF opened = None THEN overtaken ELSE overtaken \cup {running.of}
    /\ UNCHANGED <<up, players, writeQueue, reloadTimer, status, opened, edits, outdated, crashes, taken>>

\* Mutant of Persisted: the list in memory is left to the watcher.
PersistedOnly ==
    /\ up /\ running.stage = "renamed"
    /\ running' = Idle
    /\ status' = [status EXCEPT ![running.of] = "ok"]
    /\ UNCHANGED <<up, file, tmp, players, writeQueue, event, reloadTimer, hand, crashes, history>>

\* The rename is answered: memory follows, and the request is answered.
Persisted ==
    /\ up /\ running.stage = "renamed"
    /\ players' = running.next
    /\ running' = Idle
    /\ status' = [status EXCEPT ![running.of] = "ok"]
    /\ UNCHANGED <<up, file, tmp, writeQueue, event, reloadTimer, hand, crashes, history>>

----------------------------------------------------------------------------
(* The watcher.                                                            *)

\* The watcher reports a change of the file: the reload is (re)armed.  The
\* answer to a rename is there before any later change of the file is
\* reported, and timers run after both: it is dealt with first.
Watched ==
    /\ up /\ event
    /\ running.stage # "renamed"
    /\ event' = FALSE /\ reloadTimer' = TRUE
    /\ UNCHANGED <<up, file, tmp, players, writeQueue, running, status, hand, crashes, history>>

\* Mutant of Reload: it is skipped while a mutation is at work.
ReloadIfIdle ==
    /\ up /\ reloadTimer
    /\ reloadTimer' = FALSE
    /\ players' = IF file = Bad \/ running # Idle THEN players ELSE file
    /\ UNCHANGED <<up, file, tmp, writeQueue, running, event, status, hand, crashes, history>>

\* The reload: a file the parser rejects leaves the last good list.
Reload ==
    /\ up /\ reloadTimer
    /\ reloadTimer' = FALSE
    /\ players' = IF file = Bad THEN players ELSE file
    /\ UNCHANGED <<up, file, tmp, writeQueue, running, event, status, hand, crashes, history>>

----------------------------------------------------------------------------
(* A hand edit: the editor opens the file, then truncates and fills it.    *)

EditorOpens ==
    /\ edits < MaxEdits /\ opened = None
    /\ edits' = edits + 1
    /\ opened' = file
    /\ UNCHANGED <<up, file, tmp, memory, saving, outdated, crashes, history>>

EditorTears ==
    /\ opened # None /\ saving = "no"
    /\ saving' = "torn"
    /\ file' = Bad /\ event' = up
    /\ UNCHANGED <<up, tmp, players, writeQueue, running, reloadTimer, status, opened, edits, outdated, crashes, history>>

EditorSaves ==
    /\ saving = "torn" /\ saving' = "no"
    /\ file' \in HandEdits(opened) /\ list' = file'
    /\ outdated' = outdated \cup {list}
    /\ opened' = None
    /\ event' = up
    /\ UNCHANGED <<up, tmp, players, writeQueue, running, reloadTimer, status, edits, crashes, done, taken, overtaken>>

EditorLoses ==
    /\ saving = "orphan" /\ saving' = "no"
    /\ opened' = None
    /\ UNCHANGED <<up, file, tmp, memory, edits, outdated, crashes, history>>

----------------------------------------------------------------------------
(* The process.                                                            *)

Crash ==
    /\ up /\ crashes < MaxCrashes
    /\ up' = FALSE /\ crashes' = crashes + 1
    /\ writeQueue' = <<>> /\ running' = Idle
    /\ event' = FALSE /\ reloadTimer' = FALSE
    /\ status' = [r \in Requests |-> IF status[r] \in {"queued", "running"} THEN "lost" ELSE status[r]]
    /\ UNCHANGED <<file, tmp, players, hand, history>>

\* The constructor reads the file (with a bad one the process does not
\* start), and the watcher stands before main() first waits for anything.
Restart ==
    /\ ~up /\ file # Bad
    /\ up' = TRUE
    /\ players' = file
    /\ UNCHANGED <<file, tmp, writeQueue, running, event, reloadTimer, status, hand, crashes, history>>

----------------------------------------------------------------------------
StoreStep ==
    \/ \E r \in Requests : TurnComes(r)
    \/ TmpWritten \/ Renamed \/ Persisted

Environment ==
    \/ \E r \in Requests : Mutate(r)
    \/ WriteFails \/ EditorOpens \/ EditorTears \/ EditorSaves \/ EditorLoses
    \/ Crash \/ Restart

StoreNext == StoreStep \/ Watched \/ Reload \/ Environment

\* The event loop goes on and the disk answers; a file an editor tore is
\* completed, and a crashed process restarted (docker: restart).
StoreSpec ==
    /\ StoreInit /\ [][StoreNext]_vars
    /\ WF_vars(StoreStep) /\ WF_vars(Watched) /\ WF_vars(Reload)
    /\ WF_vars(EditorSaves) /\ WF_vars(Restart)

----------------------------------------------------------------------------
(* Properties.                                                             *)

\* players.yaml is what PlayerList promises: each console request takes effect
\* at most once, whole, in turn, through crashes and reloads; only what hand
\* edits did may be overwritten (mutate, persist).  The list it speaks of is
\* the file, and while an editor fills it what was there before.
ListOnDisk == IF file = Bad THEN list ELSE file

Promised == INSTANCE PlayerList
    WITH list <- ListOnDisk, done <- done, opened <- opened, outdated <- outdated
ImplementsPlayerList == Promised!ListSpec

\* An answered request is in force, for the next sign-in and after a restart:
\* the tokens it took away open nothing, unless an editor that had the file
\* open at the time puts them back.  Reloads, which read the file between the
\* steps of other mutations, must not bring them back (rotate, remove).
AnsweredIsInForce ==
    \A r \in Requests : status[r] = "ok" /\ r \notin overtaken =>
        \A t \in taken[r] \ HandTokens :
            VerifyToken(players, t) = 0 /\ VerifyToken(list, t) = 0

\* What was saved by hand is picked up, or overtaken, while the process runs:
\* a reload that hits a torn file or the middle of a mutation loses nothing.
EditsArePickedUp ==
    (up /\ file # Bad /\ players # file) ~> (~up \/ file = Bad \/ players = file)
=============================================================================
