----------------------------- MODULE PlayerList -----------------------------
(***************************************************************************)
(* What the player store promises of players.yaml.  Console requests       *)
(* change the list one at a time, each at most once and whole; so do hand  *)
(* edits, of the list as the editor opened it.  A request applies to the   *)
(* list as it is, or, this is all that may go wrong, to one that a hand    *)
(* edit has replaced, whose effect is then lost.                           *)
(***************************************************************************)
EXTENDS PlayerOps

VARIABLES
    list,       \* the players on disk
    done,       \* requests that took effect
    opened,     \* the list a hand edit started from, or None
    outdated    \* lists that hand edits replaced

ListInit ==
    /\ list \in FirstLists
    /\ done = {} /\ opened = None /\ outdated = {}

Apply(r) ==
    /\ r \notin done
    /\ \E base \in {list} \cup outdated :
          ~Refused(base, r) /\ list' = After(base, r)
    /\ done' = done \cup {r}
    /\ UNCHANGED <<opened, outdated>>

EditorOpens ==
    /\ opened = None /\ opened' = list
    /\ UNCHANGED <<list, done, outdated>>

EditorSaves ==
    /\ opened # None /\ opened' = None
    /\ list' \in HandEdits(opened)
    /\ outdated' = outdated \cup {list}
    /\ UNCHANGED done

\* What was to be saved is lost: the editor wrote to a file no longer there.
EditorLoses ==
    /\ opened # None /\ opened' = None
    /\ UNCHANGED <<list, done, outdated>>

ListNext == EditorOpens \/ EditorSaves \/ EditorLoses \/ \E r \in Requests : Apply(r)

ListSpec == ListInit /\ [][ListNext]_<<list, done, opened, outdated>>
=============================================================================
