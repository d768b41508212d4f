------------------------------ MODULE PlayerOps -----------------------------
(***************************************************************************)
(* Lists of players and what a console request or a hand edit makes of     *)
(* one: the operators PlayerList (what is promised) and PlayerStore (how   *)
(* the gateway does it) share.                                             *)
(*                                                                         *)
(* A token stands for its hash; the token a request mints is named after   *)
(* the request.  Actor ids and the gm flag are carried along unread.       *)
(***************************************************************************)
EXTENDS Sequences, SequencesExt

CONSTANTS
    Names,          \* player names
    Fold(_),        \* a name's lower-case form
    Requests,       \* console requests
    OpOf(_),        \* request -> "create", "rotate" or "remove"
    NameOf(_),      \* request -> the name it is about
    OldTokens,      \* tokens on file before anything happens
    HandTokens,     \* tokens that come in by hand edits
    None            \* no list: no edit, no temporary file

ASSUME RequestAssumption ==
    /\ Requests \cap (OldTokens \cup HandTokens) = {}
    /\ \A r \in Requests : OpOf(r) \in {"create", "rotate", "remove"} /\ NameOf(r) \in Names

Tokens == Requests \cup OldTokens \cup HandTokens
Players == [name : Names, token : Tokens]
TokensOf(players) == {players[i].token : i \in DOMAIN players}

\* create refuses a name in use whatever its case; rotate and remove want the
\* name exactly.
Refused(players, r) ==
    IF OpOf(r) = "create"
    THEN \E i \in DOMAIN players : Fold(players[i].name) = Fold(NameOf(r))
    ELSE \A i \in DOMAIN players : players[i].name # NameOf(r)

\* findIndex: the first player of a name.
FirstOf(players, n) ==
    CHOOSE i \in DOMAIN players :
        players[i].name = n /\ \A j \in 1..(i - 1) : players[j].name # n

\* filter: the players of other names, in order (spelled out, not SelectSeq,
\* so that the proofs can go through it).
Without(players, n) ==
    LET kept[i \in 0..Len(players)] ==
            IF i = 0 THEN <<>>
            ELSE IF players[i].name = n THEN kept[i - 1]
            ELSE Append(kept[i - 1], players[i])
    IN  kept[Len(players)]

\* The list after a request.
After(players, r) ==
    CASE OpOf(r) = "create" -> Append(players, [name |-> NameOf(r), token |-> r])
      [] OpOf(r) = "rotate" -> [players EXCEPT ![FirstOf(players, NameOf(r))].token = r]
      [] OpOf(r) = "remove" -> Without(players, NameOf(r))

\* What a hand edit makes of a list: a player removed, or one added.
HandEdits(players) ==
    {RemoveAt(players, i) : i \in DOMAIN players}
    \cup {Append(players, [name |-> n, token |-> t]) :
              n \in Names, t \in HandTokens \ TokensOf(players)}

\* The lists the program starts with.
FirstLists ==
    {<<>>} \cup {<<[name |-> n, token |-> t]>> : n \in Names, t \in OldTokens}

\* verifyToken: the first player whose token it is, or none at all.
VerifyToken(players, t) == SelectInSeq(players, LAMBDA p : p.token = t)
=============================================================================
