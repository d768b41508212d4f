--------------------------- MODULE MovementProofs ---------------------------
(***************************************************************************)
(* Proofs about Movement for every set of actors, cells and requests, every*)
(* order of the initiative and every speed: type correctness, that nobody  *)
(* moves out of turn, that in a calm behaviour the speed is kept, that at  *)
(* most one turn of a round is ended in a player's name, and that in every *)
(* behaviour nothing is charged that was not walked.                       *)
(***************************************************************************)
EXTENDS Movement, FiniteSetTheorems, TLAPS

States == [fight : 1..MaxFights, round : 0..MaxRounds, turn : 0..(Len(Order) - 1)]

LEMMA OrderLength == Len(Order) \in Nat \ {0}
BY MovementAssumption

LEMMA ChebyshevNat ==
  ASSUME NEW p \in Int \X Int, NEW q \in Int \X Int
  PROVE  Chebyshev(p, q) \in Nat
<1>1. p[1] \in Int /\ p[2] \in Int /\ q[1] \in Int /\ q[2] \in Int
  OBVIOUS
<1>2. Abs(p[1] - q[1]) \in Nat /\ Abs(p[2] - q[2]) \in Nat
  BY <1>1 DEF Abs
<1>3. QED
  BY <1>2 DEF Chebyshev

LEMMA CostNat ==
  ASSUME NEW a \in Actors, NEW seen \in [Actors -> Cells], NEW to \in Cells
  PROVE  MoveCost(a, seen, to) \in Nat
<1>1. seen[a] \in Int \X Int /\ to \in Int \X Int
  BY MovementAssumption
<1>2. Chebyshev(seen[a], to) \in Nat
  BY <1>1, ChebyshevNat
<1> HIDE DEF Chebyshev
<1>3. QED
  BY <1>2, MovementAssumption DEF MoveCost

\* What the mirror shows is a state of the fight, or none.
LEMMA ShownType ==
  ASSUME TypeOK
  PROVE  /\ Shown \in States \cup {None} /\ World \in States \cup {None}
         /\ log # <<>> /\ Len(log) \in Nat \ {0}
<1>1. log \in Seq(States \cup {None})
  BY DEF TypeOK, States
<1>2. DOMAIN log = 1..Len(log) /\ Len(log) \in Nat
  BY <1>1
<1>3. Len(log) # 0
  BY <1>2 DEF TypeOK
<1>4. Len(log) \in DOMAIN log /\ mirror \in DOMAIN log
  BY <1>2, <1>3 DEF TypeOK
<1>5. log[Len(log)] \in States \cup {None} /\ log[mirror] \in States \cup {None}
  BY <1>1, <1>4
<1>6. QED
  BY <1>1, <1>2, <1>3, <1>5 DEF Shown, World

LEMMA KeyType ==
  ASSUME TypeOK, NEW a \in Actors, IsActive(Shown)
  PROVE  Key(a) \in Keys
BY ShownType DEF IsActive, Key, Keys, States

\* What a budget is.
IsBudget(b) ==
  /\ DOMAIN b \subseteq Keys
  /\ \A k \in DOMAIN b : b[k] \in [movedFt : Nat, dashed : BOOLEAN]

LEMMA StateType ==
  ASSUME NEW b, IsBudget(b), NEW k
  PROVE  State(b, k) \in [movedFt : Nat, dashed : BOOLEAN]
BY DEF State, IsBudget

LEMMA PutType ==
  ASSUME NEW b, IsBudget(b), NEW k \in Keys, NEW s \in [movedFt : Nat, dashed : BOOLEAN]
  PROVE  IsBudget(Put(b, k, s))
BY DEF Put, IsBudget

LEMMA PruneType ==
  ASSUME NEW b, IsBudget(b)
  PROVE  IsBudget(Prune(b))
BY DEF Prune, IsBudget

LEMMA AddMoveType ==
  ASSUME NEW b, IsBudget(b), NEW k \in Keys, NEW ft \in Nat
  PROVE  IsBudget(AddMove(b, k, ft))
<1>1. State(b, k) \in [movedFt : Nat, dashed : BOOLEAN]
  BY StateType
<1>2. [State(b, k) EXCEPT !.movedFt = @ + ft] \in [movedFt : Nat, dashed : BOOLEAN]
  BY <1>1
<1>3. QED
  BY <1>2, PutType DEF AddMove

LEMMA AccessedType ==
  ASSUME TypeOK, NEW a
  PROVE  IsBudget(Accessed(a))
<1>1. IsBudget(budget)
  BY DEF TypeOK, IsBudget
<1>2. QED
  BY <1>1, PruneType DEF Accessed

LEMMA RequestType ==
  ASSUME TypeOK, NEW s \in Slots, req[s] # None
  PROVE  /\ req[s] \in Requests /\ req[s].of \in Players /\ req[s].of \in Actors
         /\ req[s].stage \in {"asked", "read", "sent", "moved", "late", "ending", "ended", "endLate"}
         /\ req[s].stage = "asked" => req[s] \in
              [stage : {"asked"}, of : Players, to : Cells, seen : {None}, key : {None}]
         /\ req[s].stage = "read" => req[s] \in
              [stage : {"read"}, of : Players, to : Cells, seen : [Actors -> Cells], key : {None}]
         /\ req[s].stage \in {"sent", "moved", "late"} => req[s] \in
              [stage : {"sent", "moved", "late"}, of : Players, to : Cells, seen : [Actors -> Cells],
               key : Keys \cup {None}]
         /\ req[s].stage \in {"ending", "ended", "endLate"} => req[s] \in
              [stage : {"ending", "ended", "endLate"}, of : Players, to : {None}, seen : {None}, key : Keys]
<1>1. req[s] \in Requests
  BY DEF TypeOK
<1>2. QED
  BY <1>1, MovementAssumption DEF Requests

LEMMA BecomingType ==
  ASSUME TypeOK, NEW s \in Slots, NEW r \in Requests \cup {None}, Becoming(s, r)
  PROVE  req' \in [Slots -> Requests \cup {None}]
BY DEF TypeOK, Becoming

LEMMA NextTurnType ==
  ASSUME TypeOK, NextTurn, World # None
  PROVE  log' \in Seq({None} \cup States) /\ Len(log') = Len(log) + 1
         /\ mirror \in DOMAIN log'
<1>1. World \in States /\ log \in Seq({None} \cup States)
  BY ShownType DEF TypeOK, States
<1> DEFINE last == World.turn + 1 = Len(Order)
           next == IF last THEN Fight(World.fight, World.round + 1, 0)
                   ELSE Fight(World.fight, World.round, World.turn + 1)
<1>2. log' = Append(log, next) /\ (last => World.round < MaxRounds)
  BY DEF NextTurn, Becomes
<1>3. next \in States
  <2>1. /\ World.fight \in 1..MaxFights /\ World.round \in 0..MaxRounds
        /\ World.turn \in 0..Len(Order) - 1
    BY <1>1 DEF States
  <2>2. MaxRounds \in Nat
    BY MovementAssumption
  <2>3. CASE last
    <3>1. World.round + 1 \in 0..MaxRounds /\ 0 \in 0..Len(Order) - 1
      BY <1>2, <2>1, <2>2, <2>3, OrderLength
    <3>2. QED
      BY <2>1, <2>3, <3>1 DEF States, Fight
  <2>4. CASE ~last
    <3>1. World.turn + 1 \in 0..Len(Order) - 1
      BY <2>1, <2>4, OrderLength
    <3>2. QED
      BY <2>1, <2>4, <3>1 DEF States, Fight
  <2>5. QED
    BY <2>3, <2>4
<1> HIDE DEF next, last
<1>4. QED
  BY <1>1, <1>2, <1>3 DEF TypeOK

LEMMA AppendType ==
  ASSUME TypeOK, NEW f \in States \cup {None}, Becomes(f)
  PROVE  log' \in Seq({None} \cup States) /\ mirror \in DOMAIN log'
BY DEF TypeOK, States, Becomes

\* The fights there have been are numbered from 1 on.
FightsSeen == {log[i].fight : i \in {j \in DOMAIN log : log[j] # None}}

LEMMA FightsFinite ==
  ASSUME TypeOK
  PROVE  IsFiniteSet(FightsSeen) /\ Cardinality(FightsSeen) \in Nat
<1>1. DOMAIN log = 1..Len(log) /\ Len(log) \in Nat
  BY DEF TypeOK
<1>2. FightsSeen \subseteq 1..MaxFights
  <2>1. \A i \in DOMAIN log : log[i] \in States \cup {None}
    BY DEF TypeOK, States
  <2>2. QED
    BY <2>1 DEF FightsSeen, States
<1>3. IsFiniteSet(1..MaxFights)
  BY FS_Interval, MovementAssumption
<1>4. QED
  BY <1>2, <1>3, FS_Subset, FS_CardinalityType

LEMMA InitType == Init => TypeOK
<1> SUFFICES ASSUME Init PROVE TypeOK
  OBVIOUS
<1>1. Fight(1, 1, 0) \in States
  BY OrderLength, MovementAssumption DEF Fight, States
<1>2. log \in Seq({None} \cup States) /\ Len(log) = 1
  <2>1. \E x \in {None} \cup States : log = <<x>>
    BY <1>1 DEF Init
  <2>2. QED
    BY <2>1
<1>3. mirror \in DOMAIN log
  BY <1>2 DEF Init
<1>4. log \in Seq({None} \cup States) /\ mirror \in DOMAIN log /\ calm \in BOOLEAN
  BY <1>2, <1>3 DEF Init
<1>5. pos \in [Actors -> Cells] /\ req \in [Slots -> Requests \cup {None}]
  BY DEF Init
<1>6. DOMAIN budget \subseteq Keys /\ \A k \in DOMAIN budget : budget[k] \in [movedFt : Nat, dashed : BOOLEAN]
  BY DEF Init
<1>7. walked \in [Keys -> Nat] /\ dashes \in [Keys -> Nat] /\ ended \subseteq Nat \X Players
  BY DEF Init
<1>8. QED
  BY <1>4, <1>5, <1>6, <1>7 DEF TypeOK, States

LEMMA GmType ==
  ASSUME TypeOK, GmAdvances \/ GmEndsOrBegins
  PROVE  TypeOK'
<1>1. CASE GmAdvances
  BY <1>1, NextTurnType DEF GmAdvances, IsActive, TypeOK, States
<1>2. CASE GmEndsOrBegins
  <2>1. log' \in Seq({None} \cup States) /\ mirror \in DOMAIN log'
    <3>1. CASE World # None /\ Becomes(None)
      BY <3>1, AppendType
    <3>2. CASE World = None /\ \E f \in {1 + Cardinality(FightsSeen)} : f <= MaxFights /\ Becomes(Fight(f, 0, 0))
      <4>1. 1 + Cardinality(FightsSeen) <= MaxFights /\ Becomes(Fight(1 + Cardinality(FightsSeen), 0, 0))
        BY <3>2
      <4>2. Cardinality(FightsSeen) \in Nat
        BY FightsFinite
      <4>3. Fight(1 + Cardinality(FightsSeen), 0, 0) \in States
        BY <4>1, <4>2, OrderLength, MovementAssumption DEF Fight, States
      <4>4. QED
        BY <4>1, <4>3, AppendType
    <3>3. CASE World # None /\ World.round = 0 /\ Becomes(Fight(World.fight, 1, 0))
      <4>1. Fight(World.fight, 1, 0) \in States
        BY <3>3, ShownType, OrderLength, MovementAssumption DEF Fight, States
      <4>2. QED
        BY <3>3, <4>1, AppendType
    <3>4. QED
      BY <1>2, <3>1, <3>2, <3>3 DEF GmEndsOrBegins, FightsSeen
  <2>2. QED
    BY <1>2, <2>1 DEF GmEndsOrBegins, TypeOK, States
<1>3. QED
  BY <1>1, <1>2

LEMMA StageType ==
  ASSUME TypeOK, NEW s \in Slots,
         \/ SceneRead(s) \/ ReadFails(s) \/ MoveGivenUp(s) \/ LateLost(s) \/ EndAnswered(s) \/ EndGivenUp(s)
         \/ \E a \in Players, c \in Cells : MoveAsked(s, a, c)
  PROVE  TypeOK'
<1>1. req' \in [Slots -> Requests \cup {None}]
  <2>1. CASE SceneRead(s)
    <3>1. [req[s] EXCEPT !.stage = "read", !.seen = pos] \in Requests
      BY <2>1, RequestType DEF SceneRead, At, Requests, TypeOK
    <3>2. QED
      BY <2>1, <3>1, BecomingType DEF SceneRead
  <2>2. CASE ReadFails(s) \/ LateLost(s) \/ EndAnswered(s)
    BY <2>2, BecomingType DEF ReadFails, LateLost, EndAnswered
  <2>3. CASE MoveGivenUp(s)
    <3>1. req[s].stage = "sent" => [req[s] EXCEPT !.stage = "late"] \in Requests
      BY <2>3, RequestType DEF MoveGivenUp, At, Requests
    <3>2. QED
      BY <2>3, <3>1, BecomingType DEF MoveGivenUp
  <2>4. CASE EndGivenUp(s)
    <3>1. [req[s] EXCEPT !.stage = "endLate"] \in Requests
      BY <2>4, RequestType DEF EndGivenUp, At, Requests
    <3>2. QED
      BY <2>4, <3>1, BecomingType DEF EndGivenUp
  <2>5. CASE \E a \in Players, c \in Cells : MoveAsked(s, a, c)
    <3>1. PICK a \in Players, c \in Cells : MoveAsked(s, a, c)
      BY <2>5
    <3>2. Request("asked", a, c, None, None) \in Requests
      BY DEF Request, Requests
    <3>3. QED
      BY <3>1, <3>2, BecomingType DEF MoveAsked
  <2>6. QED
    BY <2>1, <2>2, <2>3, <2>4, <2>5
<1>2. UNCHANGED <<calm, log, mirror, pos, budget, walked, dashes, ended>>
  BY DEF SceneRead, ReadFails, MoveGivenUp, LateLost, EndAnswered, EndGivenUp, MoveAsked
<1>3. QED
  BY <1>1, <1>2 DEF TypeOK

LEMMA CheckedType ==
  ASSUME TypeOK, NEW s \in Slots, MoveChecked(s)
  PROVE  TypeOK'
<1> DEFINE r == req[s]
           sent == [r EXCEPT !.stage = "sent", !.key = IF InCombat(r.of) THEN Key(r.of) ELSE None]
<1>1. r \in [stage : {"read"}, of : Players, to : Cells, seen : [Actors -> Cells], key : {None}]
      /\ r.of \in Actors
  BY RequestType DEF MoveChecked, At
<1>2. (IF InCombat(r.of) THEN Key(r.of) ELSE None) \in Keys \cup {None}
  BY <1>1, KeyType DEF InCombat
<1>3. sent \in Requests
  BY <1>1, <1>2 DEF Requests
<1>4. Becoming(s, None) \/ Becoming(s, sent)
  BY DEF MoveChecked
<1>5. req' \in [Slots -> Requests \cup {None}]
  BY <1>3, <1>4, BecomingType
<1>6. IsBudget(budget')
  BY AccessedType DEF MoveChecked
<1>7. QED
  BY <1>5, <1>6 DEF MoveChecked, TypeOK, IsBudget

LEMMA ExecutedType ==
  ASSUME TypeOK, NEW s \in Slots, MoveExecuted(s)
  PROVE  TypeOK'
<1> DEFINE r == req[s]
<1>1. r \in [stage : {"sent", "moved", "late"}, of : Players, to : Cells, seen : [Actors -> Cells],
             key : Keys \cup {None}] /\ r.of \in Actors
  BY RequestType DEF MoveExecuted, At
<1>2. MoveCost(r.of, r.seen, r.to) \in Nat
  BY <1>1, CostNat
<1>3. walked' \in [Keys -> Nat]
  <2>1. CASE r.key = None
    BY <2>1 DEF MoveExecuted, TypeOK
  <2>2. CASE r.key # None
    <3>1. r.key \in Keys /\ walked[r.key] \in Nat
      BY <1>1, <2>2 DEF TypeOK
    <3>2. walked' = [walked EXCEPT ![r.key] = walked[r.key] + MoveCost(r.of, r.seen, r.to)]
      BY <2>2 DEF MoveExecuted
    <3>3. QED
      BY <1>2, <3>1, <3>2 DEF TypeOK
  <2>3. QED
    BY <2>1, <2>2
<1>4. [r EXCEPT !.stage = "moved"] \in Requests
  BY <1>1 DEF Requests
<1>5. req' \in [Slots -> Requests \cup {None}]
  BY <1>4, BecomingType DEF MoveExecuted
<1>6. pos' \in [Actors -> Cells]
  BY <1>1 DEF MoveExecuted, TypeOK
<1>7. QED
  BY <1>3, <1>5, <1>6 DEF MoveExecuted, TypeOK

LEMMA AnsweredType ==
  ASSUME TypeOK, NEW s \in Slots, MoveAnswered(s)
  PROVE  TypeOK'
<1> DEFINE r == req[s]
           charged == IF r.key = None THEN budget ELSE AddMove(budget, r.key, MoveCost(r.of, r.seen, r.to))
<1>1. r \in [stage : {"sent", "moved", "late"}, of : Players, to : Cells, seen : [Actors -> Cells],
             key : Keys \cup {None}] /\ r.of \in Actors
  BY RequestType DEF MoveAnswered, At
<1>2. MoveCost(r.of, r.seen, r.to) \in Nat
  BY <1>1, CostNat
<1>3. IsBudget(budget)
  BY DEF TypeOK, IsBudget
<1>4. IsBudget(charged)
  BY <1>1, <1>2, <1>3, AddMoveType
<1>5. budget' = IF InCombat(r.of) THEN Prune(charged) ELSE charged
  BY DEF MoveAnswered
<1> HIDE DEF charged
<1>6. IsBudget(budget')
  BY <1>4, <1>5, PruneType
<1>7. req' \in [Slots -> Requests \cup {None}]
  BY BecomingType DEF MoveAnswered
<1>8. QED
  BY <1>6, <1>7 DEF MoveAnswered, TypeOK, IsBudget

LEMMA DashType ==
  ASSUME TypeOK, NEW a \in Players, Dash(a) \/ GetMovement(a)
  PROVE  TypeOK'
<1>1. CASE GetMovement(a)
  <2>1. IsBudget(budget) /\ budget' = Prune(budget)
    BY <1>1 DEF TypeOK, IsBudget, GetMovement
  <2>2. IsBudget(budget')
    BY <2>1, PruneType
  <2>3. QED
    BY <1>1, <2>2 DEF GetMovement, TypeOK, IsBudget
<1>2. CASE Dash(a)
  <2> DEFINE b == Accessed(a)  key == Key(a)
  <2>1. IsBudget(b)
    BY AccessedType
  <2>2. key \in Keys
    BY <1>2, KeyType, MovementAssumption DEF Dash, InCombat
  <2> HIDE DEF b, key
  <2>3. [State(b, key) EXCEPT !.dashed = TRUE] \in [movedFt : Nat, dashed : BOOLEAN]
    BY <2>1, StateType
  <2>4. IsBudget(Put(b, key, [State(b, key) EXCEPT !.dashed = TRUE]))
    BY <2>1, <2>2, <2>3, PutType
  <2>5. IsBudget(budget')
    BY <1>2, <2>1, <2>4 DEF Dash, b, key
  <2>6. dashes' \in [Keys -> Nat]
    <3>1. dashes[key] \in Nat
      BY <2>2 DEF TypeOK
    <3>2. dashes' = dashes \/ dashes' = [dashes EXCEPT ![key] = dashes[key] + 1]
      BY <1>2 DEF Dash, b, key
    <3>3. QED
      BY <3>1, <3>2 DEF TypeOK
  <2>7. QED
    BY <1>2, <2>5, <2>6 DEF Dash, TypeOK, IsBudget
<1>3. QED
  BY <1>1, <1>2

LEMMA EndType ==
  ASSUME TypeOK, NEW s \in Slots, EndExecuted(s) \/ \E a \in Players : EndAsked(s, a)
  PROVE  TypeOK'
<1>1. CASE EndExecuted(s)
  <2> DEFINE r == req[s]
  <2>1. r \in [stage : {"ending", "ended", "endLate"}, of : Players, to : {None}, seen : {None}, key : Keys]
        /\ r.of \in Actors
    BY <1>1, RequestType DEF EndExecuted, At
  <2>2. log' \in Seq({None} \cup States) /\ mirror \in DOMAIN log'
    <3>1. CASE Acting(World) = r.of /\ World.fight = r.key.fight
      <4>1. World # None
        BY <2>1, <3>1, MovementAssumption DEF Acting, IsActive
      <4>2. QED
        BY <1>1, <3>1, <4>1, NextTurnType DEF EndExecuted
    <3>2. CASE ~(Acting(World) = r.of /\ World.fight = r.key.fight)
      BY <1>1, <3>2 DEF EndExecuted, TypeOK, States
    <3>3. QED
      BY <3>1, <3>2
  <2>3. [r EXCEPT !.stage = "ended"] \in Requests
    BY <2>1 DEF Requests
  <2>4. req' \in [Slots -> Requests \cup {None}]
    BY <1>1, <2>3, BecomingType DEF EndExecuted
  <2>5. ended' \subseteq Nat \X Players
    BY <1>1, <2>1, ShownType DEF EndExecuted, TypeOK
  <2>6. QED
    BY <1>1, <2>2, <2>4, <2>5 DEF EndExecuted, TypeOK, States
<1>2. CASE \E a \in Players : EndAsked(s, a)
  <2>1. PICK a \in Players : EndAsked(s, a)
    BY <1>2
  <2>2. IsActive(Shown)
    BY <2>1, MovementAssumption DEF EndAsked, YourTurn, Acting
  <2>3. Request("ending", a, None, None, Key(a)) \in Requests
    BY <2>2, KeyType, MovementAssumption DEF Request, Requests
  <2>4. req' \in [Slots -> Requests \cup {None}]
    BY <2>1, <2>3, BecomingType DEF EndAsked
  <2>5. QED
    BY <2>1, <2>4 DEF EndAsked, TypeOK
<1>3. QED
  BY <1>1, <1>2

LEMMA NextType == TypeOK /\ [Next]_vars => TypeOK'
<1> SUFFICES ASSUME TypeOK, [Next]_vars PROVE TypeOK'
  OBVIOUS
<1>1. CASE GmAdvances \/ GmEndsOrBegins
  BY <1>1, GmType
<1>2. CASE \E n \in DOMAIN log : MirrorShows(n)
  BY <1>2 DEF MirrorShows, TypeOK
<1>3. ASSUME NEW s \in Slots,
             \/ SceneRead(s) \/ ReadFails(s) \/ MoveGivenUp(s) \/ LateLost(s) \/ EndAnswered(s) \/ EndGivenUp(s)
             \/ \E a \in Players, c \in Cells : MoveAsked(s, a, c)
      PROVE TypeOK'
  BY <1>3, StageType
<1>4. ASSUME NEW s \in Slots, MoveChecked(s) \/ MoveExecuted(s) \/ MoveAnswered(s)
      PROVE TypeOK'
  BY <1>4, CheckedType, ExecutedType, AnsweredType
<1>5. ASSUME NEW s \in Slots, EndExecuted(s) \/ \E a \in Players : EndAsked(s, a)
      PROVE TypeOK'
  BY <1>5, EndType
<1>6. ASSUME NEW a \in Players, Dash(a) \/ GetMovement(a)
      PROVE TypeOK'
  BY <1>6, DashType
<1>7. CASE UNCHANGED vars
  BY <1>7 DEF vars, TypeOK
<1>8. QED
  BY <1>1, <1>2, <1>3, <1>4, <1>5, <1>6, <1>7 DEF Next, Foundry, Gateway

\* The routes and the fight never leave their types, whatever is given up
\* or comes late.
THEOREM TypeCorrect == Spec => []TypeOK
BY InitType, NextType, PTL DEF Spec

----------------------------------------------------------------------------
(* Whose turn it is.                                                       *)

\* Which slots a step touches.
LEMMA OneSlot ==
  ASSUME TypeOK, NEW s \in Slots, NEW t \in Slots, t # s, NEW r, Becoming(s, r)
  PROVE  req'[t] = req[t]
BY DEF Becoming, TypeOK

\* A request is sent to the relay by the check of its speed only.
LEMMA SentByCheck ==
  ASSUME TypeOK, Next, NEW s \in Slots, At(s, "read"), req'[s] # None, req'[s].stage = "sent"
  PROVE  MoveChecked(s)
<1>1. req[s].stage = "read"
  BY DEF At
<1>2. req' # req
  BY <1>1
<1>3. PICK t \in Slots :
        \/ SceneRead(t) \/ ReadFails(t) \/ MoveChecked(t) \/ MoveAnswered(t) \/ MoveGivenUp(t)
        \/ EndAnswered(t) \/ EndGivenUp(t) \/ MoveExecuted(t) \/ EndExecuted(t) \/ LateLost(t)
        \/ \E a \in Players : EndAsked(t, a) \/ \E c \in Cells : MoveAsked(t, a, c)
  BY <1>2 DEF Next, Foundry, Gateway, GmAdvances, GmEndsOrBegins, MirrorShows, GetMovement, Dash
<1>4. \E r : Becoming(t, r)
  BY <1>3 DEF SceneRead, ReadFails, MoveChecked, MoveAnswered, MoveGivenUp, EndAnswered, EndGivenUp,
     MoveExecuted, EndExecuted, LateLost, EndAsked, MoveAsked
<1>5. t = s
  BY <1>1, <1>4, OneSlot
<1>6. ReadFails(s) \/ MoveChecked(s)
  BY <1>1, <1>3, <1>5 DEF At, SceneRead, MoveAnswered, MoveGivenUp, EndAnswered, EndGivenUp,
     MoveExecuted, EndExecuted, LateLost, EndAsked, MoveAsked
<1>7. ~ReadFails(s)
  BY DEF ReadFails, Becoming, TypeOK
<1>8. QED
  BY <1>6, <1>7

\* A dash is granted to the one whose route was called.
LEMMA DashedByDash ==
  ASSUME TypeOK, Next, NEW k \in Keys, dashes'[k] > dashes[k]
  PROVE  Dash(k.of) /\ k.of \in Players
<1>1. dashes' # dashes
  BY DEF TypeOK
<1>2. PICK a \in Players : Dash(a)
  BY <1>1 DEF Next, Foundry, Gateway, GmAdvances, GmEndsOrBegins, MirrorShows, GetMovement,
     SceneRead, ReadFails, MoveChecked, MoveAnswered, MoveGivenUp, EndAnswered, EndGivenUp,
     MoveExecuted, EndExecuted, LateLost, EndAsked, MoveAsked
<1>3. dashes' = [dashes EXCEPT ![Key(a)] = @ + 1]
  BY <1>1, <1>2 DEF Dash
<1>4. k = Key(a)
  BY <1>3 DEF TypeOK
<1>5. QED
  BY <1>2, <1>4 DEF Key

LEMMA InTurnStep ==
  ASSUME TypeOK, [Next]_vars, NEW a \in Players,
         \/ \E s \in Slots : At(s, "read") /\ req[s].of = a /\ req'[s] # None /\ req'[s].stage = "sent"
         \/ \E k \in Keys : k.of = a /\ dashes'[k] > dashes[k]
  PROVE  Acting(Shown) = a \/ ~IsActive(Shown) \/ a \notin Fighters \ Unseen
<1>1. Next
  <2>1. \A s \in Slots : At(s, "read") => req[s].stage # "sent"
    BY DEF At
  <2>2. \A k \in Keys : ~(dashes[k] > dashes[k])
    BY DEF TypeOK
  <2>3. QED
    BY <2>1, <2>2 DEF vars
<1>2. CASE \E s \in Slots : At(s, "read") /\ req[s].of = a /\ req'[s] # None /\ req'[s].stage = "sent"
  <2>1. PICK s \in Slots : At(s, "read") /\ req[s].of = a /\ req'[s] # None /\ req'[s].stage = "sent"
    BY <1>2
  <2>2. MoveChecked(s)
    BY <1>1, <2>1, SentByCheck
  <2>3. InCombat(a) => YourTurn(a)
    <3>1. req'[s] # None => (InCombat(req[s].of) => YourTurn(req[s].of))
      BY <2>2 DEF MoveChecked, Becoming, TypeOK
    <3>2. QED
      BY <2>1, <3>1
  <2>4. QED
    BY <2>3 DEF InCombat, YourTurn
<1>3. CASE \E k \in Keys : k.of = a /\ dashes'[k] > dashes[k]
  <2>1. Dash(a)
    BY <1>1, <1>3, DashedByDash
  <2>2. QED
    BY <2>1 DEF Dash, YourTurn
<1>4. QED
  BY <1>2, <1>3

\* In a fight nobody moves or dashes out of turn, for every order of the
\* initiative and whatever the GM hides (combatMoveContext).
THEOREM TurnsAreKept == Spec => OnlyInTurn
<1>1. TypeOK /\ [Next]_vars =>
        [\A a \in Players :
           \/ \E s \in Slots : /\ At(s, "read") /\ req[s].of = a
                              /\ req'[s] # None /\ req'[s].stage = "sent"
           \/ \E k \in Keys : k.of = a /\ dashes'[k] > dashes[k]
           => \/ Acting(Shown) = a
              \/ ~IsActive(Shown) \/ a \notin Fighters \ Unseen]_vars
  BY InTurnStep
<1>2. QED
  BY <1>1, TypeCorrect, PTL DEF Spec, OnlyInTurn

----------------------------------------------------------------------------
(* The speed.  A round of a fight that the mirror has left is never shown  *)
(* again in a calm behaviour, so a key that is on show has in the budget   *)
(* what was walked under it, but for a move whose answer is under way, and *)
(* what is sent fits into what is left.                                    *)

\* The fights follow one another, and the rounds in each.
LogOrdered ==
    /\ \A i, j \in DOMAIN log : i < j /\ log[i] # None /\ log[j] # None =>
         log[i].fight < log[j].fight \/ (log[i].fight = log[j].fight /\ log[i].round <= log[j].round)
    /\ \A i, m, j \in DOMAIN log :
         i < m /\ m < j /\ log[i] # None /\ log[m] = None /\ log[j] # None => log[i].fight < log[j].fight
    /\ \E n \in Nat : FightsSeen = 1..n

OnShow(k) == Shown # None /\ Shown.fight = k.fight /\ Shown.round = k.round
Reached(k) == \E i \in 1..mirror : log[i] # None /\ log[i].fight = k.fight /\ log[i].round = k.round

\* A move of slot s under key k is where `stage' says, and what it costs.
Pending(s, stage, k) == req[s] # None /\ req[s].stage = stage /\ req[s].key = k /\ k # None
Cost(s) == MoveCost(req[s].of, req[s].seen, req[s].to)

Going == {"sent", "moved", "late"}

NoLate == \A s \in Slots : req[s] # None => req[s].stage # "late"
OneMove == \A s, t \in Moving : req[s].of = req[t].of => s = t
KeyIsOwn == \A s \in Slots, k \in Keys : Pending(s, "sent", k) \/ Pending(s, "moved", k) => k.of = req[s].of
UsedIsReached ==
    \A k \in Keys :
        \/ walked[k] # 0 \/ dashes[k] # 0 \/ k \in DOMAIN budget
        \/ \E s \in Slots : Pending(s, "sent", k) \/ Pending(s, "moved", k)
        => Reached(k)
SentFits ==
    \A s \in Slots, k \in Keys :
        Pending(s, "sent", k) => walked[k] + Cost(s) <= SpeedFt * (1 + dashes[k])
Fits == \A k \in Keys : walked[k] <= SpeedFt * (1 + dashes[k])
DashKnown == \A k \in Keys : OnShow(k) => dashes[k] = IF State(budget, k).dashed THEN 1 ELSE 0
SpentKnown ==
    \A k \in Keys : OnShow(k) /\ (\A s \in Slots : ~Pending(s, "moved", k)) =>
        State(budget, k).movedFt = walked[k]
AnswerComes ==
    \A k \in Keys, s \in Slots : OnShow(k) /\ Pending(s, "moved", k) =>
        State(budget, k).movedFt + Cost(s) = walked[k]

Ledger ==
    /\ NoLate /\ OneMove /\ KeyIsOwn /\ UsedIsReached
    /\ SentFits /\ Fits /\ DashKnown /\ SpentKnown /\ AnswerComes

LEMMA FightsBound ==
  ASSUME TypeOK, NEW n \in Nat, FightsSeen = 1..n, NEW i \in DOMAIN log, log[i] # None
  PROVE  log[i].fight \in 1..n
BY DEF FightsSeen

\* A state put after the last keeps the order, if it goes on with the last
\* fight or begins a new one.
LEMMA OrderedAppend ==
  ASSUME TypeOK, LogOrdered, NEW f \in States, Becomes(f),
         \/ World # None /\ f.fight = World.fight /\ World.round <= f.round
         \/ World = None /\ \A n \in Nat : FightsSeen = 1..n => f.fight = n + 1
  PROVE  LogOrdered'
<1>1. log \in Seq(States \cup {None}) /\ log' = Append(log, f)
  BY DEF TypeOK, States, Becomes
<1>2. DOMAIN log = 1..Len(log) /\ Len(log) \in Nat \ {0} /\ DOMAIN log' = 1..(Len(log) + 1)
  BY <1>1, ShownType
<1>3. /\ \A i \in DOMAIN log : log'[i] = log[i]
      /\ log'[Len(log) + 1] = f
  BY <1>1, <1>2
<1>4. PICK n \in Nat : FightsSeen = 1..n
  BY DEF LogOrdered
<1>5. \A i \in DOMAIN log : log[i] # None => log[i] \in States /\ log[i].fight \in 1..n
  BY <1>1, <1>4, FightsBound
<1>6. \A i \in DOMAIN log : log[i] # None =>
        log[i].fight < f.fight \/ (log[i].fight = f.fight /\ log[i].round <= f.round)
  <2>1. CASE World = None
    BY <1>4, <1>5, <2>1
  <2>2. CASE World # None
    <3>1. f.fight = World.fight /\ World.round <= f.round /\ World = log[Len(log)] /\ World \in States
      BY <1>2, <1>5, <2>2 DEF World
    <3>2. SUFFICES ASSUME NEW i \in DOMAIN log, log[i] # None
                   PROVE  log[i].fight < f.fight \/ (log[i].fight = f.fight /\ log[i].round <= f.round)
      OBVIOUS
    <3>3. log[i] \in States /\ f \in States /\ World \in States
      BY <1>5, <3>1, <3>2
    <3>4. i = Len(log) \/ log[i].fight < World.fight \/ (log[i].fight = World.fight /\ log[i].round <= World.round)
      <4>1. i \in 1..Len(log) /\ Len(log) \in DOMAIN log /\ log[Len(log)] # None
        BY <1>2, <2>2, <3>1
      <4>2. i = Len(log) \/ i < Len(log)
        BY <1>2, <4>1
      <4>3. i < Len(log) => log[i].fight < log[Len(log)].fight
              \/ (log[i].fight = log[Len(log)].fight /\ log[i].round <= log[Len(log)].round)
        BY <4>1, <3>2 DEF LogOrdered
      <4>4. QED
        BY <4>2, <4>3, <3>1
    <3>5. QED
      <4>1. /\ log[i].fight \in Int /\ log[i].round \in Int /\ f.fight \in Int /\ f.round \in Int
            /\ World.fight \in Int /\ World.round \in Int
        BY <3>3, MovementAssumption DEF States
      <4>2. QED
        BY <3>1, <3>4, <4>1
  <2>3. QED
    BY <2>1, <2>2
<1>7. \A i, m \in DOMAIN log : i < m /\ log[i] # None /\ log[m] = None => log[i].fight < f.fight
  <2>1. CASE World = None
    BY <1>4, <1>5, <2>1
  <2>2. CASE World # None
    <3>1. f.fight = World.fight /\ World = log[Len(log)]
      BY <2>2 DEF World
    <3>2. \A m \in DOMAIN log : log[m] = None => m < Len(log)
      BY <1>2, <2>2, <3>1
    <3>3. QED
      BY <1>2, <2>2, <3>1, <3>2 DEF LogOrdered
  <2>3. QED
    BY <2>1, <2>2
<1>8. \A i, j \in DOMAIN log' : i < j /\ log'[i] # None /\ log'[j] # None =>
        log'[i].fight < log'[j].fight \/ (log'[i].fight = log'[j].fight /\ log'[i].round <= log'[j].round)
  BY <1>2, <1>3, <1>6 DEF LogOrdered
<1>9. \A i, m, j \in DOMAIN log' :
        i < m /\ m < j /\ log'[i] # None /\ log'[m] = None /\ log'[j] # None => log'[i].fight < log'[j].fight
  BY <1>2, <1>3, <1>7 DEF LogOrdered
<1>10. \E l \in Nat : FightsSeen' = 1..l
  <2>1. f # None \/ f = None
    OBVIOUS
  <2>2. CASE f = None
    <3>1. FightsSeen' = FightsSeen
      BY <1>2, <1>3, <2>2 DEF FightsSeen
    <3>2. QED
      BY <1>4, <3>1
  <2>3. CASE f # None
    <3>1. FightsSeen' = FightsSeen \cup {f.fight}
      BY <1>2, <1>3, <2>3 DEF FightsSeen
    <3>2. CASE World = None
      <4>1. FightsSeen' = 1..(n + 1)
        BY <1>4, <3>1, <3>2
      <4>2. QED
        BY <4>1
    <3>3. CASE World # None
      <4>1. World = log[Len(log)] /\ Len(log) \in DOMAIN log
        BY <1>2 DEF World
      <4>2. f.fight \in FightsSeen
        BY <3>3, <4>1 DEF FightsSeen
      <4>3. QED
        BY <1>4, <3>1, <4>2
    <3>4. QED
      BY <3>2, <3>3
  <2>4. QED
    BY <2>2, <2>3
<1>11. QED
  BY <1>8, <1>9, <1>10 DEF LogOrdered

LEMMA OrderedNone ==
  ASSUME TypeOK, LogOrdered, Becomes(None)
  PROVE  LogOrdered'
<1>1. log \in Seq(States \cup {None}) /\ log' = Append(log, None)
  BY DEF TypeOK, States, Becomes
<1>2. DOMAIN log = 1..Len(log) /\ Len(log) \in Nat /\ DOMAIN log' = 1..(Len(log) + 1)
  BY <1>1
<1>3. /\ \A i \in DOMAIN log : log'[i] = log[i]
      /\ log'[Len(log) + 1] = None
  BY <1>1, <1>2
<1>4. FightsSeen' = FightsSeen
  BY <1>2, <1>3 DEF FightsSeen
<1>5. QED
  BY <1>2, <1>3, <1>4 DEF LogOrdered

LEMMA OrderedNextTurn ==
  ASSUME TypeOK, LogOrdered, NextTurn, World # None
  PROVE  LogOrdered'
<1>1. World \in States
  BY ShownType
<1> DEFINE last == World.turn + 1 = Len(Order)
           next == IF last THEN Fight(World.fight, World.round + 1, 0)
                   ELSE Fight(World.fight, World.round, World.turn + 1)
<1>2. Becomes(next) /\ (last => World.round < MaxRounds)
  BY DEF NextTurn
<1>3. next \in States /\ next.fight = World.fight /\ World.round <= next.round
  BY <1>1, <1>2, OrderLength, MovementAssumption DEF States, Fight
<1> HIDE DEF next, last
<1>4. QED
  BY <1>2, <1>3, OrderedAppend

LEMMA OrderedInit == Init => LogOrdered
<1> SUFFICES ASSUME Init PROVE LogOrdered
  OBVIOUS
<1>1. CASE log = <<None>>
  <2>1. FightsSeen = 1..0
    BY <1>1 DEF FightsSeen
  <2>2. QED
    BY <1>1, <2>1 DEF LogOrdered
<1>2. CASE log = <<Fight(1, 1, 0)>>
  <2>1. DOMAIN log = {1} /\ log[1] = Fight(1, 1, 0)
    BY <1>2
  <2>2. FightsSeen = 1..0 \/ FightsSeen = 1..1
    BY <2>1 DEF FightsSeen, Fight
  <2>3. \A i, j \in DOMAIN log : ~(i < j)
    BY <2>1
  <2>4. QED
    BY <2>2, <2>3 DEF LogOrdered
<1>3. QED
  BY <1>1, <1>2 DEF Init

LEMMA OrderedNext ==
  ASSUME TypeOK, LogOrdered, [Next]_vars
  PROVE  LogOrdered'
<1>1. CASE log' = log
  BY <1>1 DEF LogOrdered, FightsSeen
<1>2. CASE log' # log /\ GmAdvances
  BY <1>2, OrderedNextTurn DEF GmAdvances, IsActive
<1>3. CASE log' # log /\ GmEndsOrBegins
  <2>1. CASE World # None /\ Becomes(None)
    BY <2>1, OrderedNone
  <2>2. CASE World = None /\ \E f \in {1 + Cardinality(FightsSeen)} : f <= MaxFights /\ Becomes(Fight(f, 0, 0))
    <3>1. PICK n \in Nat : FightsSeen = 1..n
      BY DEF LogOrdered
    <3>2. Cardinality(FightsSeen) = n
      BY <3>1, FS_Interval
    <3>3. Becomes(Fight(n + 1, 0, 0)) /\ n + 1 <= MaxFights
      BY <2>2, <3>2
    <3>4. Fight(n + 1, 0, 0) \in States
      BY <3>3, OrderLength, MovementAssumption DEF Fight, States
    <3>5. \A l \in Nat : FightsSeen = 1..l => l = n
      BY <3>2, FS_Interval
    <3>6. Fight(n + 1, 0, 0).fight = n + 1
      BY DEF Fight
    <3>7. QED
      BY <2>2, <3>3, <3>4, <3>5, <3>6, OrderedAppend
  <2>3. CASE World # None /\ World.round = 0 /\ Becomes(Fight(World.fight, 1, 0))
    <3>1. Fight(World.fight, 1, 0) \in States
      BY <2>3, ShownType, OrderLength, MovementAssumption DEF Fight, States
    <3>2. Fight(World.fight, 1, 0).fight = World.fight /\ World.round <= Fight(World.fight, 1, 0).round
      BY <2>3 DEF Fight
    <3>3. QED
      BY <2>3, <3>1, <3>2, OrderedAppend
  <2>4. QED
    BY <1>3, <2>1, <2>2, <2>3 DEF GmEndsOrBegins, FightsSeen
<1>4. CASE log' # log /\ \E s \in Slots : EndExecuted(s)
  <2>1. PICK s \in Slots : EndExecuted(s)
    BY <1>4
  <2>2. Acting(World) = req[s].of /\ NextTurn
    BY <1>4, <2>1 DEF EndExecuted
  <2>3. World # None
    BY <2>1, <2>2, RequestType, MovementAssumption DEF EndExecuted, At, Acting, IsActive
  <2>4. QED
    BY <2>2, <2>3, OrderedNextTurn
<1>5. QED
  BY <1>1, <1>2, <1>3, <1>4 DEF Next, Foundry, Gateway, MirrorShows, GetMovement, Dash, vars,
     SceneRead, ReadFails, MoveChecked, MoveAnswered, MoveGivenUp, EndAnswered, EndGivenUp,
     MoveExecuted, LateLost, EndAsked, MoveAsked

\* Pruning keeps what is on show.
LEMMA PruneKeeps ==
  ASSUME NEW b, NEW k, OnShow(k)
  PROVE  State(Prune(b), k) = State(b, k)
BY DEF OnShow, State, Prune

LEMMA PruneShrinks ==
  ASSUME NEW b
  PROVE  DOMAIN Prune(b) \subseteq DOMAIN b
BY DEF Prune

LEMMA AccessedKeeps ==
  ASSUME NEW a
  PROVE  /\ DOMAIN Accessed(a) \subseteq DOMAIN budget
         /\ \A k : OnShow(k) => State(Accessed(a), k) = State(budget, k)
BY PruneKeeps, PruneShrinks DEF Accessed

\* A step that touches no move at the relay, walks nothing, grants no dash and
\* at most prunes the budget keeps the ledger.
LEMMA Frame ==
  ASSUME TypeOK, Ledger, mirror' = mirror, \A i \in 1..mirror : log'[i] = log[i],
         walked' = walked, dashes' = dashes, budget' = budget \/ budget' = Prune(budget),
         \A t \in Slots :
            \/ req'[t] = req[t]
            \/ /\ req[t] = None \/ req[t].stage \notin Going
               /\ req'[t] = None \/ req'[t].stage \notin Going,
         OneMove'
  PROVE  Ledger'
<1>1. mirror \in 1..mirror
  BY DEF TypeOK
<1>2. Shown' = Shown
  BY <1>1 DEF Shown
<1>3. \A k : OnShow(k)' <=> OnShow(k)
  BY <1>2 DEF OnShow
<1>4. \A k : Reached(k)' <=> Reached(k)
  BY DEF Reached
<1>5. \A t \in Slots, k \in Keys : Pending(t, "sent", k)' <=> Pending(t, "sent", k)
  BY DEF Pending, Going
<1>6. \A t \in Slots, k \in Keys : Pending(t, "moved", k)' <=> Pending(t, "moved", k)
  BY DEF Pending, Going
<1>7. \A t \in Slots, k \in Keys :
        Pending(t, "sent", k) \/ Pending(t, "moved", k) => req'[t] = req[t]
  BY DEF Pending, Going
<1>8. \A t \in Slots, k \in Keys :
        Pending(t, "sent", k) \/ Pending(t, "moved", k) => Cost(t)' = Cost(t)
  BY <1>7 DEF Cost, MoveCost, Chebyshev
<1>9. DOMAIN budget' \subseteq DOMAIN budget /\ \A k : OnShow(k) => State(budget, k)' = State(budget, k)
  <2>1. CASE budget' = budget
    BY <2>1 DEF State
  <2>2. CASE budget' = Prune(budget)
    BY <2>2, PruneKeeps, PruneShrinks DEF State
  <2>3. QED
    BY <2>1, <2>2
<1> HIDE DEF Pending, Cost, OnShow, Reached, State
<1>10. NoLate'
  BY DEF Ledger, NoLate, Going
<1>11. KeyIsOwn'
  BY <1>5, <1>6, <1>7 DEF Ledger, KeyIsOwn
<1>12. UsedIsReached'
  BY <1>4, <1>5, <1>6, <1>9 DEF Ledger, UsedIsReached
<1>13. SentFits' /\ Fits'
  BY <1>5, <1>8 DEF Ledger, SentFits, Fits
<1>14. DashKnown'
  BY <1>3, <1>9 DEF Ledger, DashKnown
<1>15. SpentKnown' /\ AnswerComes'
  BY <1>3, <1>6, <1>8, <1>9 DEF Ledger, SpentKnown, AnswerComes
<1>16. QED
  BY <1>10, <1>11, <1>12, <1>13, <1>14, <1>15 DEF Ledger

\* A request that does not move, or goes on moving for the same actor, leaves
\* one move to each.
LEMMA OneMoveKept ==
  ASSUME TypeOK, OneMove, NEW s \in Slots, NEW r \in Requests \cup {None}, Becoming(s, r),
         \/ r = None \/ r.stage \in {"ending", "ended", "endLate"}
         \/ s \in Moving /\ r.of = req[s].of
  PROVE  OneMove'
<1>1. \A t \in Slots : t # s => req'[t] = req[t]
  BY OneSlot
<1>2. req'[s] = r
  BY DEF Becoming, TypeOK
<1>3. QED
  BY <1>1, <1>2 DEF OneMove, Moving

\* The mirror moves on: to another state of the round on show, or to a round
\* no key of which was used.
LEMMA LedgerMirror ==
  ASSUME TypeOK, LogOrdered, calm, Ledger, NEW n \in DOMAIN log, MirrorShows(n)
  PROVE  Ledger'
<1>1. mirror' = n /\ mirror < n /\ mirror \in 1..n /\ UNCHANGED <<log, budget, req, walked, dashes>>
  BY DEF MirrorShows, TypeOK
<1>2. \A t \in Slots, k \in Keys : Pending(t, "sent", k)' <=> Pending(t, "sent", k)
  BY <1>1 DEF Pending
<1>3. \A t \in Slots, k \in Keys : Pending(t, "moved", k)' <=> Pending(t, "moved", k)
  BY <1>1 DEF Pending
<1>4. \A t \in Slots : Cost(t)' = Cost(t)
  BY <1>1 DEF Cost, MoveCost, Chebyshev
<1>5. \A k : State(budget, k)' = State(budget, k)
  BY <1>1 DEF State
<1>6. \A k \in Keys : Reached(k) => Reached(k)'
  <2>1. n \in Int /\ mirror \in Int /\ 1..mirror \subseteq 1..n
    BY <1>1 DEF TypeOK
  <2>2. QED
    BY <1>1, <2>1 DEF Reached
<1>7. ASSUME NEW k \in Keys, OnShow(k)', Reached(k)
      PROVE  OnShow(k)
  <2>1. log[n] # None /\ log[n].fight = k.fight /\ log[n].round = k.round
    BY <1>1, <1>7 DEF OnShow, Shown
  <2>2. PICK i \in 1..mirror : log[i] # None /\ log[i].fight = k.fight /\ log[i].round = k.round
    BY <1>7 DEF Reached
  <2>3. i \in DOMAIN log /\ mirror \in DOMAIN log /\ i < n /\ i <= mirror /\ i \in Int /\ mirror \in Int
    BY <1>1 DEF TypeOK
  <2>4. \A j \in DOMAIN log : log[j] # None => log[j].fight \in Int /\ log[j].round \in Int
    <3>1. \A j \in DOMAIN log : log[j] \in States \cup {None}
      BY DEF TypeOK, States
    <3>2. QED
      BY <3>1, MovementAssumption DEF States
  <2>5. CASE i = mirror
    BY <2>2, <2>5 DEF OnShow, Shown
  <2>6. CASE i < mirror
    <3>1. log[mirror] # None
      <4>1. log[mirror] = None => log[i].fight < log[n].fight
        BY <1>1, <2>1, <2>2, <2>3, <2>6 DEF LogOrdered
      <4>2. QED
        BY <2>1, <2>2, <2>3, <2>4, <4>1
    <3>2. log[i].fight < log[mirror].fight \/ (log[i].fight = log[mirror].fight /\ log[i].round <= log[mirror].round)
      BY <2>2, <2>3, <2>6, <3>1 DEF LogOrdered
    <3>3. log[mirror].fight < log[n].fight \/ (log[mirror].fight = log[n].fight /\ log[mirror].round <= log[n].round)
      BY <1>1, <2>1, <2>3, <3>1 DEF LogOrdered
    <3>4. log[mirror].fight = k.fight /\ log[mirror].round = k.round
      BY <2>1, <2>2, <2>3, <2>4, <3>1, <3>2, <3>3
    <3>5. QED
      BY <3>1, <3>4 DEF OnShow, Shown
  <2>7. QED
    BY <2>3, <2>5, <2>6
<1>8. ASSUME NEW k \in Keys, OnShow(k)', ~OnShow(k)
      PROVE  /\ walked[k] = 0 /\ dashes[k] = 0
             /\ State(budget, k) = [movedFt |-> 0, dashed |-> FALSE]
             /\ \A s \in Slots : ~Pending(s, "moved", k)
  <2>1. ~Reached(k)
    BY <1>7, <1>8
  <2>2. walked[k] = 0 /\ dashes[k] = 0 /\ k \notin DOMAIN budget /\ \A s \in Slots : ~Pending(s, "moved", k)
    BY <2>1 DEF Ledger, UsedIsReached
  <2>3. QED
    BY <2>2 DEF State
<1> HIDE DEF Pending, Cost, OnShow, Reached, State
<1>9. NoLate' /\ OneMove'
  BY <1>1 DEF Ledger, NoLate, OneMove, Moving
<1>10. KeyIsOwn' /\ UsedIsReached' /\ SentFits' /\ Fits'
  BY <1>1, <1>2, <1>3, <1>4, <1>6 DEF Ledger, KeyIsOwn, UsedIsReached, SentFits, Fits
<1>11. DashKnown'
  BY <1>1, <1>5, <1>8 DEF Ledger, DashKnown
<1>12. SpentKnown'
  BY <1>1, <1>3, <1>5, <1>8 DEF Ledger, SpentKnown
<1>13. AnswerComes'
  BY <1>1, <1>3, <1>4, <1>5, <1>8 DEF Ledger, AnswerComes
<1>14. QED
  BY <1>9, <1>10, <1>11, <1>12, <1>13 DEF Ledger

\* A whole number of cells within the feet left costs no more than these.
LEMMA Quotient ==
  ASSUME NEW g \in Nat \ {0}, NEW ft \in Nat
  PROVE  ft \div g \in Int /\ (ft \div g) * g <= ft
<1>1. (ft \div g) * g <= ft
  BY Z3
<1>2. ft \div g \in Int
  BY SMT
<1>3. QED
  BY <1>1, <1>2

LEMMA TimesMonotone ==
  ASSUME NEW x \in Int, NEW y \in Int, NEW g \in Nat, x <= y
  PROVE  x * g <= y * g /\ x * g \in Int /\ y * g \in Int
OBVIOUS

LEMMA DivCost ==
  ASSUME NEW c \in Nat, NEW g \in Nat \ {0}, NEW ft \in Nat, c <= ft \div g, 1 <= c
  PROVE  c * g <= ft /\ 1 <= c * g
<1> DEFINE q == ft \div g
<1>1. q \in Int /\ q * g <= ft
  BY Quotient
<1>2. c <= q
  OBVIOUS
<1> HIDE DEF q
<1>3. c * g <= q * g /\ c * g \in Int /\ q * g \in Int
  BY <1>1, <1>2, TimesMonotone
<1>4. 1 * g <= c * g /\ 1 * g = g
  BY TimesMonotone
<1>5. QED
  BY <1>1, <1>3, <1>4

\* What is still to be gone with a dash or without one.
LEMMA CapFits ==
  ASSUME NEW d \in {0, 1}
  PROVE  /\ SpeedFt * (1 + d) = SpeedFt * (IF d = 1 THEN 2 ELSE 1)
         /\ SpeedFt * (1 + d) \in Nat
<1>1. SpeedFt \in Nat
  BY MovementAssumption
<1>2. QED
  BY <1>1

LEMMA LedgerChecked ==
  ASSUME TypeOK, TypeOK', calm, Ledger, NEW s \in Slots, MoveChecked(s)
  PROVE  Ledger'
<1> DEFINE r == req[s]
           a == r.of
           b == Accessed(a)
           key == Key(a)
           sent == [r EXCEPT !.stage = "sent", !.key = IF InCombat(a) THEN key ELSE None]
<1>1. /\ r \in [stage : {"read"}, of : Players, to : Cells, seen : [Actors -> Cells], key : {None}]
      /\ r # None /\ r.stage = "read" /\ a \in Actors /\ s \in Moving
  BY RequestType DEF MoveChecked, At, Moving
<1>2. UNCHANGED <<calm, log, mirror, pos, walked, dashes>> /\ budget' = b
  BY DEF MoveChecked
<1>3. Becoming(s, None) \/ Becoming(s, sent)
  BY DEF MoveChecked
<1>4. CASE Becoming(s, None)
  <2>1. OneMove'
    BY <1>4, OneMoveKept DEF Ledger
  <2>2. \A t \in Slots : req'[t] = req[t]
          \/ ((req[t] = None \/ req[t].stage \notin Going) /\ (req'[t] = None \/ req'[t].stage \notin Going))
    BY <1>1, <1>4 DEF Becoming, TypeOK, Going
  <2>3. budget' = budget \/ budget' = Prune(budget)
    BY <1>2 DEF Accessed
  <2>4. QED
    BY <1>2, <2>1, <2>2, <2>3, Frame
<1>5. CASE Becoming(s, sent) /\ ~Becoming(s, None)
  <2> DEFINE ft == IF InCombat(a) THEN RemainingFt(b, key) ELSE SpeedFt
  <2>1. (InCombat(a) => YourTurn(a)) /\ ValidateMove(a, r.seen, ft, r.to)
    BY <1>5 DEF MoveChecked
  <2>2. req'[s] = sent /\ \A t \in Slots : t # s => req'[t] = req[t]
    BY <1>5 DEF Becoming, TypeOK
  <2>3. sent # None => sent.stage = "sent" /\ sent.of = a /\ sent.to = r.to /\ sent.seen = r.seen
                       /\ sent.key = IF InCombat(a) THEN key ELSE None
    BY <1>1
  <2>4. \A t \in Slots, k \in Keys : Pending(t, "moved", k)' <=> Pending(t, "moved", k)
    BY <1>1, <2>2, <2>3 DEF Pending
  <2>5. \A t \in Slots, k \in Keys : t # s => (Pending(t, "sent", k)' <=> Pending(t, "sent", k))
    BY <2>2 DEF Pending
  <2>6. \A k \in Keys : Pending(s, "sent", k)' => InCombat(a) /\ k = key /\ req'[s].of = a /\ req'[s] = sent
                                                 /\ req'[s] # None
    BY <2>2, <2>3 DEF Pending
  <2>7. \A t \in Slots : t # s => Cost(t)' = Cost(t)
    BY <2>2 DEF Cost, MoveCost, Chebyshev
  <2>8. Shown' = Shown
    BY <1>2 DEF Shown
  <2>9. \A k : (OnShow(k)' <=> OnShow(k)) /\ (Reached(k)' <=> Reached(k))
    BY <1>2, <2>8 DEF OnShow, Reached
  <2>10. DOMAIN budget' \subseteq DOMAIN budget /\ \A k : OnShow(k) => State(budget, k)' = State(budget, k)
    BY <1>2, AccessedKeeps DEF State
  <2>11. OneMove'
    <3>1. sent \in Requests \cup {None}
      BY <1>5, <2>2 DEF TypeOK
    <3>2. sent = None \/ sent.of = a
      BY <2>3
    <3>3. QED
      BY <1>1, <1>5, <3>1, <3>2, OneMoveKept DEF Ledger
  <2>12. InCombat(a) => key \in Keys /\ OnShow(key) /\ Reached(key) /\ key.of = a
    <3>1. InCombat(a) => key \in Keys
      BY <1>1, KeyType DEF InCombat
    <3>2. mirror \in 1..mirror
      BY DEF TypeOK
    <3>3. QED
      BY <3>1, <3>2 DEF InCombat, IsActive, Key, OnShow, Reached, Shown
  <2>13. InCombat(a) => \A t \in Slots : ~Pending(t, "moved", key)
    <3>1. ASSUME InCombat(a), NEW t \in Slots, Pending(t, "moved", key) PROVE FALSE
      <4>1. req[t].of = a
        BY <2>12, <3>1 DEF Ledger, KeyIsOwn
      <4>2. t \in Moving
        BY <3>1 DEF Pending, Moving
      <4>3. t = s
        BY <1>1, <4>1, <4>2 DEF Ledger, OneMove
      <4>4. QED
        BY <1>1, <3>1, <4>3 DEF Pending
    <3>2. QED
      BY <3>1
  <2>14. ASSUME InCombat(a), req'[s] = sent, sent # None
         PROVE  walked[key] + Cost(s)' <= SpeedFt * (1 + dashes[key])
    <3> DEFINE c == Chebyshev(r.seen[a], r.to)
    <3>1. State(b, key) = State(budget, key) /\ State(budget, key).movedFt = walked[key]
      BY <1>2, <2>12, <2>13, <2>14, AccessedKeeps DEF Ledger, SpentKnown
    <3>2. dashes[key] = IF State(budget, key).dashed THEN 1 ELSE 0
      BY <2>12, <2>14 DEF Ledger, DashKnown
    <3>3. dashes[key] \in {0, 1} /\ walked[key] \in Nat
      BY <2>12, <2>14, <3>2 DEF TypeOK
    <3> DEFINE cap == SpeedFt * (1 + dashes[key])
    <3>4. cap \in Nat /\ cap = SpeedFt * (IF State(b, key).dashed THEN 2 ELSE 1)
      BY <3>1, <3>2, <3>3, CapFits
    <3>5. ft = IF cap - walked[key] > 0 THEN cap - walked[key] ELSE 0
      BY <2>14, <3>1, <3>4 DEF RemainingFt
    <3> HIDE DEF cap, ft
    <3>6. ft \in Nat
      BY <3>3, <3>4, <3>5
    <3>7. c \in Nat /\ 1 <= c /\ c <= ft \div GridDistance
      <4>1. c \in Nat
        BY <1>1, MovementAssumption, ChebyshevNat
      <4>2. c \in 1..(ft \div GridDistance)
        BY <2>1 DEF ValidateMove
      <4>3. ft \div GridDistance \in Int
        BY <3>6, Quotient, MovementAssumption
      <4>4. QED
        BY <4>1, <4>2, <4>3
    <3> HIDE DEF c
    <3>8. c * GridDistance <= ft /\ 1 <= c * GridDistance
      BY <3>6, <3>7, DivCost, MovementAssumption
    <3>9. Cost(s)' = c * GridDistance
      BY <2>3, <2>14 DEF Cost, MoveCost, c, Chebyshev
    <3>10. c * GridDistance \in Int
      BY <3>7, MovementAssumption
    <3>11. walked[key] + Cost(s)' <= cap
      BY <3>3, <3>4, <3>5, <3>8, <3>9, <3>10
    <3>12. QED
      BY <3>11 DEF cap
  <2> HIDE DEF Pending, Cost, OnShow, Reached, State, sent, b, key, a, r
  <2>15. NoLate'
    BY <2>2, <2>3 DEF Ledger, NoLate
  <2>16. KeyIsOwn'
    <3>1. \A k \in Keys : ~Pending(s, "moved", k)
      BY <1>1 DEF Pending, r
    <3>2. \A k \in Keys : Pending(s, "sent", k)' => k.of = req'[s].of
      BY <2>6, <2>12
    <3>3. ASSUME NEW t \in Slots, NEW k \in Keys, t # s, Pending(t, "sent", k)' \/ Pending(t, "moved", k)'
          PROVE  k.of = req'[t].of
      <4>1. Pending(t, "sent", k) \/ Pending(t, "moved", k)
        BY <2>4, <2>5, <3>3
      <4>2. QED
        BY <2>2, <3>3, <4>1 DEF Ledger, KeyIsOwn
    <3>4. \A k \in Keys : ~Pending(s, "moved", k)'
      BY <2>4, <3>1
    <3>5. QED
      BY <3>2, <3>3, <3>4 DEF KeyIsOwn
  <2>17. UsedIsReached'
    BY <1>2, <2>4, <2>5, <2>6, <2>9, <2>10, <2>12 DEF Ledger, UsedIsReached
  <2>18. SentFits' /\ Fits'
    BY <1>2, <2>5, <2>6, <2>7, <2>14 DEF Ledger, SentFits, Fits
  <2>19. DashKnown'
    BY <1>2, <2>9, <2>10 DEF Ledger, DashKnown
  <2>20. SpentKnown'
    BY <1>2, <2>4, <2>9, <2>10 DEF Ledger, SpentKnown
  <2>21. AnswerComes'
    <3>1. \A k \in Keys : ~Pending(s, "moved", k)
      BY <1>1 DEF Pending, r
    <3>2. QED
      BY <1>2, <2>4, <2>7, <2>9, <2>10, <3>1 DEF Ledger, AnswerComes
  <2>22. QED
    BY <2>11, <2>15, <2>16, <2>17, <2>18, <2>19, <2>20, <2>21 DEF Ledger
<1>6. QED
  BY <1>3, <1>4, <1>5

\* At most one move of a key is under way.
LEMMA OnePerKey ==
  ASSUME Ledger, NEW k \in Keys, NEW s \in Slots, NEW t \in Slots,
         Pending(s, "sent", k) \/ Pending(s, "moved", k),
         Pending(t, "sent", k) \/ Pending(t, "moved", k)
  PROVE  s = t
<1>1. req[s].of = req[t].of
  BY DEF Ledger, KeyIsOwn
<1>2. s \in Moving /\ t \in Moving
  BY DEF Pending, Moving
<1>3. QED
  BY <1>1, <1>2 DEF Ledger, OneMove

\* The token moves: the feet the check left room for are walked.
LEMMA LedgerExecuted ==
  ASSUME TypeOK, TypeOK', Ledger, NEW s \in Slots, MoveExecuted(s)
  PROVE  Ledger'
<1> DEFINE r == req[s]
           moved == [r EXCEPT !.stage = "moved"]
<1>1. /\ r \in [stage : {"sent", "moved", "late"}, of : Players, to : Cells, seen : [Actors -> Cells],
                key : Keys \cup {None}]
      /\ r # None /\ r.stage = "sent" /\ s \in Moving
  BY RequestType DEF MoveExecuted, At, Moving, Ledger, NoLate
<1>2. UNCHANGED <<calm, log, mirror, budget, dashes>> /\ Becoming(s, moved)
  BY <1>1 DEF MoveExecuted
<1>3. req'[s] = moved /\ \A t \in Slots : t # s => req'[t] = req[t]
  BY <1>2 DEF Becoming, TypeOK
<1>4. moved.stage = "moved" /\ moved.of = r.of /\ moved.key = r.key /\ moved.to = r.to /\ moved.seen = r.seen
  BY <1>1
<1>5. \A k \in Keys : ~Pending(s, "moved", k) /\ ~Pending(s, "sent", k)'
  BY <1>1, <1>3, <1>4 DEF Pending
<1>6. \A t \in Slots, k \in Keys : t # s =>
        /\ Pending(t, "sent", k)' <=> Pending(t, "sent", k)
        /\ Pending(t, "moved", k)' <=> Pending(t, "moved", k)
  BY <1>3 DEF Pending
<1>7. \A k \in Keys : Pending(s, "moved", k)' => Pending(s, "sent", k) /\ r.key = k /\ r.key # None
  BY <1>1, <1>3, <1>4 DEF Pending
<1>8. \A k \in Keys : r.key = k /\ r.key # None => Pending(s, "sent", k)
  BY <1>1 DEF Pending
<1>9. \A t \in Slots : t # s => Cost(t)' = Cost(t)
  BY <1>3 DEF Cost, MoveCost, Chebyshev
<1>10. \A k \in Keys : Pending(s, "moved", k)' => Cost(s)' = Cost(s)
  BY <1>3, <1>4 DEF Cost, MoveCost, Chebyshev, Pending
<1>11. Cost(s) \in Nat
  BY <1>1, CostNat, MovementAssumption DEF Cost
<1>12. \A k \in Keys : walked'[k] = IF r.key = k /\ r.key # None THEN walked[k] + Cost(s) ELSE walked[k]
  <2>1. CASE r.key = None
    BY <2>1 DEF MoveExecuted
  <2>2. CASE r.key # None
    <3>1. walked' = [walked EXCEPT ![r.key] = walked[r.key] + Cost(s)]
      BY <2>2 DEF MoveExecuted, Cost
    <3>2. QED
      BY <2>2, <3>1 DEF TypeOK
  <2>3. QED
    BY <2>1, <2>2
<1>13. \A k : (OnShow(k)' <=> OnShow(k)) /\ (Reached(k)' <=> Reached(k)) /\ State(budget, k)' = State(budget, k)
  BY <1>2 DEF OnShow, Reached, Shown, State
<1>14. \A k \in Keys : walked[k] \in Nat /\ dashes[k] \in Nat
  BY DEF TypeOK
<1>15. NoLate' /\ OneMove'
  <2>1. moved \in Requests
    BY <1>1 DEF Requests
  <2>2. OneMove'
    BY <1>1, <1>2, <1>4, <2>1, OneMoveKept DEF Ledger
  <2>3. NoLate'
    BY <1>3, <1>4 DEF Ledger, NoLate
  <2>4. QED
    BY <2>2, <2>3
<1> HIDE DEF Pending, Cost, OnShow, Reached, State, moved
<1>16. KeyIsOwn'
  <2>1. \A k \in Keys : Pending(s, "moved", k)' => k.of = req'[s].of
    BY <1>3, <1>4, <1>7 DEF Ledger, KeyIsOwn
  <2>2. ASSUME NEW t \in Slots, NEW k \in Keys, t # s, Pending(t, "sent", k)' \/ Pending(t, "moved", k)'
        PROVE  k.of = req'[t].of
    BY <1>3, <1>6, <2>2 DEF Ledger, KeyIsOwn
  <2>3. QED
    BY <1>5, <2>1, <2>2 DEF KeyIsOwn
<1>17. UsedIsReached'
  <2>1. ASSUME NEW k \in Keys,
               \/ walked'[k] # 0 \/ dashes'[k] # 0 \/ k \in DOMAIN budget'
               \/ \E t \in Slots : Pending(t, "sent", k)' \/ Pending(t, "moved", k)'
        PROVE  Reached(k)
    <3>1. CASE r.key = k /\ r.key # None
      BY <1>8, <3>1 DEF Ledger, UsedIsReached
    <3>2. CASE ~(r.key = k /\ r.key # None)
      <4>1. walked'[k] = walked[k]
        BY <1>12, <3>2
      <4>2. \A t \in Slots : Pending(t, "sent", k)' \/ Pending(t, "moved", k)' =>
                              Pending(t, "sent", k) \/ Pending(t, "moved", k)
        BY <1>5, <1>6, <1>7
      <4>3. QED
        BY <1>2, <2>1, <4>1, <4>2 DEF Ledger, UsedIsReached
    <3>3. QED
      BY <3>1, <3>2
  <2>2. QED
    BY <1>13, <2>1 DEF UsedIsReached
<1>18. SentFits' /\ Fits'
  <2>1. ASSUME NEW k \in Keys PROVE walked'[k] <= SpeedFt * (1 + dashes'[k])
    <3>1. CASE r.key = k /\ r.key # None
      BY <1>2, <1>8, <1>12, <3>1 DEF Ledger, SentFits
    <3>2. CASE ~(r.key = k /\ r.key # None)
      BY <1>2, <1>12, <3>2 DEF Ledger, Fits
    <3>3. QED
      BY <3>1, <3>2
  <2>2. ASSUME NEW t \in Slots, NEW k \in Keys, Pending(t, "sent", k)'
        PROVE  walked'[k] + Cost(t)' <= SpeedFt * (1 + dashes'[k])
    <3>1. t # s /\ Pending(t, "sent", k)
      BY <1>5, <1>6, <2>2
    <3>2. ~(r.key = k /\ r.key # None)
      BY <1>8, <3>1, OnePerKey
    <3>3. QED
      BY <1>2, <1>9, <1>12, <3>1, <3>2 DEF Ledger, SentFits
  <2>3. QED
    BY <2>1, <2>2 DEF SentFits, Fits
<1>19. DashKnown'
  BY <1>2, <1>13 DEF Ledger, DashKnown
<1>20. SpentKnown'
  <2>1. ASSUME NEW k \in Keys, OnShow(k), \A t \in Slots : ~Pending(t, "moved", k)'
        PROVE  State(budget, k).movedFt = walked'[k]
    <3>1. ~(r.key = k /\ r.key # None)
      <4>1. SUFFICES ASSUME r.key = k, r.key # None PROVE Pending(s, "moved", k)'
        BY <2>1
      <4>2. QED
        <5>1. moved \in Requests
          BY <1>1 DEF Requests, moved
        <5>2. req'[s] # None
          BY <1>3, <5>1, NoneAssumption
        <5>3. QED
          BY <1>3, <1>4, <4>1, <5>2 DEF Pending
    <3>2. \A t \in Slots : ~Pending(t, "moved", k)
      BY <1>5, <1>6, <2>1
    <3>3. QED
      BY <1>12, <2>1, <3>1, <3>2 DEF Ledger, SpentKnown
  <2>2. QED
    BY <1>13, <2>1 DEF SpentKnown
<1>21. AnswerComes'
  <2>1. ASSUME NEW k \in Keys, NEW t \in Slots, OnShow(k), Pending(t, "moved", k)'
        PROVE  State(budget, k).movedFt + Cost(t)' = walked'[k]
    <3>1. CASE t = s
      <4>1. Pending(s, "sent", k) /\ r.key = k /\ r.key # None
        BY <1>7, <2>1, <3>1
      <4>2. \A u \in Slots : ~Pending(u, "moved", k)
        BY <1>5, <4>1, OnePerKey
      <4>3. State(budget, k).movedFt = walked[k]
        BY <2>1, <4>2 DEF Ledger, SpentKnown
      <4>4. QED
        BY <1>10, <1>12, <2>1, <3>1, <4>1, <4>3
    <3>2. CASE t # s
      <4>1. Pending(t, "moved", k)
        BY <1>6, <2>1, <3>2
      <4>2. ~(r.key = k /\ r.key # None)
        BY <1>8, <3>2, <4>1, OnePerKey
      <4>3. QED
        BY <1>9, <1>12, <2>1, <3>2, <4>1, <4>2 DEF Ledger, AnswerComes
    <3>3. QED
      BY <3>1, <3>2
  <2>2. QED
    BY <1>13, <2>1 DEF AnswerComes
<1>22. QED
  BY <1>15, <1>16, <1>17, <1>18, <1>19, <1>20, <1>21 DEF Ledger

\* The relay answers: the feet walked are charged.
LEMMA LedgerAnswered ==
  ASSUME TypeOK, TypeOK', Ledger, NEW s \in Slots, MoveAnswered(s)
  PROVE  Ledger'
<1> DEFINE r == req[s]
           charged == IF r.key = None THEN budget ELSE AddMove(budget, r.key, MoveCost(r.of, r.seen, r.to))
<1>1. /\ r \in [stage : {"sent", "moved", "late"}, of : Players, to : Cells, seen : [Actors -> Cells],
                key : Keys \cup {None}]
      /\ r # None /\ r.stage = "moved"
  BY RequestType DEF MoveAnswered, At
<1>2. UNCHANGED <<calm, log, mirror, pos, walked, dashes>> /\ Becoming(s, None)
  BY DEF MoveAnswered
<1>3. req'[s] = None /\ \A t \in Slots : t # s => req'[t] = req[t]
  BY <1>2 DEF Becoming, TypeOK
<1>4. \A t \in Slots, k \in Keys :
        /\ Pending(t, "sent", k)' <=> t # s /\ Pending(t, "sent", k)
        /\ Pending(t, "moved", k)' <=> t # s /\ Pending(t, "moved", k)
  BY <1>1, <1>3 DEF Pending
<1>5. \A k \in Keys : Pending(s, "moved", k) <=> r.key = k /\ r.key # None
  BY <1>1 DEF Pending
<1>6. \A t \in Slots : t # s => Cost(t)' = Cost(t)
  BY <1>3 DEF Cost, MoveCost, Chebyshev
<1>7. \A k : (OnShow(k)' <=> OnShow(k)) /\ (Reached(k)' <=> Reached(k))
  BY <1>2 DEF OnShow, Reached, Shown
<1>8. \A k : State(budget, k)' = State(budget', k)
  BY DEF State
<1>9. \A k : OnShow(k) => State(budget', k) = State(charged, k)
  BY PruneKeeps DEF MoveAnswered
<1>10. \A k \in Keys : k \in DOMAIN budget' => k \in DOMAIN budget \/ Pending(s, "moved", k)
  <2>1. DOMAIN budget' \subseteq DOMAIN charged
    BY PruneShrinks DEF MoveAnswered
  <2>2. \A k \in Keys : k \in DOMAIN charged => k \in DOMAIN budget \/ (r.key = k /\ r.key # None)
    BY DEF AddMove, Put
  <2>3. QED
    BY <1>5, <2>1, <2>2
<1>11. \A k \in Keys : ~Pending(s, "moved", k) => State(charged, k) = State(budget, k)
  <2>1. \A k \in Keys : ~(r.key = k /\ r.key # None) => State(charged, k) = State(budget, k)
    BY DEF AddMove, Put, State
  <2>2. QED
    BY <1>5, <2>1
<1>12. \A k \in Keys : Pending(s, "moved", k) =>
         /\ State(charged, k).movedFt = State(budget, k).movedFt + Cost(s)
         /\ State(charged, k).dashed = State(budget, k).dashed
  <2>1. ASSUME NEW k \in Keys, Pending(s, "moved", k)
        PROVE  State(charged, k) = [State(budget, k) EXCEPT !.movedFt = State(budget, k).movedFt + Cost(s)]
    <3>1. r.key = k /\ r.key # None
      BY <1>5, <2>1
    <3>2. charged = Put(budget, k, [State(budget, k) EXCEPT !.movedFt = State(budget, k).movedFt + Cost(s)])
      BY <3>1 DEF AddMove, Cost
    <3> DEFINE new == [State(budget, k) EXCEPT !.movedFt = State(budget, k).movedFt + Cost(s)]
    <3> HIDE DEF new, charged
    <3>3. State(charged, k) = new
      BY <3>2 DEF Put, State, new
    <3>4. QED
      BY <3>3 DEF new
  <2>2. \A k \in Keys : State(budget, k) \in [movedFt : Nat, dashed : BOOLEAN]
    BY StateType DEF TypeOK, IsBudget
  <2> HIDE DEF charged, State, Pending, Cost
  <2>3. QED
    BY <2>1, <2>2
<1>13. \A k \in Keys : walked[k] \in Nat /\ State(budget, k).movedFt \in Nat
  BY StateType DEF TypeOK, IsBudget
<1> HIDE DEF Pending, Cost, OnShow, Reached, State, charged
<1>14. NoLate' /\ OneMove'
  <2>1. OneMove'
    BY <1>2, OneMoveKept DEF Ledger
  <2>2. NoLate'
    BY <1>3 DEF Ledger, NoLate
  <2>3. QED
    BY <2>1, <2>2
<1>15. KeyIsOwn'
  BY <1>3, <1>4 DEF Ledger, KeyIsOwn
<1>16. UsedIsReached'
  BY <1>2, <1>4, <1>7, <1>10 DEF Ledger, UsedIsReached
<1>17. SentFits' /\ Fits'
  BY <1>2, <1>4, <1>6 DEF Ledger, SentFits, Fits
<1>18. DashKnown'
  BY <1>2, <1>7, <1>8, <1>9, <1>11, <1>12 DEF Ledger, DashKnown
<1>19. SpentKnown'
  <2>1. ASSUME NEW k \in Keys, OnShow(k), \A t \in Slots : ~Pending(t, "moved", k)'
        PROVE  State(budget', k).movedFt = walked[k]
    <3>1. CASE Pending(s, "moved", k)
      BY <1>9, <1>12, <2>1, <3>1 DEF Ledger, AnswerComes
    <3>2. CASE ~Pending(s, "moved", k)
      <4>1. \A t \in Slots : ~Pending(t, "moved", k)
        BY <1>4, <2>1, <3>2
      <4>2. QED
        BY <1>9, <1>11, <2>1, <3>2, <4>1 DEF Ledger, SpentKnown
    <3>3. QED
      BY <3>1, <3>2
  <2>2. QED
    BY <1>2, <1>7, <1>8, <2>1 DEF SpentKnown
<1>20. AnswerComes'
  <2>1. ASSUME NEW k \in Keys, NEW t \in Slots, OnShow(k), Pending(t, "moved", k)'
        PROVE  State(budget', k).movedFt + Cost(t)' = walked[k]
    <3>1. t # s /\ Pending(t, "moved", k)
      BY <1>4, <2>1
    <3>2. ~Pending(s, "moved", k)
      BY <3>1, OnePerKey
    <3>3. QED
      BY <1>6, <1>9, <1>11, <2>1, <3>1, <3>2 DEF Ledger, AnswerComes
  <2>2. QED
    BY <1>2, <1>7, <1>8, <2>1 DEF AnswerComes
<1>21. QED
  BY <1>14, <1>15, <1>16, <1>17, <1>18, <1>19, <1>20 DEF Ledger

\* A dash: twice the feet from now on.
LEMMA LedgerDash ==
  ASSUME TypeOK, TypeOK', Ledger, NEW a \in Players, Dash(a)
  PROVE  Ledger'
<1> DEFINE b == Accessed(a)
           key == Key(a)
           new == [State(b, key) EXCEPT !.dashed = TRUE]
<1>1. UNCHANGED <<calm, log, mirror, pos, req, walked>> /\ InCombat(a)
  BY DEF Dash
<1>2. key \in Keys /\ OnShow(key) /\ Reached(key)
  <2>1. key \in Keys
    BY <1>1, KeyType, MovementAssumption DEF InCombat
  <2>2. mirror \in 1..mirror
    BY DEF TypeOK
  <2>3. QED
    BY <1>1, <2>1, <2>2 DEF InCombat, IsActive, Key, OnShow, Reached, Shown
<1>3. \A k : (OnShow(k)' <=> OnShow(k)) /\ (Reached(k)' <=> Reached(k)) /\ State(budget, k)' = State(budget', k)
  BY <1>1 DEF OnShow, Reached, Shown, State
<1>4. \A t \in Slots, k \in Keys :
        /\ Pending(t, "sent", k)' <=> Pending(t, "sent", k)
        /\ Pending(t, "moved", k)' <=> Pending(t, "moved", k)
  BY <1>1 DEF Pending
<1>5. \A t \in Slots : Cost(t)' = Cost(t)
  BY <1>1 DEF Cost, MoveCost, Chebyshev
<1>6. DOMAIN b \subseteq DOMAIN budget /\ \A k : OnShow(k) => State(b, k) = State(budget, k)
  BY AccessedKeeps
<1>7. State(b, key).dashed => budget' = b /\ dashes' = dashes
  BY DEF Dash
<1>8. ~State(b, key).dashed => budget' = Put(b, key, new) /\ dashes' = [dashes EXCEPT ![key] = dashes[key] + 1]
  BY DEF Dash
<1>9. \A k \in Keys : dashes[k] \in Nat /\ walked[k] \in Nat
  BY DEF TypeOK
<1>10. State(b, key) \in [movedFt : Nat, dashed : BOOLEAN]
  BY AccessedType, StateType
<1>11. new \in [movedFt : Nat, dashed : BOOLEAN] /\ new.dashed = TRUE /\ new.movedFt = State(b, key).movedFt
  <2> HIDE DEF State, b, key
  <2>1. QED
    BY <1>10
<1>12. \A k : State(Put(b, key, new), k) = IF k = key THEN new ELSE State(b, k)
  <2> HIDE DEF b, key, new
  <2>1. QED
    BY DEF State, Put
<1>13. DOMAIN Put(b, key, new) = DOMAIN b \cup {key}
  BY DEF Put
<1> HIDE DEF Pending, Cost, OnShow, Reached, State, b, key, new
<1>14. \A k \in Keys : OnShow(k) => State(budget', k).movedFt = State(budget, k).movedFt
  BY <1>6, <1>7, <1>8, <1>11, <1>12
<1>15. dashes[key] = IF State(b, key).dashed THEN 1 ELSE 0
  BY <1>2, <1>6 DEF Ledger, DashKnown
<1>16. \A k \in Keys : k # key => dashes'[k] = dashes[k] /\ (OnShow(k) => State(budget', k) = State(budget, k))
  BY <1>6, <1>7, <1>8, <1>12 DEF TypeOK
<1>17. dashes'[key] = 1 /\ State(budget', key).dashed
  BY <1>2, <1>7, <1>8, <1>11, <1>12, <1>15 DEF TypeOK
<1>18. \A k \in Keys : SpeedFt * (1 + dashes[k]) <= SpeedFt * (1 + dashes'[k])
                      /\ SpeedFt * (1 + dashes[k]) \in Int /\ SpeedFt * (1 + dashes'[k]) \in Int
  <2>1. SpeedFt \in Nat
    BY MovementAssumption
  <2>2. ASSUME NEW k \in Keys
        PROVE  SpeedFt * (1 + dashes[k]) <= SpeedFt * (1 + dashes'[k])
               /\ SpeedFt * (1 + dashes[k]) \in Int /\ SpeedFt * (1 + dashes'[k]) \in Int
    <3>1. CASE k # key
      BY <1>9, <1>16, <2>1, <3>1
    <3>2. CASE k = key
      <4>1. (dashes[k] = 0 \/ dashes[k] = 1) /\ dashes'[k] = 1
        BY <1>15, <1>17, <3>2
      <4>2. QED
        BY <2>1, <4>1
    <3>3. QED
      BY <3>1, <3>2
  <2>3. QED
    BY <2>2
<1>19. NoLate' /\ OneMove'
  BY <1>1 DEF Ledger, NoLate, OneMove, Moving
<1>20. KeyIsOwn'
  BY <1>1, <1>4 DEF Ledger, KeyIsOwn
<1>21. UsedIsReached'
  <2>1. DOMAIN budget' \subseteq DOMAIN budget \cup {key}
    BY <1>6, <1>7, <1>8, <1>13
  <2>2. QED
    BY <1>1, <1>2, <1>3, <1>4, <1>16, <2>1 DEF Ledger, UsedIsReached
<1>22. SentFits' /\ Fits'
  <2>1. Fits'
    BY <1>1, <1>9, <1>18 DEF Ledger, Fits
  <2>2. ASSUME NEW t \in Slots, NEW k \in Keys, Pending(t, "sent", k)
        PROVE  walked[k] + Cost(t) <= SpeedFt * (1 + dashes'[k])
    <3>1. Cost(t) \in Nat
      BY <2>2, RequestType, CostNat DEF Cost, Pending
    <3>2. walked[k] + Cost(t) <= SpeedFt * (1 + dashes[k])
      BY <2>2 DEF Ledger, SentFits
    <3>3. QED
      BY <1>9, <1>18, <3>1, <3>2
  <2>3. SentFits'
    BY <1>1, <1>4, <1>5, <2>2 DEF SentFits
  <2>4. QED
    BY <2>1, <2>3
<1>23. DashKnown'
  BY <1>2, <1>3, <1>16, <1>17 DEF Ledger, DashKnown
<1>24. SpentKnown'
  BY <1>1, <1>3, <1>4, <1>14 DEF Ledger, SpentKnown
<1>25. AnswerComes'
  BY <1>1, <1>3, <1>4, <1>5, <1>14 DEF Ledger, AnswerComes
<1>26. QED
  BY <1>19, <1>20, <1>21, <1>22, <1>23, <1>24, <1>25 DEF Ledger

LEMMA LedgerInit == Init => Ledger
<1> SUFFICES ASSUME Init PROVE Ledger
  OBVIOUS
<1>1. \A s \in Slots : req[s] = None
  BY DEF Init
<1>2. DOMAIN budget = {}
  BY DEF Init
<1>3. \A k \in Keys : walked[k] = 0 /\ dashes[k] = 0
  BY DEF Init
<1>4. \A k : State(budget, k) = [movedFt |-> 0, dashed |-> FALSE]
  BY <1>2 DEF State
<1>5. \A s \in Slots, k \in Keys : ~Pending(s, "sent", k) /\ ~Pending(s, "moved", k)
  BY <1>1 DEF Pending
<1>6. SpeedFt * (1 + 0) \in Nat
  BY MovementAssumption
<1> HIDE DEF Pending, Cost, OnShow, Reached, State
<1>7. NoLate /\ OneMove
  BY <1>1 DEF NoLate, OneMove, Moving
<1>8. KeyIsOwn /\ UsedIsReached /\ SentFits
  BY <1>2, <1>3, <1>5 DEF KeyIsOwn, UsedIsReached, SentFits
<1>9. Fits
  BY <1>3, <1>6 DEF Fits
<1>10. DashKnown /\ SpentKnown /\ AnswerComes
  BY <1>3, <1>4, <1>5 DEF DashKnown, SpentKnown, AnswerComes
<1>11. QED
  BY <1>7, <1>8, <1>9, <1>10 DEF Ledger

\* A slot goes from one stage to another, neither of them a move's at the relay.
LEMMA OtherStages ==
  ASSUME TypeOK, NEW s \in Slots, NEW r, Becoming(s, r),
         req[s] = None \/ req[s].stage \notin Going,
         r = None \/ r.stage \notin Going
  PROVE  \A t \in Slots :
            \/ req'[t] = req[t]
            \/ /\ req[t] = None \/ req[t].stage \notin Going
               /\ req'[t] = None \/ req'[t].stage \notin Going
BY DEF TypeOK, Becoming

\* The requests to end a turn, and the reads of a move.
LEMMA LedgerStage ==
  ASSUME TypeOK, TypeOK', calm, Ledger, NEW s \in Slots,
         \/ SceneRead(s) \/ ReadFails(s) \/ EndAnswered(s) \/ EndExecuted(s) \/ LateLost(s)
         \/ \E a \in Players : EndAsked(s, a) \/ \E c \in Cells : MoveAsked(s, a, c)
  PROVE  Ledger'
<1>1. UNCHANGED <<mirror, budget, walked, dashes>>
  BY DEF SceneRead, ReadFails, EndAnswered, EndExecuted, LateLost, EndAsked, MoveAsked
<1>2. \A i \in 1..mirror : log'[i] = log[i]
  <2>1. log' = log \/ \E x : log' = Append(log, x)
    BY DEF SceneRead, ReadFails, EndAnswered, EndExecuted, LateLost, EndAsked, MoveAsked, NextTurn, Becomes
  <2>2. log \in Seq(States \cup {None}) /\ mirror \in 1..Len(log) /\ Len(log) \in Nat
    BY DEF TypeOK, States
  <2>3. \A i \in 1..mirror : i \in 1..Len(log)
    BY <2>2
  <2>4. QED
    BY <2>1, <2>2, <2>3
<1>3. PICK r \in Requests \cup {None} : Becoming(s, r) /\ (r = None \/ r.stage \notin Going)
      /\ (req[s] = None \/ req[s].stage \notin Going)
      /\ \/ r = None \/ r.stage \in {"ending", "ended", "endLate"}
         \/ s \in Moving /\ r.of = req[s].of
         \/ req[s] = None /\ \A u \in Moving : req[u].of # r.of
  <2> DEFINE Goal(r) ==
        Becoming(s, r) /\ (r = None \/ r.stage \notin Going)
        /\ (req[s] = None \/ req[s].stage \notin Going)
        /\ \/ r = None \/ r.stage \in {"ending", "ended", "endLate"}
           \/ s \in Moving /\ r.of = req[s].of
           \/ req[s] = None /\ \A u \in Moving : req[u].of # r.of
  <2> SUFFICES \E r \in Requests \cup {None} : Goal(r)
    OBVIOUS
  <2>0. req' \in [Slots -> Requests \cup {None}] /\ \A r : Becoming(s, r) => req'[s] = r
    BY DEF TypeOK, Becoming
  <2>1. CASE SceneRead(s)
    <3> DEFINE r == [req[s] EXCEPT !.stage = "read", !.seen = pos]
    <3>1. req[s] # None /\ req[s].stage = "asked" /\ s \in Moving /\ Becoming(s, r)
      BY <2>1 DEF SceneRead, At, Moving
    <3>2. r.of = req[s].of /\ r.stage = "read"
      BY <3>1, RequestType
    <3>3. r \in Requests \cup {None}
      BY <2>0, <3>1
    <3> HIDE DEF r
    <3>4. Goal(r)
      BY <3>1, <3>2 DEF Going
    <3>5. QED
      BY <3>3, <3>4
  <2>2. CASE ReadFails(s) \/ EndAnswered(s)
    <3>1. Goal(None)
      BY <2>2 DEF ReadFails, EndAnswered, At, Going
    <3>2. QED
      BY <3>1
  <2>3. CASE EndExecuted(s)
    <3> DEFINE r == [req[s] EXCEPT !.stage = "ended"]
    <3>1. req[s] # None /\ req[s].stage \in {"ending", "endLate"} /\ (Becoming(s, None) \/ Becoming(s, r))
      BY <2>3 DEF EndExecuted, At
    <3>2. r.stage = "ended"
      BY <3>1, RequestType
    <3>3. CASE Becoming(s, None)
      <4>1. Goal(None)
        BY <3>1, <3>3 DEF Going
      <4>2. QED
        BY <4>1
    <3>4. CASE Becoming(s, r)
      <4>1. r \in Requests \cup {None}
        BY <2>0, <3>4
      <4> HIDE DEF r
      <4>2. Goal(r)
        BY <3>1, <3>2, <3>4 DEF Going
      <4>3. QED
        BY <4>1, <4>2
    <3>5. QED
      BY <3>1, <3>3, <3>4
  <2>4. CASE LateLost(s)
    <3>1. Goal(None)
      BY <2>4 DEF LateLost, At, Going, Ledger, NoLate
    <3>2. QED
      BY <3>1
  <2>5. CASE \E a \in Players : EndAsked(s, a) \/ \E c \in Cells : MoveAsked(s, a, c)
    <3>1. PICK a \in Players : EndAsked(s, a) \/ \E c \in Cells : MoveAsked(s, a, c)
      BY <2>5
    <3>2. CASE EndAsked(s, a)
      <4> DEFINE r == Request("ending", a, None, None, Key(a))
      <4>1. req[s] = None /\ Becoming(s, r) /\ r.stage = "ending"
        BY <3>2 DEF EndAsked, Request
      <4>2. r \in Requests \cup {None}
        BY <2>0, <4>1
      <4> HIDE DEF r
      <4>3. Goal(r)
        BY <4>1 DEF Going
      <4>4. QED
        BY <4>2, <4>3
    <3>3. CASE \E c \in Cells : MoveAsked(s, a, c)
      <4>1. PICK c \in Cells : MoveAsked(s, a, c)
        BY <3>3
      <4> DEFINE r == Request("asked", a, c, None, None)
      <4>2. req[s] = None /\ Becoming(s, r) /\ r.stage = "asked" /\ r.of = a
        BY <4>1 DEF MoveAsked, Request
      <4>3. r \in Requests \cup {None}
        BY <2>0, <4>2
      <4>4. \A u \in Moving : req[u].of # a
        BY <4>1 DEF MoveAsked
      <4> HIDE DEF r
      <4>5. Goal(r)
        BY <4>2, <4>4 DEF Going
      <4>6. QED
        BY <4>3, <4>5
    <3>4. QED
      BY <3>1, <3>2, <3>3
  <2>6. QED
    BY <2>1, <2>2, <2>3, <2>4, <2>5
<1>4. OneMove'
  <2>1. CASE req[s] = None /\ \A u \in Moving : req[u].of # r.of
    <3>1. req'[s] = r /\ \A t \in Slots : t # s => req'[t] = req[t]
      BY <1>3 DEF Becoming, TypeOK
    <3>2. \A t \in Slots : t # s /\ t \in Moving' => t \in Moving
      BY <3>1 DEF Moving
    <3>3. Moving' \subseteq Slots
      BY DEF Moving
    <3>4. QED
      BY <2>1, <3>1, <3>2, <3>3 DEF Ledger, OneMove
  <2>2. CASE ~(req[s] = None /\ \A u \in Moving : req[u].of # r.of)
    BY <1>3, <2>2, OneMoveKept DEF Ledger
  <2>3. QED
    BY <2>1, <2>2
<1>5. QED
  BY <1>1, <1>2, <1>3, <1>4, OtherStages, Frame

\* The world moves on, or the budget is read.
LEMMA LedgerWorld ==
  ASSUME TypeOK, Ledger, UNCHANGED <<mirror, req, walked, dashes>>,
         log' = log \/ \E x : log' = Append(log, x),
         budget' = budget \/ budget' = Prune(budget)
  PROVE  Ledger'
<1>1. \A i \in 1..mirror : log'[i] = log[i]
  <2>1. log \in Seq(States \cup {None}) /\ mirror \in 1..Len(log) /\ Len(log) \in Nat
    BY DEF TypeOK, States
  <2>2. \A i \in 1..mirror : i \in 1..Len(log)
    BY <2>1
  <2>3. QED
    BY <2>1, <2>2
<1>2. OneMove'
  BY DEF Ledger, OneMove, Moving
<1>3. \A t \in Slots : req'[t] = req[t]
  OBVIOUS
<1>4. QED
  BY <1>1, <1>2, <1>3, Frame

Inv == TypeOK /\ LogOrdered /\ (calm => Ledger)

LEMMA InvNext == Inv /\ [Next]_vars => Inv'
<1> SUFFICES ASSUME Inv, [Next]_vars PROVE Inv'
  OBVIOUS
<1>1. TypeOK /\ TypeOK' /\ LogOrdered /\ LogOrdered'
  BY NextType, OrderedNext DEF Inv
<1>2. calm' = calm
  BY DEF Next, Foundry, Gateway, vars, GmAdvances, GmEndsOrBegins, MirrorShows, MoveExecuted, EndExecuted,
     LateLost, GetMovement, Dash, EndAsked, MoveAsked, SceneRead, ReadFails, MoveChecked, MoveAnswered,
     MoveGivenUp, EndAnswered, EndGivenUp
<1> SUFFICES ASSUME calm, Ledger PROVE Ledger'
  BY <1>1, <1>2 DEF Inv
<1>3. CASE UNCHANGED vars
  BY <1>1, <1>3, LedgerWorld DEF vars
<1>4. CASE GmAdvances \/ GmEndsOrBegins
  <2>1. \E x : log' = Append(log, x)
    BY <1>4 DEF GmAdvances, GmEndsOrBegins, NextTurn, Becomes
  <2>2. QED
    BY <1>1, <1>4, <2>1, LedgerWorld DEF GmAdvances, GmEndsOrBegins
<1>5. CASE \E n \in DOMAIN log : MirrorShows(n)
  BY <1>1, <1>5, LedgerMirror
<1>6. CASE \E s \in Slots : MoveExecuted(s)
  BY <1>1, <1>6, LedgerExecuted
<1>7. CASE \E s \in Slots : EndExecuted(s) \/ LateLost(s)
  BY <1>1, <1>7, LedgerStage
<1>8. CASE \E a \in Players : GetMovement(a)
  BY <1>1, <1>8, LedgerWorld DEF GetMovement
<1>9. CASE \E a \in Players : Dash(a)
  BY <1>1, <1>9, LedgerDash
<1>10. CASE \E s \in Slots : \E a \in Players : EndAsked(s, a) \/ \E c \in Cells : MoveAsked(s, a, c)
  BY <1>1, <1>10, LedgerStage
<1>11. CASE \E s \in Slots : SceneRead(s) \/ ReadFails(s) \/ EndAnswered(s)
  BY <1>1, <1>11, LedgerStage
<1>12. CASE \E s \in Slots : MoveChecked(s)
  BY <1>1, <1>12, LedgerChecked
<1>13. CASE \E s \in Slots : MoveAnswered(s)
  BY <1>1, <1>13, LedgerAnswered
<1>14. CASE \E s \in Slots : MoveGivenUp(s) \/ EndGivenUp(s)
  BY <1>14 DEF MoveGivenUp, EndGivenUp
<1>15. QED
  BY <1>3, <1>4, <1>5, <1>6, <1>7, <1>8, <1>9, <1>10, <1>11, <1>12, <1>13, <1>14
  DEF Next, Foundry, Gateway

\* A calm behaviour keeps to the speed: what an actor walked on a turn's key is
\* at most its speed, twice that once it dashed, for every number of actors,
\* requests under way, fights and rounds, and wherever the mirror stands.
THEOREM SpeedLimit == Spec => []SpeedIsKept
<1>1. Init => Inv
  BY InitType, OrderedInit, LedgerInit DEF Inv
<1>2. Inv => SpeedIsKept
  BY DEF Inv, Ledger, Fits, SpeedIsKept
<1>3. QED
  BY <1>1, <1>2, InvNext, PTL DEF Spec

----------------------------------------------------------------------------
(* Ends of turns.  In a round of a fight the turn only grows, so a player's *)
(* own turn comes once in it, and the script ends no other.                *)

\* The turns follow one another in each round.
TurnsGrow ==
    \A i, j \in DOMAIN log :
        /\ i < j /\ log[i] # None /\ log[j] # None
        /\ log[i].fight = log[j].fight /\ log[i].round = log[j].round
        => log[i].turn < log[j].turn

\* What a player's request ended was that player's turn, and is over.
OwnEnded ==
    \A e \in ended :
        e[1] \in DOMAIN log /\ e[1] < Len(log) /\ e[2] \in Actors /\ Acting(log[e[1]]) = e[2]

LEMMA TurnsAppend ==
  ASSUME TypeOK, LogOrdered, TurnsGrow, NEW f \in States, Becomes(f),
         \/ World # None /\ f.fight = World.fight
            /\ (World.round < f.round \/ (World.round = f.round /\ World.turn < f.turn))
         \/ World = None /\ \A n \in Nat : FightsSeen = 1..n => f.fight = n + 1
  PROVE  TurnsGrow'
<1>1. log \in Seq(States \cup {None}) /\ log' = Append(log, f)
  BY DEF TypeOK, States, Becomes
<1>2. DOMAIN log = 1..Len(log) /\ Len(log) \in Nat \ {0} /\ DOMAIN log' = 1..(Len(log) + 1)
  BY <1>1, ShownType
<1>3. /\ \A i \in DOMAIN log : log'[i] = log[i]
      /\ log'[Len(log) + 1] = f
  BY <1>1, <1>2
<1>4. PICK n \in Nat : FightsSeen = 1..n
  BY DEF LogOrdered
<1>5. ASSUME NEW i \in DOMAIN log, log[i] # None, log[i].fight = f.fight, log[i].round = f.round
      PROVE  log[i].turn < f.turn
  <2>1. log[i] \in States /\ log[i].fight \in 1..n
    BY <1>1, <1>4, <1>5, FightsBound
  <2>2. CASE World = None
    BY <1>4, <1>5, <2>1, <2>2
  <2>3. CASE World # None
    <3>1. World = log[Len(log)] /\ World \in States /\ Len(log) \in DOMAIN log
      BY <1>2, <2>3, ShownType DEF World
    <3>2. i = Len(log) \/ i < Len(log)
      BY <1>2
    <3>3. /\ log[i].round \in Int /\ f.round \in Int /\ World.round \in Int /\ log[i].fight \in Int
          /\ log[i].turn \in Int /\ f.turn \in Int /\ World.turn \in Int /\ World.fight \in Int
      BY <2>1, <3>1, MovementAssumption, OrderLength DEF States
    <3>4. f.fight = World.fight /\ (World.round < f.round \/ (World.round = f.round /\ World.turn < f.turn))
      BY <2>3
    <3>5. CASE i = Len(log)
      BY <1>5, <3>1, <3>3, <3>4, <3>5
    <3>6. CASE i < Len(log)
      <4>1. log[i].round <= World.round
        BY <1>5, <2>3, <3>1, <3>3, <3>4, <3>6 DEF LogOrdered
      <4>2. World.round = f.round /\ World.turn < f.turn
        BY <1>5, <3>3, <3>4, <4>1
      <4>3. log[i].turn < World.turn
        BY <1>5, <2>3, <3>1, <3>4, <3>6, <4>2 DEF TurnsGrow
      <4>4. QED
        BY <3>3, <4>2, <4>3
    <3>7. QED
      BY <3>2, <3>5, <3>6
  <2>4. QED
    BY <2>2, <2>3
<1>6. QED
  BY <1>2, <1>3, <1>5 DEF TurnsGrow

LEMMA TurnsNone ==
  ASSUME TypeOK, TurnsGrow, Becomes(None)
  PROVE  TurnsGrow'
<1>1. log \in Seq(States \cup {None}) /\ log' = Append(log, None)
  BY DEF TypeOK, States, Becomes
<1>2. DOMAIN log = 1..Len(log) /\ Len(log) \in Nat /\ DOMAIN log' = 1..(Len(log) + 1)
  BY <1>1
<1>3. /\ \A i \in DOMAIN log : log'[i] = log[i]
      /\ log'[Len(log) + 1] = None
  BY <1>1, <1>2
<1>4. QED
  BY <1>2, <1>3 DEF TurnsGrow

LEMMA TurnsNextTurn ==
  ASSUME TypeOK, LogOrdered, TurnsGrow, NextTurn, World # None
  PROVE  TurnsGrow'
<1>1. World \in States
  BY ShownType
<1> DEFINE last == World.turn + 1 = Len(Order)
           next == IF last THEN Fight(World.fight, World.round + 1, 0)
                   ELSE Fight(World.fight, World.round, World.turn + 1)
<1>2. Becomes(next) /\ (last => World.round < MaxRounds)
  BY DEF NextTurn
<1>3. /\ next \in States /\ next.fight = World.fight
      /\ World.round < next.round \/ (World.round = next.round /\ World.turn < next.turn)
  <2>1. /\ World.round \in Nat /\ World.turn \in Nat /\ World.fight \in 1..MaxFights
        /\ World.round \in 0..MaxRounds /\ World.turn \in 0..(Len(Order) - 1)
    BY <1>1, OrderLength, MovementAssumption DEF States
  <2>2. CASE last
    <3>1. next = Fight(World.fight, World.round + 1, 0) /\ World.round + 1 \in 0..MaxRounds
      BY <1>2, <2>1, <2>2, MovementAssumption
    <3> HIDE DEF next
    <3>2. QED
      BY <2>1, <3>1, OrderLength DEF States, Fight
  <2>3. CASE ~last
    <3>1. next = Fight(World.fight, World.round, World.turn + 1) /\ World.turn + 1 \in 0..(Len(Order) - 1)
      BY <2>1, <2>3, OrderLength
    <3> HIDE DEF next
    <3>2. QED
      BY <2>1, <3>1 DEF States, Fight
  <2>4. QED
    BY <2>2, <2>3
<1> HIDE DEF next, last
<1>4. QED
  BY <1>2, <1>3, TurnsAppend

LEMMA TurnsNext ==
  ASSUME TypeOK, LogOrdered, TurnsGrow, [Next]_vars
  PROVE  TurnsGrow'
<1>1. CASE log' = log
  BY <1>1 DEF TurnsGrow
<1>2. CASE log' # log /\ GmAdvances
  BY <1>2, TurnsNextTurn DEF GmAdvances, IsActive
<1>3. CASE log' # log /\ GmEndsOrBegins
  <2>1. CASE World # None /\ Becomes(None)
    BY <2>1, TurnsNone
  <2>2. CASE World = None /\ \E f \in {1 + Cardinality(FightsSeen)} : f <= MaxFights /\ Becomes(Fight(f, 0, 0))
    <3>1. PICK n \in Nat : FightsSeen = 1..n
      BY DEF LogOrdered
    <3>2. Cardinality(FightsSeen) = n
      BY <3>1, FS_Interval
    <3>3. Becomes(Fight(n + 1, 0, 0)) /\ n + 1 <= MaxFights
      BY <2>2, <3>2
    <3>4. Fight(n + 1, 0, 0) \in States
      BY <3>3, OrderLength, MovementAssumption DEF Fight, States
    <3>5. \A l \in Nat : FightsSeen = 1..l => l = n
      BY <3>2, FS_Interval
    <3>6. Fight(n + 1, 0, 0).fight = n + 1
      BY DEF Fight
    <3>7. QED
      BY <2>2, <3>3, <3>4, <3>5, <3>6, TurnsAppend
  <2>3. CASE World # None /\ World.round = 0 /\ Becomes(Fight(World.fight, 1, 0))
    <3>1. Fight(World.fight, 1, 0) \in States
      BY <2>3, ShownType, OrderLength, MovementAssumption DEF Fight, States
    <3>2. Fight(World.fight, 1, 0).fight = World.fight /\ World.round < Fight(World.fight, 1, 0).round
      BY <2>3 DEF Fight
    <3>3. QED
      BY <2>3, <3>1, <3>2, TurnsAppend
  <2>4. QED
    BY <1>3, <2>1, <2>2, <2>3 DEF GmEndsOrBegins, FightsSeen
<1>4. CASE log' # log /\ \E s \in Slots : EndExecuted(s)
  <2>1. PICK s \in Slots : EndExecuted(s)
    BY <1>4
  <2>2. Acting(World) = req[s].of /\ NextTurn
    BY <1>4, <2>1 DEF EndExecuted
  <2>3. World # None
    BY <2>1, <2>2, RequestType, MovementAssumption DEF EndExecuted, At, Acting, IsActive
  <2>4. QED
    BY <2>2, <2>3, TurnsNextTurn
<1>5. QED
  BY <1>1, <1>2, <1>3, <1>4 DEF Next, Foundry, Gateway, MirrorShows, GetMovement, Dash, vars,
     SceneRead, ReadFails, MoveChecked, MoveAnswered, MoveGivenUp, EndAnswered, EndGivenUp,
     MoveExecuted, LateLost, EndAsked, MoveAsked

LEMMA EndedNext ==
  ASSUME TypeOK, OwnEnded, [Next]_vars
  PROVE  OwnEnded'
<1>1. log \in Seq(States \cup {None}) /\ Len(log) \in Nat \ {0} /\ DOMAIN log = 1..Len(log)
  BY ShownType DEF TypeOK, States
<1>2. ASSUME NEW x \in States \cup {None}, log' = Append(log, x)
      PROVE  Len(log') = Len(log) + 1 /\ \A i \in DOMAIN log : i \in DOMAIN log' /\ log'[i] = log[i]
  BY <1>1, <1>2
<1>3. ASSUME \E x : log' = Append(log, x)
      PROVE  Len(log') = Len(log) + 1 /\ \A i \in DOMAIN log : i \in DOMAIN log' /\ log'[i] = log[i]
  BY <1>1, <1>3
<1>4. CASE UNCHANGED <<log, ended>>
  BY <1>4 DEF OwnEnded, Acting, IsActive
<1>5. CASE (\E x : log' = Append(log, x)) /\ UNCHANGED ended
  BY <1>1, <1>3, <1>5 DEF OwnEnded, Acting, IsActive
<1>6. CASE \E s \in Slots : EndExecuted(s) /\ ~UNCHANGED <<log, ended>>
  <2>1. PICK s \in Slots : EndExecuted(s) /\ ~UNCHANGED <<log, ended>>
    BY <1>6
  <2>2. /\ Acting(World) = req[s].of /\ NextTurn /\ ended' = ended \cup {<<Len(log), req[s].of>>}
        /\ req[s].of \in Actors
    BY <2>1, RequestType DEF EndExecuted, At
  <2>3. \E x : log' = Append(log, x)
    BY <2>2 DEF NextTurn, Becomes
  <2>4. ASSUME NEW e \in ended'
        PROVE  /\ e[1] \in DOMAIN log' /\ e[1] < Len(log') /\ e[2] \in Actors
               /\ Acting(log'[e[1]]) = e[2]
    <3>1. CASE e \in ended
      <4>1. e[1] \in DOMAIN log /\ e[1] < Len(log) /\ e[2] \in Actors /\ Acting(log[e[1]]) = e[2]
        BY <3>1 DEF OwnEnded
      <4>2. QED
        BY <1>1, <1>3, <2>3, <4>1
    <3>2. CASE e = <<Len(log), req[s].of>>
      <4>0. e[1] = Len(log) /\ e[2] = req[s].of /\ Len(log) \in DOMAIN log
        BY <1>1, <3>2
      <4>1. log'[e[1]] = World /\ e[1] \in DOMAIN log' /\ e[1] < Len(log') /\ e[2] = req[s].of
        BY <1>1, <1>3, <2>3, <4>0 DEF World
      <4>2. QED
        BY <2>2, <4>1
    <3>3. QED
      BY <2>2, <3>1, <3>2
  <2>5. QED
    BY <2>4 DEF OwnEnded, Acting, IsActive
<1>7. QED
  BY <1>4, <1>5, <1>6 DEF Next, Foundry, Gateway, GmAdvances, GmEndsOrBegins, NextTurn, Becomes,
     MirrorShows, GetMovement, Dash, vars,
     SceneRead, ReadFails, MoveChecked, MoveAnswered, MoveGivenUp, EndAnswered, EndGivenUp,
     MoveExecuted, LateLost, EndAsked, MoveAsked

\* At most one turn of a round is ended in a player's name, for every order of
\* the initiative and any number of requests, repeated or executed late
\* (endCombatTurn's expected combatant).
THEOREM OneTurnEach == Spec => []EndsOneTurn
<1> DEFINE EInv == TypeOK /\ LogOrdered /\ TurnsGrow /\ OwnEnded
<1>1. Init => EInv
  <2> SUFFICES ASSUME Init PROVE TurnsGrow /\ OwnEnded
    BY InitType, OrderedInit
  <2>1. log = <<None>> \/ log = <<Fight(1, 1, 0)>>
    BY DEF Init
  <2>2. \A i, j \in DOMAIN log : ~(i < j)
    BY <2>1
  <2>3. QED
    BY <2>2 DEF Init, TurnsGrow, OwnEnded
<1>2. EInv /\ [Next]_vars => EInv'
  BY NextType, OrderedNext, TurnsNext, EndedNext
<1>3. EInv => EndsOneTurn
  <2> SUFFICES ASSUME EInv, NEW e \in ended, NEW f \in ended, e[2] = f[2],
                      log[e[1]].fight = log[f[1]].fight, log[e[1]].round = log[f[1]].round
               PROVE  e = f
    BY DEF EndsOneTurn
  <2> DEFINE x == log[e[1]]
             y == log[f[1]]
  <2>1. e \in Nat \X Players /\ f \in Nat \X Players
    BY DEF TypeOK
  <2>2. /\ e[1] \in DOMAIN log /\ f[1] \in DOMAIN log /\ Acting(x) = e[2] /\ Acting(y) = e[2]
        /\ e[2] \in Actors
    BY DEF OwnEnded
  <2>3. x \in States \cup {None} /\ y \in States \cup {None}
    BY <2>2 DEF TypeOK, States
  <2>4. x # None /\ y # None /\ Order[x.turn + 1] = e[2] /\ Order[y.turn + 1] = e[2]
    BY <2>2, MovementAssumption DEF Acting, IsActive
  <2> HIDE DEF x, y
  <2>5. /\ x.turn \in Int /\ y.turn \in Int
        /\ x.turn + 1 \in 1..Len(Order) /\ y.turn + 1 \in 1..Len(Order)
    <3>1. x.turn \in 0..(Len(Order) - 1) /\ y.turn \in 0..(Len(Order) - 1)
      BY <2>3, <2>4 DEF States
    <3>2. QED
      BY <3>1, OrderLength
  <2>6. \A i, j \in 1..Len(Order) : Order[i] = Order[j] => i = j
    BY MovementAssumption
  <2>7. x.turn = y.turn
    <3>1. x.turn + 1 = y.turn + 1
      BY <2>4, <2>5, <2>6
    <3>2. QED
      BY <2>5, <3>1
  <2>8. ~(e[1] < f[1]) /\ ~(f[1] < e[1])
    BY <2>2, <2>4, <2>5, <2>7 DEF TurnsGrow, x, y
  <2>9. e[1] = f[1]
    BY <2>1, <2>8
  <2>10. QED
    BY <2>1, <2>9
<1>4. QED
  BY <1>1, <1>2, <1>3, PTL DEF Spec

----------------------------------------------------------------------------
(* Nobody pays for a move that did not take place.  Every foot walked under*)
(* a key has its number there, 1 .. walked[k].  A move charged has been    *)
(* paid with feet of its own, a move whose answer is under way still holds *)
(* those it will be charged with, and no foot is paid for or held twice.   *)
(* So whatever is given up, late or pruned, what is in the budget is at    *)
(* most what was walked, though a pruned key may be charged again.         *)

PaidFeet(paid) ==
    \A k \in Keys : paid[k] \subseteq 1..walked[k] /\ State(budget, k).movedFt <= Cardinality(paid[k])
HeldFeet(paid, held) ==
    \A s \in Slots, k \in Keys : Pending(s, "moved", k) =>
        held[s] \subseteq 1..walked[k] /\ Cardinality(held[s]) = Cost(s) /\ held[s] \cap paid[k] = {}
HeldOnce(held) ==
    \A s, t \in Slots, k \in Keys :
        s # t /\ Pending(s, "moved", k) /\ Pending(t, "moved", k) => held[s] \cap held[t] = {}

FeetNumbered ==
    \E paid \in [Keys -> SUBSET Nat], held \in [Slots -> SUBSET Nat] :
        PaidFeet(paid) /\ HeldFeet(paid, held) /\ HeldOnce(held)

LEMMA UpTo ==
  ASSUME NEW n \in Nat, NEW S \in SUBSET (1..n)
  PROVE  IsFiniteSet(S) /\ Cardinality(S) \in Nat /\ Cardinality(S) <= n
<1>1. IsFiniteSet(1..n) /\ Cardinality(1..n) = n
  BY FS_Interval
<1>2. QED
  BY <1>1, FS_Subset, FS_CardinalityType

LEMMA MovedCost ==
  ASSUME TypeOK, NEW s \in Slots, req[s] # None, req[s].stage \in {"sent", "moved", "late"}
  PROVE  Cost(s) \in Nat
BY RequestType, CostNat DEF Cost

LEMMA BudgetState ==
  ASSUME TypeOK, NEW k
  PROVE  State(budget, k).movedFt \in Nat
BY StateType DEF TypeOK, IsBudget

LEMMA PruneCharges ==
  ASSUME NEW b, IsBudget(b), NEW k
  PROVE  State(Prune(b), k).movedFt <= State(b, k).movedFt
<1>1. State(b, k).movedFt \in Nat
  BY StateType
<1>2. State(Prune(b), k) = State(b, k) \/ State(Prune(b), k) = [movedFt |-> 0, dashed |-> FALSE]
  BY DEF State, Prune
<1>3. QED
  BY <1>1, <1>2

\* A step that walks nothing and charges nothing, with no move newly executed.
LEMMA FeetKept ==
  ASSUME TypeOK, TypeOK', FeetNumbered, walked' = walked,
         \A k \in Keys : State(budget', k).movedFt <= State(budget, k).movedFt,
         \A s \in Slots : req'[s] = req[s] \/ req'[s] = None \/ req'[s].stage # "moved"
  PROVE  FeetNumbered'
<1>1. PICK paid \in [Keys -> SUBSET Nat], held \in [Slots -> SUBSET Nat] :
        PaidFeet(paid) /\ HeldFeet(paid, held) /\ HeldOnce(held)
  BY DEF FeetNumbered
<1>2. \A s \in Slots, k \in Keys : Pending(s, "moved", k)' => Pending(s, "moved", k) /\ Cost(s)' = Cost(s)
  BY DEF Pending, Cost, MoveCost, Chebyshev
<1>3. PaidFeet(paid)'
  <2>1. ASSUME NEW k \in Keys
        PROVE  paid[k] \subseteq 1..walked'[k] /\ State(budget', k).movedFt <= Cardinality(paid[k])
    <3>1. paid[k] \subseteq 1..walked[k] /\ State(budget, k).movedFt <= Cardinality(paid[k])
      BY <1>1 DEF PaidFeet
    <3>2. walked[k] \in Nat
      BY DEF TypeOK
    <3>3. Cardinality(paid[k]) \in Nat
      BY <3>1, <3>2, UpTo
    <3>4. State(budget, k).movedFt \in Nat /\ State(budget', k).movedFt \in Nat
      <4>1. IsBudget(budget) /\ IsBudget(budget')
        BY DEF TypeOK, IsBudget
      <4>2. QED
        BY <4>1, StateType
    <3> HIDE DEF State
    <3>5. State(budget', k).movedFt <= Cardinality(paid[k])
      BY <3>1, <3>3, <3>4
    <3>6. QED
      BY <3>1, <3>5
  <2>2. \A k \in Keys : State(budget, k)' = State(budget', k)
    BY DEF State
  <2>3. QED
    BY <2>1, <2>2 DEF PaidFeet
<1> HIDE DEF Pending, Cost
<1>4. HeldFeet(paid, held)'
  BY <1>1, <1>2 DEF HeldFeet
<1>5. HeldOnce(held)'
  BY <1>1, <1>2 DEF HeldOnce
<1>6. QED
  BY <1>1, <1>3, <1>4, <1>5 DEF FeetNumbered

\* A move is executed: its feet are the latest walked under its key.
LEMMA FeetExecuted ==
  ASSUME TypeOK, TypeOK', FeetNumbered, NEW s \in Slots, MoveExecuted(s)
  PROVE  FeetNumbered'
<1> DEFINE key == req[s].key
           cost == Cost(s)
<1>1. PICK paid \in [Keys -> SUBSET Nat], held \in [Slots -> SUBSET Nat] :
        PaidFeet(paid) /\ HeldFeet(paid, held) /\ HeldOnce(held)
  BY DEF FeetNumbered
<1>2. req[s] # None /\ req[s].stage \in {"sent", "late"} /\ req[s].of \in Actors /\ key \in Keys \cup {None}
  BY RequestType DEF MoveExecuted, At
<1>3. cost \in Nat
  BY <1>2, MovedCost
<1>4. budget' = budget /\ \A t \in Slots : t # s => req'[t] = req[t]
  BY OneSlot DEF MoveExecuted
<1>5. req'[s] = None \/ req'[s] = [req[s] EXCEPT !.stage = "moved"]
  BY DEF MoveExecuted, Becoming, TypeOK
<1>6. \A k \in Keys : walked'[k] = walked[k] + IF k = key /\ key # None THEN cost ELSE 0
  <2>1. CASE key = None
    <3>1. walked' = walked
      BY <2>1 DEF MoveExecuted
    <3>2. QED
      BY <2>1, <3>1 DEF TypeOK
  <2>2. CASE key # None
    <3>1. walked' = [walked EXCEPT ![key] = walked[key] + cost]
      BY <2>2 DEF MoveExecuted, Cost
    <3>2. QED
      BY <3>1, <1>2, <2>2 DEF TypeOK
  <2>3. QED
    BY <2>1, <2>2
<1>7. \A k \in Keys : walked[k] \in Nat
  BY DEF TypeOK
<1>8. \A t \in Slots, k \in Keys : t # s =>
        (Pending(t, "moved", k)' <=> Pending(t, "moved", k)) /\ Cost(t)' = Cost(t)
  BY <1>4 DEF Pending, Cost, MoveCost, Chebyshev
<1>9. \A k \in Keys : Pending(s, "moved", k)' => k = key /\ key # None /\ Cost(s)' = cost
  <2>1. CASE req'[s] = None
    BY <2>1 DEF Pending
  <2>2. CASE req'[s] = [req[s] EXCEPT !.stage = "moved"]
    <3>1. req'[s].key = key /\ req'[s].of = req[s].of /\ req'[s].seen = req[s].seen /\ req'[s].to = req[s].to
      BY <2>2, <1>2, RequestType
    <3>2. QED
      BY <3>1 DEF Pending, Cost, MoveCost, Chebyshev
  <2>3. QED
    BY <1>5, <2>1, <2>2
<1> DEFINE fresh == (walked[key] + 1) .. (walked[key] + cost)
<1>10. ASSUME key \in Keys, key # None
       PROVE  /\ fresh \subseteq 1..walked'[key] /\ Cardinality(fresh) = cost /\ fresh \in SUBSET Nat
              /\ \A S \in SUBSET (1..walked[key]) : fresh \cap S = {}
  <2>1. walked[key] \in Nat /\ walked'[key] = walked[key] + cost
    BY <1>6, <1>7, <1>10
  <2> HIDE DEF cost, key
  <2>2. Cardinality(fresh) = cost
    <3>1. walked[key] + 1 \in Int /\ walked[key] + cost \in Int
      BY <1>3, <2>1
    <3>2. Cardinality(fresh) = IF walked[key] + 1 > walked[key] + cost THEN 0
                               ELSE (walked[key] + cost) - (walked[key] + 1) + 1
      BY <3>1, FS_Interval
    <3> HIDE DEF fresh
    <3>3. QED
      BY <1>3, <2>1, <3>2
  <2>3. fresh \subseteq 1..walked'[key] /\ fresh \in SUBSET Nat
    BY <1>3, <2>1
  <2>4. \A S \in SUBSET (1..walked[key]) : fresh \cap S = {}
    BY <1>3, <2>1
  <2>5. QED
    BY <2>2, <2>3, <2>4
<1> HIDE DEF Pending, Cost, State, cost
<1>11. \A k \in Keys : 1..walked[k] \subseteq 1..walked'[k]
  BY <1>3, <1>6, <1>7
<1>12. PaidFeet(paid)'
  <2>1. \A k \in Keys : paid[k] \subseteq 1..walked'[k] /\ State(budget, k).movedFt <= Cardinality(paid[k])
    BY <1>1, <1>11 DEF PaidFeet
  <2>2. \A k \in Keys : State(budget, k)' = State(budget, k)
    BY <1>4 DEF State
  <2>3. QED
    BY <2>1, <2>2 DEF PaidFeet
<1>13. CASE \A k \in Keys : ~Pending(s, "moved", k)'
  <2>1. HeldFeet(paid, held)'
    BY <1>1, <1>8, <1>11, <1>13 DEF HeldFeet
  <2>2. HeldOnce(held)'
    BY <1>1, <1>8, <1>13 DEF HeldOnce
  <2>3. QED
    BY <1>1, <1>12, <2>1, <2>2 DEF FeetNumbered
<1>14. CASE \E k \in Keys : Pending(s, "moved", k)'
  <2>0. PICK now : now = [held EXCEPT ![s] = fresh]
    OBVIOUS
  <2>1. key \in Keys /\ key # None
    BY <1>9, <1>14
  <2>2. /\ fresh \subseteq 1..walked'[key] /\ Cardinality(fresh) = cost /\ fresh \in SUBSET Nat
        /\ \A S \in SUBSET (1..walked[key]) : fresh \cap S = {}
    BY <1>10, <2>1
  <2> HIDE DEF fresh
  <2>3. now \in [Slots -> SUBSET Nat] /\ now[s] = fresh /\ \A t \in Slots : t # s => now[t] = held[t]
    BY <2>0, <2>2
  <2> HIDE DEF key
  <2>4. HeldFeet(paid, now)'
    <3>1. ASSUME NEW t \in Slots, NEW k \in Keys, Pending(t, "moved", k)'
          PROVE  now[t] \subseteq 1..walked'[k] /\ Cardinality(now[t]) = Cost(t)' /\ now[t] \cap paid[k] = {}
      <4>1. CASE t = s
        <5>1. k = key /\ Cost(t)' = cost
          BY <1>9, <3>1, <4>1
        <5>2. fresh \cap paid[k] = {}
          BY <1>1, <2>2, <5>1 DEF PaidFeet
        <5>3. QED
          BY <2>2, <2>3, <4>1, <5>1, <5>2
      <4>2. CASE t # s
        BY <1>1, <1>8, <1>11, <2>3, <3>1, <4>2 DEF HeldFeet
      <4>3. QED
        BY <4>1, <4>2
    <3>2. QED
      BY <3>1 DEF HeldFeet
  <2>5. HeldOnce(now)'
    <3>1. ASSUME NEW t \in Slots, NEW k \in Keys, t # s, Pending(s, "moved", k)', Pending(t, "moved", k)'
          PROVE  now[s] \cap now[t] = {}
      <4>1. k = key /\ Pending(t, "moved", k)
        BY <1>8, <1>9, <3>1
      <4>2. held[t] \subseteq 1..walked[key]
        BY <1>1, <4>1 DEF HeldFeet
      <4>3. QED
        BY <2>2, <2>3, <3>1, <4>2
    <3>2. ASSUME NEW t \in Slots, NEW u \in Slots, NEW k \in Keys, t # s, u # s, t # u,
                 Pending(t, "moved", k)', Pending(u, "moved", k)'
          PROVE  now[t] \cap now[u] = {}
      BY <1>1, <1>8, <2>3, <3>2 DEF HeldOnce
    <3>3. QED
      BY <3>1, <3>2 DEF HeldOnce
  <2>6. QED
    BY <1>1, <1>12, <2>3, <2>4, <2>5 DEF FeetNumbered
<1>15. QED
  BY <1>13, <1>14

\* A move is answered: the feet it held are those it pays with.
LEMMA FeetAnswered ==
  ASSUME TypeOK, TypeOK', FeetNumbered, NEW s \in Slots, MoveAnswered(s)
  PROVE  FeetNumbered'
<1> DEFINE key == req[s].key
           cost == Cost(s)
           charged == IF key = None THEN budget ELSE AddMove(budget, key, cost)
<1>1. PICK paid \in [Keys -> SUBSET Nat], held \in [Slots -> SUBSET Nat] :
        PaidFeet(paid) /\ HeldFeet(paid, held) /\ HeldOnce(held)
  BY DEF FeetNumbered
<1>2. req[s] # None /\ req[s].stage = "moved" /\ key \in Keys \cup {None}
  BY RequestType DEF MoveAnswered, At
<1>3. cost \in Nat
  BY <1>2, MovedCost
<1>4. walked' = walked /\ req'[s] = None /\ \A t \in Slots : t # s => req'[t] = req[t]
  BY OneSlot DEF MoveAnswered, Becoming, TypeOK
<1>5. IsBudget(budget) /\ IsBudget(charged)
  BY <1>2, <1>3, AddMoveType DEF TypeOK, IsBudget
<1>6. budget' = charged \/ budget' = Prune(charged)
  BY DEF MoveAnswered, Cost
<1>7. \A k \in Keys : State(charged, k).movedFt = State(budget, k).movedFt + IF k = key /\ key # None THEN cost ELSE 0
  <2>1. CASE key = None
    BY <2>1, BudgetState
  <2>2. CASE key # None
    <3>1. charged = Put(budget, key, [State(budget, key) EXCEPT !.movedFt = State(budget, key).movedFt + cost])
      BY <2>2 DEF AddMove
    <3>2. \A k \in Keys : State(charged, k) =
             IF k = key THEN [State(budget, key) EXCEPT !.movedFt = State(budget, key).movedFt + cost]
             ELSE State(budget, k)
      <4> HIDE DEF charged, cost
      <4>1. QED
        BY <3>1 DEF State, Put
    <3>3. \A k \in Keys : State(budget, k) \in [movedFt : Nat, dashed : BOOLEAN]
      BY <1>5, StateType
    <3> HIDE DEF charged, cost, State
    <3>4. QED
      BY <1>2, <1>3, <2>2, <3>2, <3>3
  <2>3. QED
    BY <2>1, <2>2
<1>8. \A k \in Keys : State(budget', k).movedFt <= State(charged, k).movedFt /\ State(budget', k).movedFt \in Nat
  <2>1. \A k \in Keys : State(charged, k).movedFt \in Nat
    BY <1>5, StateType
  <2>2. \A k \in Keys : State(budget', k).movedFt \in Nat
    BY StateType DEF TypeOK, IsBudget
  <2> HIDE DEF charged
  <2>3. \A k \in Keys : State(Prune(charged), k).movedFt <= State(charged, k).movedFt
    BY <1>5, PruneCharges
  <2>4. QED
    BY <1>6, <2>1, <2>2, <2>3
<1>9. \A t \in Slots, k \in Keys : Pending(t, "moved", k)' =>
        t # s /\ Pending(t, "moved", k) /\ Cost(t)' = Cost(t)
  BY <1>4 DEF Pending, Cost, MoveCost, Chebyshev
<1>10. \A k \in Keys : k = key /\ key # None => Pending(s, "moved", k)
  BY <1>2 DEF Pending
<1> HIDE DEF charged
<1> DEFINE after == [k \in Keys |-> IF k = key /\ key # None THEN paid[k] \cup held[s] ELSE paid[k]]
<1>11. PICK now \in [Keys -> SUBSET Nat] :
         \A k \in Keys : now[k] = IF k = key /\ key # None THEN paid[k] \cup held[s] ELSE paid[k]
  <2>1. after \in [Keys -> SUBSET Nat]
    OBVIOUS
  <2>2. QED
    BY <2>1
<1> HIDE DEF after
<1>12. PaidFeet(now)'
  <2>1. ASSUME NEW k \in Keys
        PROVE  now[k] \subseteq 1..walked[k] /\ State(budget', k).movedFt <= Cardinality(now[k])
    <3>1. paid[k] \subseteq 1..walked[k] /\ State(budget, k).movedFt <= Cardinality(paid[k])
      BY <1>1 DEF PaidFeet
    <3>2. walked[k] \in Nat /\ State(budget, k).movedFt \in Nat
      BY BudgetState DEF TypeOK
    <3>3. IsFiniteSet(paid[k]) /\ Cardinality(paid[k]) \in Nat
      BY <3>1, <3>2, UpTo
    <3>4. CASE k = key /\ key # None
      <4>1. held[s] \subseteq 1..walked[k] /\ Cardinality(held[s]) = cost /\ held[s] \cap paid[k] = {}
        BY <1>1, <1>10, <3>4 DEF HeldFeet
      <4>2. IsFiniteSet(held[s])
        BY <4>1, <3>2, UpTo
      <4>3. Cardinality(paid[k] \cup held[s]) = Cardinality(paid[k]) + cost
        <5>1. Cardinality(paid[k] \cap held[s]) = 0
          BY <4>1, FS_EmptySet
        <5>2. Cardinality(paid[k] \cup held[s])
                = Cardinality(paid[k]) + Cardinality(held[s]) - Cardinality(paid[k] \cap held[s])
          BY <3>3, <4>2, FS_Union
        <5> HIDE DEF cost
        <5>3. QED
          BY <5>1, <5>2, <4>1, <3>3, <1>3
      <4>4. now[k] = paid[k] \cup held[s]
        BY <1>11, <3>4
      <4>5. State(charged, k).movedFt = State(budget, k).movedFt + cost
        BY <1>7, <3>4
      <4> HIDE DEF cost, State
      <4>6. State(budget', k).movedFt <= State(budget, k).movedFt + cost
        BY <1>8, <4>5
      <4>7. State(budget', k).movedFt \in Nat
        BY <1>8
      <4>8. State(budget', k).movedFt <= Cardinality(now[k])
        BY <1>3, <3>1, <3>2, <3>3, <4>3, <4>4, <4>6, <4>7
      <4>9. QED
        BY <3>1, <4>1, <4>4, <4>8
    <3>5. CASE ~(k = key /\ key # None)
      <4>1. now[k] = paid[k]
        BY <1>11, <3>5
      <4>2. State(charged, k).movedFt = State(budget, k).movedFt
        BY <1>7, <3>2, <3>5
      <4> HIDE DEF State
      <4>3. State(budget', k).movedFt <= State(budget, k).movedFt /\ State(budget', k).movedFt \in Nat
        BY <1>8, <4>2
      <4>4. QED
        BY <3>1, <3>2, <3>3, <4>1, <4>3
    <3>6. QED
      BY <3>4, <3>5
  <2>2. \A k \in Keys : State(budget, k)' = State(budget', k)
    BY DEF State
  <2>3. QED
    BY <1>4, <2>1, <2>2 DEF PaidFeet
<1>13. HeldFeet(now, held)'
  <2>1. ASSUME NEW t \in Slots, NEW k \in Keys, Pending(t, "moved", k)'
        PROVE  held[t] \subseteq 1..walked'[k] /\ Cardinality(held[t]) = Cost(t)' /\ held[t] \cap now[k] = {}
    <3>1. t # s /\ Pending(t, "moved", k) /\ Cost(t)' = Cost(t)
      BY <1>9, <2>1
    <3>2. held[t] \subseteq 1..walked[k] /\ Cardinality(held[t]) = Cost(t) /\ held[t] \cap paid[k] = {}
      BY <1>1, <3>1 DEF HeldFeet
    <3>3. k = key /\ key # None => held[t] \cap held[s] = {}
      BY <1>1, <1>10, <3>1 DEF HeldOnce
    <3>4. held[t] \cap now[k] = {}
      BY <1>11, <3>2, <3>3
    <3>5. QED
      BY <1>4, <3>1, <3>2, <3>4
  <2>2. QED
    BY <2>1 DEF HeldFeet
<1>14. HeldOnce(held)'
  BY <1>1, <1>9 DEF HeldOnce
<1>15. QED
  BY <1>1, <1>11, <1>12, <1>13, <1>14 DEF FeetNumbered

LEMMA FeetInit == Init => FeetNumbered
<1> SUFFICES ASSUME Init PROVE FeetNumbered
  OBVIOUS
<1>1. PICK paid \in [Keys -> SUBSET Nat], held \in [Slots -> SUBSET Nat] : \A k \in Keys : paid[k] = {}
  <2>1. [k \in Keys |-> {}] \in [Keys -> SUBSET Nat] /\ [s \in Slots |-> {}] \in [Slots -> SUBSET Nat]
    OBVIOUS
  <2>2. QED
    BY <2>1
<1>2. \A k \in Keys : State(budget, k).movedFt = 0
  BY DEF Init, State
<1>3. \A s \in Slots : \A k : ~Pending(s, "moved", k)
  BY DEF Init, Pending
<1>4. PaidFeet(paid)
  <2> HIDE DEF State
  <2>1. Cardinality({}) = 0
    BY FS_EmptySet
  <2>2. ASSUME NEW k \in Keys
        PROVE  paid[k] \subseteq 1..walked[k] /\ State(budget, k).movedFt <= Cardinality(paid[k])
    <3>1. paid[k] = {} /\ State(budget, k).movedFt = 0
      BY <1>1, <1>2
    <3>2. Cardinality(paid[k]) = 0
      BY <2>1, <3>1
    <3>3. QED
      BY <3>1, <3>2
  <2>3. QED
    BY <2>2 DEF PaidFeet
<1>5. HeldFeet(paid, held) /\ HeldOnce(held)
  BY <1>3 DEF HeldFeet, HeldOnce
<1>6. QED
  BY <1>4, <1>5 DEF FeetNumbered

LEMMA FeetNext == TypeOK /\ TypeOK' /\ FeetNumbered /\ [Next]_vars => FeetNumbered'
<1> SUFFICES ASSUME TypeOK, TypeOK', FeetNumbered, [Next]_vars PROVE FeetNumbered'
  OBVIOUS
<1>0. IsBudget(budget) /\ \A k \in Keys : State(budget, k).movedFt \in Nat
  BY BudgetState DEF TypeOK, IsBudget
<1>1. ASSUME walked' = walked, budget' = budget \/ budget' = Prune(budget),
             \A s \in Slots : req'[s] = req[s] \/ req'[s] = None \/ req'[s].stage # "moved"
      PROVE  FeetNumbered'
  <2>1. \A k \in Keys : State(budget', k).movedFt <= State(budget, k).movedFt
    BY <1>0, <1>1, PruneCharges
  <2>2. QED
    BY <1>1, <2>1, FeetKept
<1>2. ASSUME NEW s \in Slots, NEW r, Becoming(s, r), r = None \/ r.stage # "moved"
      PROVE  \A t \in Slots : req'[t] = req[t] \/ req'[t] = None \/ req'[t].stage # "moved"
  BY <1>2 DEF Becoming, TypeOK
<1>3. CASE UNCHANGED vars
  BY <1>1, <1>3 DEF vars
<1>4. CASE GmAdvances \/ GmEndsOrBegins \/ \E n \in DOMAIN log : MirrorShows(n)
  BY <1>1, <1>4 DEF GmAdvances, GmEndsOrBegins, MirrorShows
<1>5. CASE \E s \in Slots : MoveExecuted(s)
  BY <1>5, FeetExecuted
<1>6. CASE \E s \in Slots : MoveAnswered(s)
  BY <1>6, FeetAnswered
<1>7. CASE \E s \in Slots : EndExecuted(s)
  <2>1. PICK s \in Slots : EndExecuted(s)
    BY <1>7
  <2>2. [req[s] EXCEPT !.stage = "ended"].stage # "moved"
    BY <2>1, RequestType DEF EndExecuted, At
  <2>3. QED
    BY <1>1, <1>2, <2>1, <2>2 DEF EndExecuted
<1>8. CASE \E s \in Slots : LateLost(s) \/ ReadFails(s) \/ EndAnswered(s)
  BY <1>1, <1>2, <1>8 DEF LateLost, ReadFails, EndAnswered
<1>9. CASE \E a \in Players : GetMovement(a)
  BY <1>1, <1>9 DEF GetMovement
<1>10. CASE \E a \in Players : Dash(a)
  <2>1. PICK a \in Players : Dash(a)
    BY <1>10
  <2> DEFINE b == Accessed(a)
             key == Key(a)
  <2>2. b = budget \/ b = Prune(budget)
    BY DEF Accessed
  <2>3. IsBudget(b)
    BY AccessedType
  <2>4. budget' = b \/ budget' = Put(b, key, [State(b, key) EXCEPT !.dashed = TRUE])
    BY <2>1 DEF Dash
  <2> HIDE DEF b, key
  <2>5. \A k \in Keys : State(b, k).movedFt <= State(budget, k).movedFt
    BY <1>0, <2>2, PruneCharges
  <2>6. \A k \in Keys : State(budget', k).movedFt = State(b, k).movedFt
    <3>1. [State(b, key) EXCEPT !.dashed = TRUE].movedFt = State(b, key).movedFt
      BY <2>3, StateType
    <3>2. CASE budget' = Put(b, key, [State(b, key) EXCEPT !.dashed = TRUE])
      <4>1. \A k \in Keys : k # key => State(budget', k) = State(b, k)
        BY <3>2 DEF State, Put
      <4>2. State(budget', key) = [State(b, key) EXCEPT !.dashed = TRUE]
        <5> DEFINE new == [State(b, key) EXCEPT !.dashed = TRUE]
        <5> HIDE DEF new
        <5>1. State(Put(b, key, new), key) = new
          BY DEF State, Put
        <5>2. QED
          BY <3>2, <5>1 DEF new
      <4>3. QED
        BY <3>1, <4>1, <4>2
    <3>3. QED
      BY <2>4, <3>2
  <2>7. walked' = walked /\ req' = req
    BY <2>1 DEF Dash
  <2>8. QED
    BY <2>5, <2>6, <2>7, FeetKept
<1>11. CASE \E s \in Slots, a \in Players : EndAsked(s, a) \/ \E c \in Cells : MoveAsked(s, a, c)
  <2>1. PICK s \in Slots, a \in Players : EndAsked(s, a) \/ \E c \in Cells : MoveAsked(s, a, c)
    BY <1>11
  <2>2. \A c : /\ Request("ending", a, None, None, Key(a)).stage # "moved"
                /\ Request("asked", a, c, None, None).stage # "moved"
    BY DEF Request
  <2>3. \E r : Becoming(s, r) /\ r.stage # "moved"
    BY <2>1, <2>2 DEF EndAsked, MoveAsked
  <2>4. QED
    BY <1>1, <1>2, <2>1, <2>3 DEF EndAsked, MoveAsked
<1>12. CASE \E s \in Slots : SceneRead(s)
  <2>1. PICK s \in Slots : SceneRead(s)
    BY <1>12
  <2>2. [req[s] EXCEPT !.stage = "read", !.seen = pos].stage # "moved"
    BY <2>1, RequestType DEF SceneRead, At
  <2>3. QED
    BY <1>1, <1>2, <2>1, <2>2 DEF SceneRead
<1>13. CASE \E s \in Slots : MoveChecked(s)
  <2>1. PICK s \in Slots : MoveChecked(s)
    BY <1>13
  <2>2. \A k : [req[s] EXCEPT !.stage = "sent", !.key = k].stage # "moved"
    BY <2>1, RequestType DEF MoveChecked, At
  <2>3. \E r : Becoming(s, r) /\ (r = None \/ r.stage # "moved")
    BY <2>1, <2>2 DEF MoveChecked
  <2>4. budget' = budget \/ budget' = Prune(budget)
    BY <2>1 DEF MoveChecked, Accessed
  <2>5. QED
    BY <1>1, <1>2, <2>1, <2>3, <2>4 DEF MoveChecked
<1>14. CASE \E s \in Slots : MoveGivenUp(s)
  <2>1. PICK s \in Slots : MoveGivenUp(s)
    BY <1>14
  <2>2. req[s].stage = "sent" => [req[s] EXCEPT !.stage = "late"].stage # "moved"
    BY <2>1, RequestType DEF MoveGivenUp, At
  <2>3. QED
    BY <1>1, <1>2, <2>1, <2>2 DEF MoveGivenUp
<1>15. CASE \E s \in Slots : EndGivenUp(s)
  <2>1. PICK s \in Slots : EndGivenUp(s)
    BY <1>15
  <2>2. [req[s] EXCEPT !.stage = "endLate"].stage # "moved"
    BY <2>1, RequestType DEF EndGivenUp, At
  <2>3. QED
    BY <1>1, <1>2, <2>1, <2>2 DEF EndGivenUp
<1>16. QED
  BY <1>3, <1>4, <1>5, <1>6, <1>7, <1>8, <1>9, <1>10, <1>11, <1>12, <1>13, <1>14, <1>15
  DEF Next, Foundry, Gateway

\* What the budget charges an actor in a round was walked in that round, calm or
\* not: for every number of requests under way, whichever of them are given up,
\* executed late or lost, and however often the budget is pruned.
THEOREM OnlyWalkedFeetAreCharged == Spec => []NothingChargedUnwalked
<1>1. Init => TypeOK /\ FeetNumbered
  BY InitType, FeetInit
<1>2. TypeOK /\ FeetNumbered /\ [Next]_vars => (TypeOK /\ FeetNumbered)'
  BY NextType, FeetNext
<1>3. TypeOK /\ FeetNumbered => NothingChargedUnwalked
  <2> SUFFICES ASSUME TypeOK, FeetNumbered, NEW k \in DOMAIN budget
               PROVE  budget[k].movedFt <= walked[k]
    BY DEF NothingChargedUnwalked
  <2>1. k \in Keys /\ walked[k] \in Nat /\ budget[k].movedFt \in Nat
    BY DEF TypeOK
  <2>2. PICK paid \in [Keys -> SUBSET Nat] : PaidFeet(paid)
    BY DEF FeetNumbered
  <2>3. paid[k] \subseteq 1..walked[k] /\ budget[k].movedFt <= Cardinality(paid[k])
    BY <2>1, <2>2 DEF PaidFeet, State
  <2>4. QED
    BY <2>1, <2>3, UpTo
<1>4. QED
  BY <1>1, <1>2, <1>3, PTL DEF Spec
=============================================================================
