---------------------------- MODULE WritesProofs ----------------------------
(***************************************************************************)
(* What the write routes promise, for every set of requests, documents,    *)
(* bodies and faults.  The calls a request still has to make always form   *)
(* one of a few plans (Plan: one call; an activation and what follows it;  *)
(* the rest of create, give and delete), whatever the decision was made    *)
(* of.  The invariant says of each request where it may stand given what   *)
(* has been executed for it and what was given up on (Orderly): a use, a   *)
(* gift or a creation is asked for only by a request that has done nothing *)
(* yet (Pristine), so nothing is paid or given twice, and a 4xx leaves     *)
(* nothing behind.  A second invariant (AllHonest) says what an untroubled *)
(* request is still going to do, or has had done, for what it was asked:   *)
(* it rests on what each action an adapter offers asks the relay for       *)
(* (DndFits, VampireFits).                                                 *)
(*                                                                         *)
(* Then what an intent writes and what a sheet offers, for every document. *)
(* The last theorem carries the offers over to every sheet the world gets  *)
(* to: items keep ids of their own whatever is given, moved, removed or    *)
(* edited (WellKept), so the item an action names is the one it was        *)
(* offered for; and they lie in containers, so none is lost from sight.    *)
(*                                                                         *)
(* Last, the counters.  A document is fit for more when it makes sense and *)
(* its counters are numbers (Fit).  As long as nothing is to blame, so is  *)
(* every document a request has read, each write it is about to make would *)
(* leave that document fit, and each heal is within its maximum (Wise,     *)
(* Sensible, Healthy).  A write that is executed and not to blame finds    *)
(* the document it was computed from.                                      *)
(***************************************************************************)
EXTENDS Writes, SequenceTheorems, WellFoundedInduction, TLAPS

\* Calls that use an ability, that give an item, and all of them; and the
\* calls that come one after the other in a plan of two.
Uses == {"activate", "targets"}
Gives == {"give", "giveMade"}
Dos == Uses \cup Gives \cup
  {"roll", "effect", "equip", "attune", "updateItem", "update", "removeEffect", "removeItem",
   "command", "create", "delete"}
Couples == {<<"activate", "roll">>, <<"activate", "effect">>, <<"giveMade", "delete">>}

Plan(r, todo) ==
  /\ \/ todo = <<todo[1]>> /\ todo[1].do \notin {"create", "giveMade"}
     \/ todo = <<todo[1], todo[2]>> /\ <<todo[1].do, todo[2].do>> \in Couples
     \/ /\ todo = <<todo[1], todo[2], todo[3]>>
        /\ <<todo[1].do, todo[2].do, todo[3].do>> = <<"create", "giveMade", "delete">>
  /\ \A k \in DOMAIN todo : todo[k].by = r /\ todo[k].do \in Dos

\* The calls a plan for a route begins with.
Begins(route, do) ==
  /\ route = "items" <=> do \in {"create", "giveMade", "delete"}
  /\ route = "add" <=> do = "give"

LEMMA PlanOfOne ==
  ASSUME NEW r, NEW c, c.by = r, c.do \in Dos \ {"create", "giveMade"}
  PROVE  Plan(r, <<c>>)
BY DEF Plan

LEMMA PlanOfTwo ==
  ASSUME NEW r, NEW c, NEW d, c.by = r, d.by = r, <<c.do, d.do>> \in Couples
  PROVE  Plan(r, <<c, d>>)
<1>1. c.do \in Dos /\ d.do \in Dos
  BY DEF Couples, Dos, Uses, Gives
<1>2. QED
  BY <1>1 DEF Plan

LEMMA CallsArePlanned ==
  ASSUME NEW r, NEW actor, NEW action
  PROVE  LET todo == CallsOf(r, actor, action)
         IN Plan(r, todo) /\ todo[1].do \notin Gives \cup {"create", "delete"}
<1> DEFINE todo == CallsOf(r, actor, action)
           Fine(t) == Plan(r, t) /\ t[1].do \notin Gives \cup {"create", "delete"}
<1>1. \A c : c.by = r /\ c.do \in Dos \ (Gives \cup {"create", "delete"}) => Fine(<<c>>)
  BY PlanOfOne DEF Gives
<1>2. \A c, d : c.by = r /\ d.by = r /\ <<c.do, d.do>> \in {<<"activate", "roll">>, <<"activate", "effect">>}
        => Fine(<<c, d>>)
  <2>1. ASSUME NEW c, NEW d, c.by = r, d.by = r, c.do = "activate", d.do \in {"roll", "effect"}
        PROVE  Fine(<<c, d>>)
    BY <2>1, PlanOfTwo DEF Gives, Couples
  <2>2. QED
    BY <2>1
<1>3. \A i, s, via : /\ Activation(r, i, s, via).by = r
                     /\ Activation(r, i, s, via).do = "activate"
  BY DEF Activation
<1>4. \A use : ActivateCall(r, use, action).by = r /\ ActivateCall(r, use, action).do = "activate"
  BY <1>3 DEF ActivateCall
<1>5. RollCall(r, action).by = r /\ RollCall(r, action).do = "roll"
  BY DEF RollCall, Roll
<1> HIDE DEF Fine
<1>6. Fine(CallsOf(r, actor, action))
  BY <1>1, <1>2, <1>4, <1>5 DEF CallsOf, Dos, Uses, Gives
<1>7. QED
  BY <1>6 DEF Fine

LEMMA DecisionsArePlanned ==
  ASSUME NEW r, NEW actor, NEW body,
         body.route \in {"intents", "actions", "items", "add", "remove"},
         Decision(r, actor, body).code = 200
  PROVE  LET todo == Decision(r, actor, body).todo
         IN Plan(r, todo) /\ Begins(body.route, todo[1].do) /\ todo[1].do \notin {"giveMade", "delete"}
<1> DEFINE d == Decision(r, actor, body)
           Fine(x) == x.code = 200 =>
                        /\ Plan(r, x.todo)
                        /\ Begins(body.route, x.todo[1].do) /\ x.todo[1].do \notin {"giveMade", "delete"}
<1>1. \A code : code # 200 => Fine(Refuse(code))
  BY DEF Refuse
<1>2. \A error : StatusOf(error) # 200
  BY DEF StatusOf
<1>3. \A action : body.route = "actions" => Fine(Ask(CallsOf(r, actor, action)))
  BY CallsArePlanned DEF Ask, Begins, Gives
<1>4. \A c : /\ c.by = r /\ c.do \in Dos \ {"create", "giveMade", "delete"}
             /\ Begins(body.route, c.do)
            => Fine(Ask(<<c>>))
  BY PlanOfOne DEF Ask
<1>5. ASSUME NEW c, NEW e, NEW f, c.by = r, e.by = r, f.by = r,
             c.do = "create", e.do = "giveMade", f.do = "delete", body.route = "items"
      PROVE  Fine(Ask(<<c, e, f>>))
  <2>1. Plan(r, <<c, e, f>>)
    BY <1>5 DEF Plan, Dos, Uses, Gives
  <2>2. QED
    BY <1>5, <2>1 DEF Ask, Begins
<1> HIDE DEF Fine
<1>6. \A action : body.route = "actions" => Fine(DecideBuilt(r, actor, action))
  BY <1>1, <1>2, <1>3 DEF DecideBuilt
<1>7. body.route = "actions" => Fine(DecideAction(r, actor, body))
  BY <1>1, <1>6 DEF DecideAction
<1>8. body.route = "intents" => Fine(DecideIntent(r, actor, body))
  <2> SUFFICES ASSUME body.route = "intents" PROVE Fine(DecideIntent(r, actor, body))
    OBVIOUS
  <2>1. \A update : Fine(Ask(<<[do |-> "update", by |-> r, update |-> update]>>))
    <3>1. Begins(body.route, "update") /\ "update" \in Dos \ {"create", "giveMade", "delete"}
      BY DEF Begins, Dos
    <3>2. QED
      BY <1>4, <3>1
  <2>2. QED
    BY <1>1, <1>2, <2>1 DEF DecideIntent
<1>9. body.route = "items" => Fine(DecideItem(r, actor, body))
  <2> SUFFICES ASSUME body.route = "items" PROVE Fine(DecideItem(r, actor, body))
    OBVIOUS
  <2>1. \A item : Fine(Ask(<<[do |-> "create", by |-> r],
                            [do |-> "giveMade", by |-> r, item |-> item], [do |-> "delete", by |-> r]>>))
    BY <1>5
  <2>2. QED
    BY <1>1, <2>1 DEF DecideItem
<1>10. body.route \in {"add", "remove"} => Fine(DecideLibrary(r, actor, body))
  <2>1. \A item : body.route = "add" => Fine(Ask(<<[do |-> "give", by |-> r, item |-> item]>>))
    BY <1>4 DEF Begins, Dos, Gives
  <2>2. \A id : body.route = "remove" => Fine(Ask(<<[do |-> "removeItem", by |-> r, itemId |-> id]>>))
    BY <1>4 DEF Begins, Dos
  <2>3. QED
    BY <1>1, <2>1, <2>2 DEF DecideLibrary
<1>11. Fine(d)
  BY <1>1, <1>7, <1>8, <1>9, <1>10 DEF Decision
<1>12. QED
  BY <1>11 DEF Fine

\* An answer moves a request on, to the next call of its plan or to its end.
Follows ==
  Couples \cup {<<"create", "giveMade">>, <<"roll", "update">>}

Moved(r, c, answer) ==
  LET q == req'[r] IN
  /\ DOMAIN req' = Requests /\ \A s \in Requests \ {r} : req'[s] = req[s]
  /\ q.body = req[r].body
  /\ \/ /\ q.stage = "done" /\ q.reply = 422
        /\ answer \in {"refused", "disabled"} /\ c.do \in Uses
     \/ /\ q.stage = "done" /\ q.reply = 502
        /\ c.do # "giveMade" /\ (c.do = "create" => answer # "ok")
     \/ /\ q.stage = "call" /\ Plan(r, q.todo)
        /\ c.do = "activate" /\ q.todo[1].do = "activate" /\ answer = "disabled"
     \/ /\ q.stage = "call" /\ Plan(r, q.todo)
        /\ <<c.do, q.todo[1].do>> \in Follows
        /\ c.do = "create" => answer = "ok"
        /\ c.do = "giveMade" /\ q.gave => answer = "ok"
     \/ /\ q.stage = "fresh" \/ (q.stage = "done" /\ q.reply = 200)
        /\ c.do \notin {"create", "giveMade"}
        /\ c.do = "give" => answer = "ok"
        /\ req[r].gave

LEMMA Tuples ==
  ASSUME NEW a, NEW b, NEW c, NEW d
  PROVE  /\ Head(<<a>>) = a /\ Tail(<<a>>) = <<>> /\ <<c>> \o <<>> = <<c>>
         /\ Head(<<a, b>>) = a /\ Tail(<<a, b>>) = <<b>> /\ <<c>> \o <<b>> = <<c, b>> /\ <<b>> # <<>>
         /\ Head(<<a, b, d>>) = a /\ Tail(<<a, b, d>>) = <<b, d>> /\ <<b, d>> # <<>>
<1>1. Head(<<a>>) = a /\ Head(<<a, b>>) = a /\ Head(<<a, b, d>>) = a
  OBVIOUS
<1>2. Tail(<<a>>) = <<>> /\ Tail(<<a, b>>) = <<b>> /\ Tail(<<a, b, d>>) = <<b, d>>
  OBVIOUS
<1>3. <<c>> \o <<>> = <<c>>
  OBVIOUS
<1>a. <<c>> \o <<b>> = <<c, b>>
  <2>1. <<c>> \in Seq({b, c}) /\ b \in {b, c}
    OBVIOUS
  <2>2. Append(<<c>>, b) = <<c>> \o <<b>>
    BY <2>1, AppendIsConcat
  <2>3. Append(<<c>>, b) = <<c, b>>
    <3> DEFINE s == Append(<<c>>, b)
    <3>1. s \in Seq({b, c}) /\ Len(s) = 2 /\ s[1] = c /\ s[2] = b
      BY <2>1, AppendProperties
    <3>2. <<c, b>> \in Seq({b, c}) /\ Len(<<c, b>>) = 2
      OBVIOUS
    <3>3. \A i \in 1..2 : s[i] = <<c, b>>[i]
      BY <3>1
    <3> HIDE DEF s
    <3>4. s = <<c, b>>
      BY <3>1, <3>2, <3>3, SeqEqual
    <3>5. QED
      BY <3>4 DEF s
  <2>4. QED
    BY <2>2, <2>3
<1>4. <<b>> # <<>> /\ <<b, d>> # <<>>
  OBVIOUS
<1>5. QED
  BY <1>1, <1>2, <1>3, <1>4, <1>a

Unfolds(r, todo, c) ==
  /\ Head(todo) = todo[1]
  /\ \/ Tail(todo) = <<>> /\ todo[1].do \notin {"create", "giveMade"}
     \/ /\ Tail(todo) # <<>> /\ Plan(r, Tail(todo))
        /\ <<todo[1].do, Tail(todo)[1].do>> \in Follows
        /\ todo[1].do # "roll"
  /\ todo[1].do = "activate" =>
       Plan(r, <<c>> \o Tail(todo)) /\ (<<c>> \o Tail(todo))[1] = c

LEMMA RestOfPlan ==
  ASSUME NEW r, NEW todo, Plan(r, todo), NEW c, c.by = r, c.do = "activate"
  PROVE  Unfolds(r, todo, c)
<1>1. CASE todo = <<todo[1]>> /\ todo[1].do \notin {"create", "giveMade"}
  <2>1. PICK a : todo = <<a>> /\ a = todo[1]
    BY <1>1
  <2>2. Head(todo) = a /\ Tail(todo) = <<>> /\ <<c>> \o Tail(todo) = <<c>>
    BY <2>1, Tuples
  <2>3. Plan(r, <<c>>) /\ <<c>>[1] = c
    BY PlanOfOne DEF Dos, Uses
  <2>4. QED
    BY <1>1, <2>1, <2>2, <2>3 DEF Unfolds
<1>2. CASE todo = <<todo[1], todo[2]>> /\ <<todo[1].do, todo[2].do>> \in Couples
  <2>1. PICK a, b : todo = <<a, b>> /\ a = todo[1] /\ b = todo[2]
    BY <1>2
  <2>2. a.by = r /\ b.by = r /\ <<a.do, b.do>> \in Couples
    BY <1>2, <2>1 DEF Plan
  <2>3. Head(todo) = a /\ Tail(todo) = <<b>> /\ <<c>> \o <<b>> = <<c, b>> /\ <<b>> # <<>>
    <3>1. Head(<<a, b>>) = a /\ Tail(<<a, b>>) = <<b>> /\ <<c>> \o <<b>> = <<c, b>> /\ <<b>> # <<>>
      BY Tuples
    <3>2. QED
      BY <2>1, <3>1
  <2>4. b.do \in {"roll", "effect", "delete"} /\ (a.do = "activate" => b.do \in {"roll", "effect"})
    BY <2>2 DEF Couples
  <2>5. Plan(r, <<b>>)
    BY <2>2, <2>4, PlanOfOne DEF Dos
  <2>6. a.do = "activate" => Plan(r, <<c, b>>) /\ <<c, b>>[1] = c
    BY <2>2, <2>4, PlanOfTwo DEF Couples
  <2>7. <<a.do, b.do>> \in Follows /\ a.do # "roll" /\ <<b>>[1] = b
    BY <2>2 DEF Couples, Follows
  <2>8. QED
    BY <2>1, <2>3, <2>5, <2>6, <2>7 DEF Unfolds
<1>3. CASE /\ todo = <<todo[1], todo[2], todo[3]>>
           /\ <<todo[1].do, todo[2].do, todo[3].do>> = <<"create", "giveMade", "delete">>
  <2>1. PICK a, b, d : todo = <<a, b, d>> /\ a = todo[1] /\ b = todo[2] /\ d = todo[3]
    BY <1>3
  <2>2. b.by = r /\ d.by = r /\ a.do = "create" /\ b.do = "giveMade" /\ d.do = "delete"
    BY <1>3, <2>1 DEF Plan
  <2>3. Head(todo) = a /\ Tail(todo) = <<b, d>> /\ <<b, d>> # <<>> /\ <<b, d>>[1] = b
    BY <2>1, Tuples
  <2>4. Plan(r, <<b, d>>)
    BY <2>2, PlanOfTwo DEF Couples
  <2>5. <<a.do, b.do>> \in Follows
    BY <2>2 DEF Follows
  <2>6. QED
    BY <2>1, <2>2, <2>3, <2>4, <2>5 DEF Unfolds
<1>4. QED
  BY <1>1, <1>2, <1>3 DEF Plan

LEMMA AnswerMoves ==
  ASSUME NEW r \in Requests, DOMAIN req = Requests, Plan(r, req[r].todo),
         NEW answer, NEW total, Answered(r, Head(req[r].todo), answer, total)
  PROVE  Moved(r, Head(req[r].todo), answer)
<1> DEFINE todo == req[r].todo
           c == Head(todo)
           then == AfterAnswer(c, answer)
           rest == Rest(r, c, total)
           again == Activation(r, c.itemId, c.slotKey, "module")
<1>1. again.by = r /\ again.do = "activate"
  BY DEF Activation
<1> HIDE DEF again
<1>2. /\ c = todo[1]
      /\ \/ Tail(todo) = <<>> /\ c.do \notin {"create", "giveMade"}
         \/ /\ Tail(todo) # <<>> /\ Plan(r, Tail(todo))
            /\ <<c.do, Tail(todo)[1].do>> \in Follows
            /\ c.do # "roll"
      /\ c.do = "activate" =>
           Plan(r, <<again>> \o Tail(todo)) /\ (<<again>> \o Tail(todo))[1] = again
  <2>1. Unfolds(r, todo, again)
    BY <1>1, RestOfPlan
  <2>2. QED
    BY <2>1 DEF Unfolds
<1>3. \/ rest = <<>> /\ c.do \notin {"create", "giveMade"}
      \/ rest # <<>> /\ Plan(r, rest) /\ <<c.do, rest[1].do>> \in Follows
  <2>1. CASE c.do = "roll" /\ c.heal # NoHeal
    <3>1. PICK heal : heal = HealUpdate(r, c.heal, total)
      OBVIOUS
    <3>2. rest = <<heal>> \o Tail(todo) /\ Tail(todo) = <<>>
      BY <1>2, <2>1, <3>1 DEF Rest
    <3>3. heal.by = r /\ heal.do = "update"
      BY <3>1 DEF HealUpdate
    <3>4. rest = <<heal>> /\ <<heal>> # <<>> /\ <<heal>>[1] = heal
      BY <3>2, Tuples
    <3>5. Plan(r, <<heal>>)
      BY <3>3, PlanOfOne DEF Dos
    <3>6. QED
      BY <2>1, <3>3, <3>4, <3>5 DEF Follows
  <2>2. CASE ~(c.do = "roll" /\ c.heal # NoHeal)
    <3>1. rest = Tail(todo)
      BY <2>2 DEF Rest
    <3>2. QED
      BY <1>2, <3>1
  <2>3. QED
    BY <2>1, <2>2
<1>4. /\ then \in {"next", "fallback", "unprocessable", "upstream"}
      /\ then = "unprocessable" => answer \in {"refused", "disabled"} /\ c.do \in Uses
      /\ then = "fallback" => answer = "disabled" /\ c.do = "activate"
      /\ then = "next" /\ c.do \in {"create", "give"} => answer = "ok"
      /\ then = "upstream" => c.do # "giveMade" /\ answer # "ok"
  BY DEF AfterAnswer, ReadsErrorBody, NeverThrows, Uses
<1> HIDE DEF then, rest, c, again
<1>5. CASE then = "fallback"
  <2>1. PICK list : list = <<again>> \o Tail(todo)
    OBVIOUS
  <2>2. Continue(r, req[r].known, list, req[r].gave)
    BY <1>5, <2>1 DEF Answered, then, c, again
  <2>3. Plan(r, list) /\ list[1] = again /\ c.do = "activate" /\ answer = "disabled"
    BY <1>2, <1>4, <1>5, <2>1
  <2>4. QED
    BY <1>1, <2>2, <2>3 DEF Continue, Standing, Moved, c
<1>6. CASE then = "unprocessable"
  <2>1. Reply(r, 422)
    BY <1>6 DEF Answered, then, c
  <2>2. QED
    BY <1>4, <1>6, <2>1 DEF Reply, Standing, Moved, c
<1>7. CASE then = "upstream"
  <2>1. Reply(r, 502)
    BY <1>7 DEF Answered, then, c
  <2>2. QED
    BY <1>4, <1>7, <2>1 DEF Reply, Standing, Moved, c
<1>8. CASE then = "next" /\ rest # <<>>
  <2>1. PICK known, gave :
          /\ gave = (req[r].gave /\ (c.do = "giveMade" => answer = "ok"))
          /\ Continue(r, known, rest, gave)
    BY <1>8 DEF Answered, then, rest, c
  <2>2. Plan(r, rest) /\ <<c.do, rest[1].do>> \in Follows /\ (c.do = "create" => answer = "ok")
    BY <1>3, <1>4, <1>8
  <2>3. QED
    BY <2>1, <2>2 DEF Continue, Standing, Moved, c
<1>9. CASE then = "next" /\ rest = <<>>
  <2>1. c.do \notin {"create", "giveMade"} /\ (c.do = "give" => answer = "ok")
    BY <1>3, <1>4, <1>9
  <2>2. \/ Reply(r, 502)
        \/ /\ req[r].gave
           /\ Reply(r, 200) \/ req' = [req EXCEPT ![r] = Standing("fresh", @.body)]
    BY <1>9, <2>1 DEF Answered, then, rest, c
  <2>3. QED
    BY <2>1, <2>2 DEF Reply, Standing, Moved, c
<1>10. QED
  BY <1>4, <1>5, <1>6, <1>7, <1>8, <1>9

-----------------------------------------------------------------------------
\* The invariant

\* What was executed for a request, and what may yet be, of certain kinds.
Spots(list, D) == {k \in DOMAIN list : list[k] \in D}
LateOf(r, D) == {c \in late : c.by = r /\ c.do \in D}
Unspent(r, D) == Spots(performed[r], D) = {} /\ LateOf(r, D) = {}
Pristine(r) == performed[r] = <<>> /\ LateOf(r, Dos) = {}

\* At most once, a late call included.
Once(r, D) ==
  /\ AtMostOne(Spots(performed[r], D)) /\ AtMostOne(LateOf(r, D))
  /\ LateOf(r, D) # {} => Spots(performed[r], D) = {}

Bounded ==
  /\ sc \in Scenarios
  /\ DOMAIN req = Requests
  /\ performed \in [Requests -> Seq(Dos)]
  /\ \A c \in late : c.by \in Requests /\ c.do \in Dos /\ c.by \in troubled
  /\ world = [doc |-> world.doc, others |-> world.others, hp |-> world.hp,
              scratch |-> world.scratch]

Given4xx == {403, 404, 409, 422}

\* Where a request stands says what was done for it.
Staged(q) ==
  /\ q.stage \in {"idle", "details", "call", "fresh", "done"}
  /\ q.stage # "idle" => q.body.route \in Routes
  /\ q.stage = "details" => q.body.route # "roll"
Called(r, q) ==
  q.stage = "call" =>
    /\ Plan(r, q.todo) /\ Begins(q.body.route, q.todo[1].do)
    /\ q.todo[1].do \in Uses \cup {"give", "create"} => Pristine(r)
    /\ q.todo[1].do = "giveMade" => Unspent(r, Gives)
    /\ q.todo[1].do = "delete" /\ q.gave /\ r \notin troubled => Spots(performed[r], Gives) # {}
Ended(r, q) ==
  /\ q.stage \in {"idle", "details"} \/ (q.stage = "done" /\ q.reply \in Given4xx) => Pristine(r)
  /\ /\ q.stage = "fresh" \/ (q.stage = "done" /\ q.reply = 200)
     /\ q.body.route \in {"items", "add"} /\ r \notin troubled
     => Spots(performed[r], Gives) # {}
Tidy(r, q) ==
  r \in world.scratch /\ r \notin troubled =>
    q.stage = "call" /\ q.todo[1].do \in {"giveMade", "delete"}
Orderly(r) ==
  /\ Staged(req[r]) /\ Called(r, req[r]) /\ Ended(r, req[r]) /\ Tidy(r, req[r])
  /\ Once(r, Uses) /\ Once(r, Gives)

Inv == Bounded /\ \A r \in Requests : Orderly(r)

-----------------------------------------------------------------------------
\* What the calls do

LEMMA SpotsAppend ==
  ASSUME NEW s \in Seq(Dos), NEW e \in Dos, NEW D
  PROVE  /\ Spots(Append(s, e), D) = Spots(s, D) \cup (IF e \in D THEN {Len(s) + 1} ELSE {})
         /\ Len(s) + 1 \notin Spots(s, D)
<1>1. /\ DOMAIN Append(s, e) = 1..(Len(s) + 1) /\ DOMAIN s = 1..Len(s) /\ Len(s) \in Nat
      /\ \A i \in 1..Len(s) : Append(s, e)[i] = s[i]
      /\ Append(s, e)[Len(s) + 1] = e
  BY AppendProperties
<1>2. QED
  BY <1>1 DEF Spots

Scratch(w) == w = [doc |-> w.doc, others |-> w.others, hp |-> w.hp, scratch |-> w.scratch]

LEMMA ExecutedScratch ==
  ASSUME NEW w, Scratch(w), NEW c, c.do \in Dos, NEW hit
  PROVE  LET v == Executed(w, c, hit) IN
         /\ Scratch(v)
         /\ v.scratch = IF c.do = "create" THEN w.scratch \cup {c.by}
                        ELSE IF c.do = "delete" THEN w.scratch \ {c.by} ELSE w.scratch
<1> DEFINE v == Executed(w, c, hit)
<1>1. PICK doc, others, hp, scratch :
        w = [doc |-> doc, others |-> others, hp |-> hp, scratch |-> scratch]
  BY DEF Scratch
<1>2. CASE c.do = "create"
  <2>1. v = [w EXCEPT !.scratch = @ \cup {c.by}]
    BY <1>2 DEF Executed
  <2>2. QED
    BY <1>1, <1>2, <2>1 DEF Scratch
<1>3. CASE c.do = "delete"
  <2>1. v = [w EXCEPT !.scratch = @ \ {c.by}]
    BY <1>3 DEF Executed
  <2>2. QED
    BY <1>1, <1>3, <2>1 DEF Scratch
<1>4. CASE c.do \notin {"create", "delete"}
  <2>1. \A d, o, h : Scratch([w EXCEPT !.doc = d]) /\ [w EXCEPT !.doc = d].scratch = w.scratch
    BY <1>1 DEF Scratch
  <2>2. \A u, h : Scratch(u) => Scratch([u EXCEPT !.hp = h]) /\ [u EXCEPT !.hp = h].scratch = u.scratch
    <3> SUFFICES ASSUME NEW u, NEW h, Scratch(u)
                 PROVE  Scratch([u EXCEPT !.hp = h]) /\ [u EXCEPT !.hp = h].scratch = u.scratch
      OBVIOUS
    <3>1. PICK d, o, p, s : u = [doc |-> d, others |-> o, hp |-> p, scratch |-> s]
      BY DEF Scratch
    <3>2. QED
      BY <3>1 DEF Scratch
  <2>3. \A o : LET u == [w EXCEPT !.others = o] IN Scratch(u) /\ u.scratch = w.scratch
    BY <1>1 DEF Scratch
  <2>4. Scratch(v) /\ v.scratch = w.scratch
    <3>1. Scratch(Paid(w, c)) /\ Paid(w, c).scratch = w.scratch
      BY <2>1 DEF Paid
    <3>2. CASE c.do = "targets"
      <4>1. PICK h : v = [Paid(w, c) EXCEPT !.hp = h]
        BY <3>2 DEF Executed
      <4>2. QED
        BY <2>2, <3>1, <4>1
    <3>3. CASE c.do \in {"effect"}
      <4>1. (\E d : v = [w EXCEPT !.doc = d]) \/ (\E o : v = [w EXCEPT !.others = o])
        BY <3>3 DEF Executed
      <4>2. QED
        BY <2>1, <2>3, <4>1
    <3>4. CASE c.do \notin {"targets", "effect", "activate", "roll"}
      <4>1. \E d : v = [w EXCEPT !.doc = d]
        BY <1>4, <3>4 DEF Executed, Dos, Uses, Gives
      <4>2. QED
        BY <2>1, <4>1
    <3>5. CASE c.do = "activate"
      BY <3>1, <3>5 DEF Executed
    <3>6. CASE c.do = "roll"
      BY <3>6 DEF Executed
    <3>7. QED
      BY <3>2, <3>3, <3>4, <3>5, <3>6
  <2>5. QED
    BY <1>4, <2>4
<1>5. QED
  BY <1>2, <1>3, <1>4

-----------------------------------------------------------------------------
\* A step of one request leaves the others alone.
Touches(r) ==
  \A q \in Requests \ {r} :
    /\ req'[q] = req[q] /\ performed'[q] = performed[q]
    /\ \A c : c.by = q => (c \in late' <=> c \in late)
    /\ q \in world'.scratch <=> q \in world.scratch
    /\ q \in troubled => q \in troubled'

LEMMA OthersKept ==
  ASSUME NEW r, NEW q \in Requests, q # r, Orderly(q), Touches(r)
  PROVE  Orderly(q)'
<1>1. /\ req'[q] = req[q] /\ performed'[q] = performed[q]
      /\ \A c : c.by = q => (c \in late' <=> c \in late)
      /\ q \in world'.scratch <=> q \in world.scratch
      /\ q \in troubled => q \in troubled'
  BY DEF Touches
<1>2. \A D : LateOf(q, D)' = LateOf(q, D)
  BY <1>1 DEF LateOf
<1>3. /\ Pristine(q)' <=> Pristine(q)
      /\ \A D : (Unspent(q, D)' <=> Unspent(q, D)) /\ (Once(q, D)' <=> Once(q, D))
  BY <1>1, <1>2 DEF Pristine, Unspent, Once
<1>4. Called(q, req[q])'
  BY <1>1, <1>3 DEF Orderly, Called
<1>5. Ended(q, req[q])' /\ Tidy(q, req[q])'
  BY <1>1, <1>3 DEF Orderly, Ended, Tidy
<1>6. Staged(req[q])' /\ Once(q, Uses)' /\ Once(q, Gives)'
  BY <1>1, <1>3 DEF Orderly
<1>7. QED
  BY <1>4, <1>5, <1>6 DEF Orderly

\* What became of a call.
Effect(r, c, answer) ==
  /\ troubled' \in {troubled, troubled \cup {r}}
  /\ answer \notin {"ok", "refused", "error"} => r \in troubled'
  /\ \/ /\ performed' = [performed EXCEPT ![r] = Append(@, c.do)] /\ late' = late
        /\ answer \in {"ok", "timeout", "lost"}
        /\ world'.scratch = IF c.do = "create" THEN world.scratch \cup {r}
                           ELSE IF c.do = "delete" THEN world.scratch \ {r} ELSE world.scratch
     \/ /\ performed' = performed /\ world'.scratch = world.scratch
        /\ late' = late \/ (late' = late \cup {c} /\ answer = "timeout")
        /\ answer # "ok"
        /\ c.do \in {"create", "delete"} /\ r \notin troubled'
             => c.do = "delete" /\ r \notin world.scratch

LEMMA OnceKept ==
  ASSUME NEW r \in Requests, Bounded, NEW c, c.by = r, c.do \in Dos, NEW answer,
         Effect(r, c, answer), NEW D, Once(r, D), c.do \in D => Unspent(r, D)
  PROVE  Once(r, D)'
<1>1. performed[r] \in Seq(Dos)
  BY DEF Bounded
<1>2. CASE performed' = [performed EXCEPT ![r] = Append(@, c.do)] /\ late' = late
  <2>1. performed'[r] = Append(performed[r], c.do)
    BY <1>2 DEF Bounded
  <2>2. /\ Spots(performed'[r], D) =
             Spots(performed[r], D) \cup (IF c.do \in D THEN {Len(performed[r]) + 1} ELSE {})
    BY <1>1, <2>1, SpotsAppend
  <2>3. LateOf(r, D)' = LateOf(r, D)
    BY <1>2 DEF LateOf
  <2>4. QED
    BY <2>2, <2>3 DEF Once, Unspent, AtMostOne
<1>3. CASE performed' = performed /\ (late' = late \/ late' = late \cup {c})
  <2>1. LateOf(r, D)' \in {LateOf(r, D), LateOf(r, D) \cup {c}} /\ (c.do \notin D => LateOf(r, D)' = LateOf(r, D))
    BY <1>3 DEF LateOf
  <2>2. QED
    BY <1>3, <2>1 DEF Once, Unspent, AtMostOne
<1>4. QED
  BY <1>2, <1>3 DEF Effect

\* The call a request is about to make is its own.
LEMMA NextCall ==
  ASSUME Inv, NEW r \in Requests, req[r].stage = "call"
  PROVE  LET c == Head(req[r].todo)
         IN /\ c = req[r].todo[1] /\ 1 \in DOMAIN req[r].todo
            /\ c.by = r /\ c.do \in Dos /\ Plan(r, req[r].todo)
<1>1. Plan(r, req[r].todo)
  BY DEF Inv, Orderly, Called
<1>2. PICK x : x = Activation(r, r, r, r)
  OBVIOUS
<1>3. x.by = r /\ x.do = "activate"
  BY <1>2 DEF Activation
<1>4. Unfolds(r, req[r].todo, x)
  BY <1>1, <1>3, RestOfPlan
<1>5. 1 \in DOMAIN req[r].todo
  BY <1>1 DEF Plan
<1>6. QED
  BY <1>1, <1>4, <1>5 DEF Unfolds, Plan

LEMMA CallKept ==
  ASSUME NEW r \in Requests, Inv, req[r].stage = "call",
         NEW answer, NEW total, Answered(r, Head(req[r].todo), answer, total),
         Effect(r, Head(req[r].todo), answer)
  PROVE  Orderly(r)'
<1> DEFINE c == Head(req[r].todo)
           q == req'[r]
<1>1. /\ Bounded /\ Orderly(r) /\ Plan(r, req[r].todo) /\ Staged(req[r]) /\ Tidy(r, req[r])
      /\ Once(r, Uses) /\ Once(r, Gives)
  BY DEF Inv, Orderly, Called
<1>2. c = req[r].todo[1] /\ c.by = r /\ c.do \in Dos
  BY NextCall
<1>3. /\ Begins(req[r].body.route, c.do)
      /\ c.do \in Uses \cup {"give", "create"} => Pristine(r)
      /\ c.do = "giveMade" => Unspent(r, Gives)
      /\ c.do = "delete" /\ req[r].gave /\ r \notin troubled => Spots(performed[r], Gives) # {}
  BY <1>1, <1>2 DEF Orderly, Called
<1>4. Moved(r, c, answer)
  BY <1>1, AnswerMoves DEF Bounded
<1>5. Effect(r, c, answer)
  OBVIOUS
<1>6. Pristine(r) => Unspent(r, Uses) /\ Unspent(r, Gives)
  BY DEF Pristine, Unspent, Spots, LateOf, Dos, Uses, Gives
<1> HIDE DEF c
<1>7. Once(r, Uses)' /\ Once(r, Gives)'
  <2>1. (c.do \in Uses => Unspent(r, Uses)) /\ (c.do \in Gives => Unspent(r, Gives))
    BY <1>3, <1>6 DEF Uses, Gives
  <2>2. QED
    BY <1>1, <1>2, <1>5, <2>1, OnceKept
<1>8. q.body = req[r].body /\ req[r].body.route \in Routes
  BY <1>1, <1>4 DEF Moved, Staged
<1>9. Staged(req[r])'
  BY <1>4, <1>8 DEF Moved, Staged
\* What an executed call adds, and what one that was not leaves.
<1>10. performed[r] \in Seq(Dos)
  BY <1>1 DEF Bounded
<1>11. /\ answer = "ok" => /\ performed'[r] = Append(performed[r], c.do)
                          /\ late' = late
       /\ performed'[r] = performed[r] \/ performed'[r] = Append(performed[r], c.do)
       /\ answer \in {"refused", "disabled"} => performed' = performed /\ late' = late
  BY <1>1, <1>5 DEF Effect, Bounded
<1>12. \A D : /\ Spots(performed[r], D) # {} => Spots(performed'[r], D) # {}
              /\ answer = "ok" /\ c.do \in D => Spots(performed'[r], D) # {}
              /\ answer = "ok" /\ c.do \notin D => Spots(performed'[r], D) = Spots(performed[r], D)
  <2>1. \A D : Spots(Append(performed[r], c.do), D) =
                 Spots(performed[r], D) \cup (IF c.do \in D THEN {Len(performed[r]) + 1} ELSE {})
    BY <1>2, <1>10, SpotsAppend
  <2>2. QED
    BY <1>11, <2>1
<1>13. r \in troubled => r \in troubled'
  BY <1>5 DEF Effect
<1>14. answer \in {"refused", "disabled"} /\ Pristine(r) => Pristine(r)'
  BY <1>11 DEF Pristine, LateOf
<1>15. Called(r, req[r])'
  <2>1. CASE q.stage = "call" /\ c.do = "activate" /\ q.todo[1].do = "activate" /\ answer = "disabled"
             /\ Plan(r, q.todo)
    <3>1. Pristine(r)'
      BY <1>3, <1>14, <2>1 DEF Uses
    <3>2. Begins(q.body.route, q.todo[1].do)
      BY <1>3, <1>8, <2>1
    <3>3. QED
      BY <2>1, <3>1, <3>2 DEF Called
  <2>2. CASE /\ q.stage = "call" /\ Plan(r, q.todo) /\ <<c.do, q.todo[1].do>> \in Follows
             /\ c.do = "create" => answer = "ok"
             /\ c.do = "giveMade" /\ q.gave => answer = "ok"
    <3>1. Begins(q.body.route, q.todo[1].do) /\ q.todo[1].do \notin Uses \cup {"give", "create"}
      BY <1>3, <1>8, <2>2 DEF Begins, Follows, Couples, Uses
    <3>2. q.todo[1].do = "giveMade" => Unspent(r, Gives)'
      <4> SUFFICES ASSUME q.todo[1].do = "giveMade" PROVE Unspent(r, Gives)'
        OBVIOUS
      <4>1. c.do = "create" /\ answer = "ok"
        BY <2>2 DEF Follows, Couples
      <4>2. Unspent(r, Gives)
        BY <1>3, <1>6, <4>1
      <4>3. QED
        BY <1>11, <1>12, <4>1, <4>2 DEF Unspent, LateOf, Gives
    <3>3. q.todo[1].do = "delete" /\ q.gave => Spots(performed'[r], Gives) # {}
      <4> SUFFICES ASSUME q.todo[1].do = "delete", q.gave PROVE Spots(performed'[r], Gives) # {}
        OBVIOUS
      <4>1. c.do = "giveMade" /\ answer = "ok"
        BY <2>2 DEF Follows, Couples
      <4>2. QED
        BY <1>12, <4>1 DEF Gives
    <3>4. QED
      BY <2>2, <3>1, <3>2, <3>3 DEF Called
  <2>3. CASE q.stage # "call"
    BY <2>3 DEF Called
  <2>4. QED
    BY <1>4, <2>1, <2>2, <2>3 DEF Moved
<1>16. Ended(r, req[r])'
  <2>1. q.stage \notin {"idle", "details"}
    BY <1>4 DEF Moved
  <2>2. q.stage = "done" /\ q.reply \in Given4xx => Pristine(r)'
    <3> SUFFICES ASSUME q.stage = "done", q.reply \in Given4xx PROVE Pristine(r)'
      OBVIOUS
    <3>1. answer \in {"refused", "disabled"} /\ c.do \in Uses
      BY <1>4 DEF Moved, Given4xx
    <3>2. QED
      BY <1>3, <1>14, <3>1
  <2>3. ASSUME q.stage = "fresh" \/ (q.stage = "done" /\ q.reply = 200),
               q.body.route \in {"items", "add"}, r \notin troubled'
        PROVE  Spots(performed'[r], Gives) # {}
    <3>1. c.do \notin {"create", "giveMade"} /\ (c.do = "give" => answer = "ok") /\ req[r].gave
      BY <1>4, <2>3 DEF Moved
    <3>2. CASE c.do = "give"
      BY <1>12, <3>1, <3>2 DEF Gives
    <3>3. CASE c.do = "delete"
      BY <1>3, <1>12, <1>13, <2>3, <3>1, <3>3
    <3>4. c.do \in {"create", "giveMade", "delete", "give"}
      BY <1>3, <1>8, <2>3 DEF Begins
    <3>5. QED
      BY <3>1, <3>2, <3>3, <3>4
  <2>4. QED
    BY <2>1, <2>2, <2>3 DEF Ended
<1>17. Tidy(r, req[r])'
  <2> SUFFICES ASSUME r \in world'.scratch, r \notin troubled'
               PROVE  q.stage = "call" /\ q.todo[1].do \in {"giveMade", "delete"}
    BY DEF Tidy
  <2>1. CASE c.do = "create"
    <3>1. answer = "ok"
      BY <1>5, <2>1 DEF Effect
    <3>2. QED
      BY <1>4, <2>1, <3>1 DEF Moved, Follows, Couples, Uses
  <2>2. CASE c.do # "create"
    <3>1. r \in world.scratch /\ r \notin troubled /\ c.do # "delete"
      BY <1>5, <2>2 DEF Effect
    <3>2. c.do = "giveMade"
      BY <1>1, <1>2, <3>1 DEF Tidy
    <3>3. QED
      BY <1>4, <3>2 DEF Moved, Follows, Couples, Uses
  <2>3. QED
    BY <2>1, <2>2
<1>18. QED
  BY <1>7, <1>9, <1>15, <1>16, <1>17 DEF Orderly

-----------------------------------------------------------------------------
\* Steps

LEMMA InvInit == Init => Inv
<1> SUFFICES ASSUME Init PROVE Inv
  OBVIOUS
<1>1. Bounded
  <2>1. DOMAIN req = Requests /\ sc \in Scenarios /\ late = {}
    BY DEF Init
  <2>2. performed \in [Requests -> Seq(Dos)]
    BY DEF Init
  <2>3. world = [doc |-> world.doc, others |-> world.others, hp |-> world.hp,
                 scratch |-> world.scratch]
    BY DEF Init
  <2>4. QED
    BY <2>1, <2>2, <2>3 DEF Bounded
<1>2. ASSUME NEW r \in Requests PROVE Orderly(r)
  <2>1. /\ req[r].stage = "idle" /\ performed[r] = <<>> /\ late = {} /\ r \notin world.scratch
    BY DEF Init, Standing
  <2>2. Pristine(r) /\ Once(r, Uses) /\ Once(r, Gives)
    BY <2>1 DEF Pristine, Once, LateOf, Spots, AtMostOne
  <2>3. QED
    BY <2>1, <2>2 DEF Orderly, Staged, Called, Ended, Tidy
<1>3. QED
  BY <1>1, <1>2 DEF Inv

\* A request goes on without a call: nothing but where it stands changes.
LEMMA GoesOn ==
  ASSUME Inv, NEW r \in Requests, NEW q, req' = [req EXCEPT ![r] = q],
         UNCHANGED <<sc, world, late, ghosts>>,
         Staged(q), Called(r, q), Ended(r, q), Tidy(r, q)
  PROVE  Inv'
<1>1. UNCHANGED <<sc, world, late, performed, troubled>>
  BY DEF ghosts
<1>2. req'[r] = q /\ (\A s \in Requests \ {r} : req'[s] = req[s]) /\ DOMAIN req' = Requests
  BY DEF Inv, Bounded
<1>3. Bounded'
  BY <1>1, <1>2 DEF Inv, Bounded
<1>4. Touches(r)
  BY <1>1, <1>2 DEF Touches
<1>5. Orderly(r)'
  <2>1. /\ Pristine(r)' <=> Pristine(r)
        /\ \A D : (Unspent(r, D)' <=> Unspent(r, D)) /\ (Once(r, D)' <=> Once(r, D))
    BY <1>1 DEF Pristine, Unspent, Once, LateOf
  <2>2. Called(r, req[r])'
    BY <1>1, <1>2, <2>1 DEF Called
  <2>3. Ended(r, req[r])' /\ Tidy(r, req[r])'
    BY <1>1, <1>2, <2>1 DEF Ended, Tidy
  <2>4. Once(r, Uses)' /\ Once(r, Gives)'
    BY <2>1 DEF Inv, Orderly
  <2>5. QED
    BY <1>2, <2>2, <2>3, <2>4 DEF Orderly
<1>6. QED
  BY <1>3, <1>4, <1>5, OthersKept DEF Inv

\* What a request becomes when it arrives.
LEMMA ReceivedBody ==
  ASSUME NEW r \in Requests, Receive(r)
  PROVE  \E body \in sc.bodies :
        \/ NeedsDocument(body) /\ req' = [req EXCEPT ![r] = [Standing("details", body) EXCEPT !.known = world.doc]]
        \/ ~NeedsDocument(body) /\ req' = [req EXCEPT ![r] = [Standing("call", body) EXCEPT !.todo = <<Roll(r, NoHeal)>>]]
        \/ \E code \in {404, 422, 502} :
             req' = [req EXCEPT ![r] = [Standing("done", body) EXCEPT !.reply = code]]
<1>1. PICK body \in sc.bodies :
        \/ NeedsDocument(body) /\ req' = [req EXCEPT ![r] = [Standing("details", body) EXCEPT !.known = world.doc]]
        \/ \E code \in {404, 502} :
             req' = [req EXCEPT ![r] = [Standing("done", body) EXCEPT !.reply = code]]
        \/ /\ ~NeedsDocument(body)
           /\ req' = [req EXCEPT ![r] =
                IF body.safe THEN [Standing("call", body) EXCEPT !.todo = <<Roll(r, NoHeal)>>]
                ELSE [Standing("done", body) EXCEPT !.reply = 422]]
  BY DEF Receive
<1>2. QED
  BY <1>1

LEMMA ReceiveKeeps ==
  ASSUME Inv, NEW r \in Requests, Receive(r)
  PROVE  Inv'
<1>1. PICK body \in sc.bodies :
        \/ NeedsDocument(body) /\ req' = [req EXCEPT ![r] = [Standing("details", body) EXCEPT !.known = world.doc]]
        \/ ~NeedsDocument(body) /\ req' = [req EXCEPT ![r] = [Standing("call", body) EXCEPT !.todo = <<Roll(r, NoHeal)>>]]
        \/ \E code \in {404, 422, 502} :
             req' = [req EXCEPT ![r] = [Standing("done", body) EXCEPT !.reply = code]]
  BY ReceivedBody
<1>2. body.route \in Routes
  <2>1. body \in sc.bodies /\ sc \in Scenarios
    BY <1>1 DEF Inv, Bounded
  <2>2. QED
    BY <2>1, WritesAssumption
<1>3. Pristine(r) /\ (r \in world.scratch => r \in troubled)
  BY DEF Inv, Orderly, Ended, Tidy, Receive
<1>4. UNCHANGED <<sc, world, late, ghosts>>
  BY DEF Receive
<1>5. CASE ~NeedsDocument(body) /\ req' = [req EXCEPT ![r] = [Standing("call", body) EXCEPT !.todo = <<Roll(r, NoHeal)>>]]
  <2> DEFINE q == [Standing("call", body) EXCEPT !.todo = <<Roll(r, NoHeal)>>]
  <2>1. q.stage = "call" /\ q.body = body /\ q.todo = <<Roll(r, NoHeal)>>
    BY DEF Standing
  <2>2. Roll(r, NoHeal).by = r /\ Roll(r, NoHeal).do = "roll"
    BY DEF Roll
  <2>3. Plan(r, q.todo) /\ q.todo[1].do = "roll"
    BY <2>1, <2>2, PlanOfOne DEF Dos
  <2> HIDE DEF q
  <2>4. Staged(q) /\ Called(r, q) /\ Ended(r, q) /\ Tidy(r, q)
    <3>1. body.route = "roll"
      BY <1>5 DEF NeedsDocument
    <3>2. QED
      BY <1>3, <2>1, <2>3, <3>1 DEF Staged, Called, Ended, Tidy, Begins, Uses, Routes
  <2>5. QED
    BY <1>4, <1>5, <2>4, GoesOn DEF q
<1>6. CASE NeedsDocument(body) /\ req' = [req EXCEPT ![r] = [Standing("details", body) EXCEPT !.known = world.doc]]
  <2> DEFINE q == [Standing("details", body) EXCEPT !.known = world.doc]
  <2>1. q.stage = "details" /\ q.body = body
    BY DEF Standing
  <2> HIDE DEF q
  <2>2. body.route # "roll"
    BY <1>6 DEF NeedsDocument
  <2>3. Staged(q) /\ Called(r, q) /\ Ended(r, q) /\ Tidy(r, q)
    BY <1>2, <1>3, <2>1, <2>2 DEF Staged, Called, Ended, Tidy
  <2>4. QED
    BY <1>4, <1>6, <2>3, GoesOn DEF q
<1>7. ASSUME NEW code \in {404, 422, 502},
             req' = [req EXCEPT ![r] = [Standing("done", body) EXCEPT !.reply = code]]
      PROVE  Inv'
  <2> DEFINE q == [Standing("done", body) EXCEPT !.reply = code]
  <2>1. q.stage = "done" /\ q.body = body /\ q.reply = code
    BY DEF Standing
  <2> HIDE DEF q
  <2>2. Staged(q) /\ Called(r, q) /\ Ended(r, q) /\ Tidy(r, q)
    BY <1>2, <1>3, <2>1 DEF Staged, Called, Ended, Tidy
  <2>3. QED
    BY <1>4, <1>7, <2>2, GoesOn DEF q
<1>8. QED
  BY <1>1, <1>5, <1>6, <1>7

LEMMA DecideKeeps ==
  ASSUME Inv, NEW r \in Requests, Decide(r)
  PROVE  Inv'
<1>1. PICK actor : Act(r, Decision(r, actor, req[r].body))
  BY DEF Decide
<1> DEFINE d == Decision(r, actor, req[r].body)
<1>2. /\ req[r].stage = "details" /\ UNCHANGED <<sc, world, late, ghosts>>
      /\ DOMAIN req = Requests
  BY DEF Decide, Inv, Bounded
<1>3. /\ req[r].body.route \in Routes /\ req[r].body.route # "roll"
      /\ Pristine(r) /\ (r \in world.scratch => r \in troubled)
  BY <1>2 DEF Inv, Orderly, Staged, Ended, Tidy
<1>4. CASE d.code # 200
  <2> DEFINE q == [Standing("done", req[r].body) EXCEPT !.reply = d.code]
  <2>1. req' = [req EXCEPT ![r] = q]
    BY <1>1, <1>2, <1>4 DEF Act, Reply
  <2>2. q.stage = "done" /\ q.reply = d.code /\ q.body = req[r].body
    BY DEF Standing
  <2> HIDE DEF q, d
  <2>3. Staged(q) /\ Called(r, q) /\ Ended(r, q) /\ Tidy(r, q)
    BY <1>3, <1>4, <2>2 DEF Staged, Called, Ended, Tidy
  <2>4. QED
    BY <1>2, <2>1, <2>3, GoesOn
<1>5. CASE d.code = 200
  <2> DEFINE q == [Standing("call", req[r].body) EXCEPT !.known = req[r].known, !.todo = d.todo, !.gave = TRUE]
  <2>1. req' = [req EXCEPT ![r] = q]
    BY <1>1, <1>2, <1>5 DEF Act, Continue
  <2>2. q.stage = "call" /\ q.todo = d.todo /\ q.body = req[r].body
    BY DEF Standing
  <2>3. Plan(r, d.todo) /\ Begins(req[r].body.route, d.todo[1].do) /\ d.todo[1].do \notin {"giveMade", "delete"}
    <3>1. req[r].body.route \in {"intents", "actions", "items", "add", "remove"}
      BY <1>3 DEF Routes
    <3>2. QED
      BY <1>5, <3>1, DecisionsArePlanned
  <2> HIDE DEF q, d
  <2>4. Staged(q) /\ Called(r, q) /\ Ended(r, q) /\ Tidy(r, q)
    BY <1>3, <2>2, <2>3 DEF Staged, Called, Ended, Tidy
  <2>5. QED
    BY <1>2, <2>1, <2>4, GoesOn
<1>6. QED
  BY <1>4, <1>5

LEMMA EntryUnreadKeeps ==
  ASSUME Inv, NEW r \in Requests, EntryUnread(r)
  PROVE  Inv'
<1>1. req[r].stage = "details" /\ Staged(req[r]) /\ Ended(r, req[r]) /\ Tidy(r, req[r])
  BY DEF EntryUnread, Inv, Orderly
<1>2. PICK code \in {404, 502} : Reply(r, code)
  BY DEF EntryUnread
<1> DEFINE q == [Standing("done", req[r].body) EXCEPT !.reply = code]
<1>3. req' = [req EXCEPT ![r] = q]
  BY <1>2 DEF Reply, Inv, Bounded
<1>4. q.stage = "done" /\ q.reply = code /\ q.body = req[r].body
  BY DEF Standing
<1> HIDE DEF q
<1>5. Staged(q) /\ Called(r, q) /\ Ended(r, q) /\ Tidy(r, q)
  BY <1>1, <1>2, <1>4 DEF Staged, Called, Ended, Tidy
<1>6. UNCHANGED <<sc, world, late, ghosts>>
  BY DEF EntryUnread
<1>7. QED
  BY <1>3, <1>5, <1>6, GoesOn

LEMMA FreshReadKeeps ==
  ASSUME Inv, NEW r \in Requests, FreshRead(r)
  PROVE  Inv'
<1>1. req[r].stage = "fresh" /\ Staged(req[r]) /\ Ended(r, req[r]) /\ Tidy(r, req[r])
  BY DEF FreshRead, Inv, Orderly
<1>2. PICK code \in {200, 502} : Reply(r, code)
  BY DEF FreshRead
<1> DEFINE q == [Standing("done", req[r].body) EXCEPT !.reply = code]
<1>3. req' = [req EXCEPT ![r] = q]
  BY <1>2 DEF Reply, Inv, Bounded
<1>4. q.stage = "done" /\ q.reply = code /\ q.body = req[r].body
  BY DEF Standing
<1> HIDE DEF q
<1>5. Staged(q) /\ Called(r, q) /\ Ended(r, q) /\ Tidy(r, q)
  BY <1>1, <1>2, <1>4 DEF Staged, Called, Ended, Tidy, Given4xx
<1>6. UNCHANGED <<sc, world, late, ghosts>>
  BY DEF FreshRead
<1>7. QED
  BY <1>3, <1>5, <1>6, GoesOn

LEMMA CallStep ==
  ASSUME Inv, NEW r \in Requests, req[r].stage = "call", sc' = sc, Scratch(world'),
         NEW answer, NEW total, Answered(r, Head(req[r].todo), answer, total),
         Effect(r, Head(req[r].todo), answer)
  PROVE  Inv'
<1> DEFINE c == Head(req[r].todo)
<1>1. c.by = r /\ c.do \in Dos /\ Plan(r, req[r].todo)
  BY NextCall
<1>2. Moved(r, c, answer)
  BY <1>1, AnswerMoves DEF Inv, Bounded
<1>3. Effect(r, c, answer)
  OBVIOUS
<1>4. Orderly(r)'
  BY CallKept
<1> HIDE DEF c
<1>5. Bounded /\ performed[r] \in Seq(Dos) /\ DOMAIN performed = Requests
  BY DEF Inv, Bounded
<1>6. performed' \in [Requests -> Seq(Dos)]
  <2>1. CASE performed' = [performed EXCEPT ![r] = Append(@, c.do)]
    <3>1. Append(performed[r], c.do) \in Seq(Dos)
      BY <1>1, <1>5, AppendProperties
    <3>2. QED
      BY <1>5, <2>1, <3>1 DEF Bounded
  <2>2. CASE performed' = performed
    BY <1>5, <2>2 DEF Bounded
  <2>3. QED
    BY <1>3, <2>1, <2>2 DEF Effect
<1>7. \A x \in late' : x.by \in Requests /\ x.do \in Dos /\ x.by \in troubled'
  <2>1. \A x \in late : x.by \in Requests /\ x.do \in Dos /\ x.by \in troubled'
    BY <1>3, <1>5 DEF Bounded, Effect
  <2>2. late' = late \/ (late' = late \cup {c} /\ r \in troubled')
    BY <1>3 DEF Effect
  <2>3. QED
    BY <1>1, <2>1, <2>2
<1>8. Bounded'
  <2>1. DOMAIN req' = Requests
    BY <1>2 DEF Moved
  <2>2. sc' \in Scenarios
    BY <1>5 DEF Bounded
  <2>3. QED
    BY <1>6, <1>7, <2>1, <2>2 DEF Bounded, Scratch
<1>9. Touches(r)
  <2> SUFFICES ASSUME NEW q \in Requests \ {r}
               PROVE  /\ req'[q] = req[q] /\ performed'[q] = performed[q]
                      /\ \A x : x.by = q => (x \in late' <=> x \in late)
                      /\ q \in world'.scratch <=> q \in world.scratch
                      /\ q \in troubled => q \in troubled'
    BY DEF Touches
  <2>1. req'[q] = req[q]
    BY <1>2 DEF Moved
  <2>2. performed'[q] = performed[q] /\ (q \in world'.scratch <=> q \in world.scratch)
        /\ (q \in troubled => q \in troubled')
    BY <1>3, <1>5 DEF Effect
  <2>3. late' = late \/ late' = late \cup {c}
    BY <1>3 DEF Effect
  <2>4. \A x : x.by = q => (x \in late' <=> x \in late)
    BY <1>1, <2>3
  <2>5. QED
    BY <2>1, <2>2, <2>4
<1>10. QED
  BY <1>4, <1>8, <1>9, OthersKept DEF Inv

LEMMA CallGoesWellKeeps ==
  ASSUME Inv, NEW r \in Requests, CallGoesWell(r)
  PROVE  Inv'
<1> DEFINE c == Head(req[r].todo)
<1>1. PICK hit, total : Execute(c, hit) /\ Answered(r, c, "ok", total)
  BY DEF CallGoesWell
<1>2. req[r].stage = "call" /\ UNCHANGED <<sc, late, troubled>>
  BY DEF CallGoesWell
<1>3. c.by = r /\ c.do \in Dos
  BY <1>2, NextCall
<1>4. Scratch(world)
  BY DEF Inv, Bounded, Scratch
<1>5. world' = Executed(world, c, hit) /\ performed' = [performed EXCEPT ![r] = Append(@, c.do)]
  BY <1>1, <1>3 DEF Execute
<1> HIDE DEF c
<1>6. Scratch(Executed(world, c, hit)) /\ Executed(world, c, hit).scratch =
        IF c.do = "create" THEN world.scratch \cup {r}
        ELSE IF c.do = "delete" THEN world.scratch \ {r} ELSE world.scratch
  BY <1>3, <1>4, ExecutedScratch
<1>7. Effect(r, c, "ok")
  BY <1>2, <1>5, <1>6 DEF Effect
<1>8. Scratch(world')
  BY <1>5, <1>6
<1>9. QED
  BY <1>1, <1>2, <1>7, <1>8, CallStep DEF c

LEMMA CallIsRefusedKeeps ==
  ASSUME Inv, NEW r \in Requests, CallIsRefused(r)
  PROVE  Inv'
<1> DEFINE c == Head(req[r].todo)
<1>1. PICK answer \in Refusals(c) : Answered(r, c, answer, NoNumber)
  BY DEF CallIsRefused
<1>2. req[r].stage = "call" /\ ~Possible(world, c) /\ UNCHANGED <<sc, late, troubled, world, performed>>
  BY DEF CallIsRefused, NotExecuted
<1>3. c.by = r /\ c.do \in Dos
  BY <1>2, NextCall
<1>4. Scratch(world')
  BY <1>2 DEF Inv, Bounded, Scratch
<1> HIDE DEF c
<1>5. answer \in {"refused", "error"}
  BY <1>1 DEF Refusals
<1>6. c.do # "create" /\ (c.do = "delete" => r \notin world.scratch)
  BY <1>2, <1>3 DEF Possible
<1>7. Effect(r, c, answer)
  BY <1>2, <1>5, <1>6 DEF Effect
<1>8. QED
  BY <1>1, <1>2, <1>4, <1>7, CallStep DEF c

LEMMA CallGoesWrongKeeps ==
  ASSUME Inv, NEW r \in Requests, CallGoesWrong(r)
  PROVE  Inv'
<1> DEFINE c == Head(req[r].todo)
<1>1. PICK m \in Mishaps(c) :
        /\ IF m[2] THEN Possible(world, c) /\ Execute(c, {}) ELSE NotExecuted
        /\ late' = IF m = <<"timeout", FALSE>> THEN late \cup {c} ELSE late
        /\ Answered(r, c, m[1], NoNumber)
  BY DEF CallGoesWrong
<1>2. req[r].stage = "call" /\ sc' = sc /\ troubled' = troubled \cup {r}
  BY DEF CallGoesWrong
<1>3. c.by = r /\ c.do \in Dos
  BY <1>2, NextCall
<1>4. Scratch(world)
  BY DEF Inv, Bounded, Scratch
<1> HIDE DEF c
<1>5. /\ m[1] \in {"timeout", "lost", "error", "disabled"}
      /\ m[2] \in BOOLEAN
      /\ m[2] => m[1] \in {"timeout", "lost"}
      /\ m = <<"timeout", FALSE>> => m[1] = "timeout" /\ ~m[2]
  <2>1. \/ \E x \in BOOLEAN : m = <<"timeout", x>>
        \/ \E x \in BOOLEAN : m = <<"lost", x>>
        \/ m = <<"error", FALSE>>
        \/ m = <<"disabled", FALSE>>
    BY DEF Mishaps
  <2>2. ASSUME NEW x \in BOOLEAN, NEW how \in {"timeout", "lost"}, m = <<how, x>>
        PROVE  m[1] = how /\ m[2] = x
    BY <2>2
  <2>3. ASSUME NEW how \in {"error", "disabled"}, m = <<how, FALSE>>
        PROVE  m[1] = how /\ m[2] = FALSE
    BY <2>3
  <2>4. QED
    BY <2>1, <2>2, <2>3
<1>6. CASE m[2]
  <2>1. world' = Executed(world, c, {}) /\ performed' = [performed EXCEPT ![r] = Append(@, c.do)]
    BY <1>1, <1>3, <1>6 DEF Execute
  <2>2. Scratch(Executed(world, c, {})) /\ Executed(world, c, {}).scratch =
          IF c.do = "create" THEN world.scratch \cup {r}
          ELSE IF c.do = "delete" THEN world.scratch \ {r} ELSE world.scratch
    BY <1>3, <1>4, ExecutedScratch
  <2>3. late' = late
    BY <1>1, <1>5, <1>6
  <2>4. Effect(r, c, m[1]) /\ Scratch(world')
    BY <1>2, <1>5, <1>6, <2>1, <2>2, <2>3 DEF Effect
  <2>5. QED
    BY <1>1, <1>2, <2>4, CallStep DEF c
<1>7. CASE ~m[2]
  <2>1. performed' = performed /\ world' = world
    BY <1>1, <1>7 DEF NotExecuted
  <2>2. late' = late \/ (late' = late \cup {c} /\ m[1] = "timeout")
    BY <1>1, <1>5
  <2>3. Effect(r, c, m[1])
    BY <1>2, <1>5, <2>1, <2>2 DEF Effect
  <2>4. Scratch(world')
    BY <1>4, <2>1
  <2>5. QED
    BY <1>1, <1>2, <2>3, <2>4, CallStep DEF c
<1>8. QED
  BY <1>5, <1>6, <1>7

\* A call given up on is executed after all, or is no longer possible.
LEMMA ExecuteLateKeeps ==
  ASSUME Inv, NEW c \in late, ExecuteLate(c)
  PROVE  Inv'
<1> DEFINE r == c.by
<1>1. /\ r \in Requests /\ c.do \in Dos /\ r \in troubled /\ Bounded /\ Orderly(r)
      /\ performed[r] \in Seq(Dos) /\ DOMAIN performed = Requests
  BY DEF Inv, Bounded
<1>2. /\ late' = late \ {c} /\ sc' = sc /\ req' = req /\ troubled' = troubled
      /\ \/ /\ \E hit : world' = Executed(world, c, hit)
            /\ performed' = [performed EXCEPT ![r] = Append(@, c.do)]
         \/ world' = world /\ performed' = performed
  BY DEF ExecuteLate
<1> HIDE DEF r
<1>3. /\ Scratch(world')
      /\ \A q \in Requests \ {r} : q \in world'.scratch <=> q \in world.scratch
  <2>1. Scratch(world)
    BY <1>1 DEF Bounded, Scratch
  <2>2. CASE world' = world
    BY <2>1, <2>2
  <2>3. ASSUME NEW hit, world' = Executed(world, c, hit)
        PROVE  /\ Scratch(world')
               /\ \A q \in Requests \ {r} : q \in world'.scratch <=> q \in world.scratch
    <3>1. Scratch(Executed(world, c, hit)) /\ Executed(world, c, hit).scratch =
            IF c.do = "create" THEN world.scratch \cup {r}
            ELSE IF c.do = "delete" THEN world.scratch \ {r} ELSE world.scratch
      BY <1>1, <2>1, ExecutedScratch DEF r
    <3>2. QED
      BY <2>3, <3>1
  <2>4. QED
    BY <1>2, <2>2, <2>3
<1>4. performed' \in [Requests -> Seq(Dos)]
  <2>1. Append(performed[r], c.do) \in Seq(Dos)
    BY <1>1, AppendProperties
  <2>2. QED
    BY <1>1, <1>2, <2>1 DEF Bounded
<1>5. Bounded'
  BY <1>1, <1>2, <1>3, <1>4 DEF Bounded, Scratch
<1>6. Touches(r)
  <2>1. \A q \in Requests \ {r} : performed'[q] = performed[q]
    BY <1>1, <1>2
  <2>2. \A q \in Requests \ {r} : \A x : x.by = q => (x \in late' <=> x \in late)
    BY <1>2 DEF r
  <2>3. QED
    BY <1>2, <1>3, <2>1, <2>2 DEF Touches
<1>7. ~Pristine(r) /\ (\A D : c.do \in D => ~Unspent(r, D))
  <2>1. c \in LateOf(r, Dos) /\ (\A D : c.do \in D => c \in LateOf(r, D))
    BY <1>1 DEF LateOf, r
  <2>2. QED
    BY <2>1 DEF Pristine, Unspent
<1>8. \A D : /\ LateOf(r, D)' \subseteq LateOf(r, D)
             /\ c.do \in D => LateOf(r, D)' = LateOf(r, D) \ {c}
             /\ Spots(performed'[r], D) = Spots(performed[r], D)
                \/ (/\ c.do \in D
                    /\ Spots(performed'[r], D) = Spots(performed[r], D) \cup {Len(performed[r]) + 1})
  <2>1. \A D : LateOf(r, D)' \subseteq LateOf(r, D)
    BY <1>2 DEF LateOf
  <2>2. \A D : c.do \in D => LateOf(r, D)' = LateOf(r, D) \ {c}
    BY <1>2 DEF LateOf
  <2>3. performed'[r] \in {performed[r], Append(performed[r], c.do)}
    BY <1>1, <1>2
  <2>4. \A D : Spots(Append(performed[r], c.do), D) =
                 Spots(performed[r], D) \cup (IF c.do \in D THEN {Len(performed[r]) + 1} ELSE {})
    BY <1>1, SpotsAppend
  <2>5. QED
    BY <2>1, <2>2, <2>3, <2>4
<1>9. ASSUME NEW D, Once(r, D) PROVE Once(r, D)'
  <2>1. CASE c.do \in D
    <3>1. c \in LateOf(r, D)
      BY <1>1, <2>1 DEF LateOf, r
    <3>2. LateOf(r, D)' = {} /\ Spots(performed[r], D) = {}
      BY <1>8, <1>9, <2>1, <3>1 DEF Once, AtMostOne
    <3>3. AtMostOne(Spots(performed'[r], D))
      BY <1>8, <3>2 DEF AtMostOne
    <3>4. QED
      BY <3>2, <3>3 DEF Once, AtMostOne
  <2>2. CASE c.do \notin D
    <3>1. Spots(performed'[r], D) = Spots(performed[r], D) /\ LateOf(r, D)' \subseteq LateOf(r, D)
      BY <1>8, <2>2
    <3>2. QED
      BY <1>9, <3>1 DEF Once, AtMostOne
  <2>3. QED
    BY <2>1, <2>2
<1>10. Unspent(r, Gives) => Unspent(r, Gives)'
  BY <1>7, <1>8 DEF Unspent
<1>11. Orderly(r)'
  <2>1. Called(r, req[r])'
    BY <1>1, <1>2, <1>7, <1>10 DEF Orderly, Called
  <2>2. Ended(r, req[r])' /\ Tidy(r, req[r])'
    BY <1>1, <1>2, <1>7 DEF Orderly, Ended, Tidy
  <2>3. Staged(req[r])' /\ Once(r, Uses)' /\ Once(r, Gives)'
    BY <1>1, <1>2, <1>9 DEF Orderly
  <2>4. QED
    BY <2>1, <2>2, <2>3 DEF Orderly
<1>12. QED
  BY <1>5, <1>6, <1>11, OthersKept DEF Inv

\* Only the character's document changes, or nothing does.
LEMMA OthersEdits ==
  ASSUME Inv, UNCHANGED <<sc, req, late, performed, troubled>>,
         Scratch(world'), world'.scratch = world.scratch
  PROVE  Inv'
<1>1. Bounded'
  BY DEF Inv, Bounded, Scratch
<1>2. ASSUME NEW r \in Requests PROVE Orderly(r)'
  <2>1. /\ Pristine(r)' <=> Pristine(r)
        /\ \A D : (Unspent(r, D)' <=> Unspent(r, D)) /\ (Once(r, D)' <=> Once(r, D))
    BY DEF Pristine, Unspent, Once, LateOf
  <2>2. Orderly(r)
    BY DEF Inv
  <2>3. Called(r, req[r])'
    BY <2>1, <2>2 DEF Orderly, Called
  <2>4. Ended(r, req[r])' /\ Tidy(r, req[r])'
    BY <2>1, <2>2 DEF Orderly, Ended, Tidy
  <2>5. Staged(req[r])' /\ Once(r, Uses)' /\ Once(r, Gives)'
    BY <2>1, <2>2 DEF Orderly
  <2>6. QED
    BY <2>3, <2>4, <2>5 DEF Orderly
<1>3. QED
  BY <1>1, <1>2 DEF Inv

LEMMA GmEditsKeeps ==
  ASSUME Inv, NEW u, GmEdits(u)
  PROVE  Inv'
<1>1. /\ UNCHANGED <<sc, req, late, performed, troubled>>
      /\ world' = [world EXCEPT !.doc = Applied(@, u)]
  BY DEF GmEdits, ghosts
<1>2. PICK doc : world' = [world EXCEPT !.doc = doc]
  BY <1>1
<1>3. PICK d, o, p, s : world = [doc |-> d, others |-> o, hp |-> p, scratch |-> s]
  BY DEF Inv, Bounded
<1>4. Scratch(world') /\ world'.scratch = world.scratch
  BY <1>2, <1>3 DEF Scratch
<1>5. QED
  BY <1>1, <1>4, OthersEdits

LEMMA InvStep == Inv /\ [Next]_vars => Inv'
<1> SUFFICES ASSUME Inv, [Next]_vars PROVE Inv'
  OBVIOUS
<1>1. ASSUME NEW r \in Requests, Receive(r) PROVE Inv'
  BY <1>1, ReceiveKeeps
<1>2. ASSUME NEW r \in Requests, Decide(r) PROVE Inv'
  BY <1>2, DecideKeeps
<1>3. ASSUME NEW r \in Requests, CallGoesWell(r) PROVE Inv'
  BY <1>3, CallGoesWellKeeps
<1>4. ASSUME NEW r \in Requests, CallIsRefused(r) PROVE Inv'
  BY <1>4, CallIsRefusedKeeps
<1>5. ASSUME NEW r \in Requests, CallGoesWrong(r) PROVE Inv'
  BY <1>5, CallGoesWrongKeeps
<1>6. ASSUME NEW r \in Requests, FreshRead(r) PROVE Inv'
  BY <1>6, FreshReadKeeps
<1>7. ASSUME NEW c \in late, ExecuteLate(c) PROVE Inv'
  BY <1>7, ExecuteLateKeeps
<1>8. ASSUME NEW u \in sc.edits, GmEdits(u) PROVE Inv'
  BY <1>8, GmEditsKeeps
<1>9. ASSUME NEW r \in Requests, EntryUnread(r) PROVE Inv'
  BY <1>9, EntryUnreadKeeps
<1>10. CASE UNCHANGED vars
  <2>1. Scratch(world') /\ world'.scratch = world.scratch
    BY <1>10 DEF Inv, Bounded, Scratch, vars
  <2>2. QED
    BY <1>10, <2>1, OthersEdits DEF vars
<1>11. QED
  BY <1>1, <1>2, <1>3, <1>4, <1>5, <1>6, <1>7, <1>8, <1>9, <1>10 DEF Next

LEMMA InvAlways == Spec => []Inv
  BY InvInit, InvStep, PTL DEF Spec

-----------------------------------------------------------------------------
\* What an action asks for, system by system

\* Actions whose id names an item, with their kinds, and those of the actor.
Grouped == {"item", "spell", "feature"}
ItemKinds == {"attack", "damage", "use", "cast", "equip", "attune", "grip", "move", "prepare"}
ActorKinds == {"check", "save", "rest", "endeffect", "endconcentration", "deathsave"}

\* What an item's action says of it.
OfKind(actor, i, a) ==
  /\ a.id[1] \in Grouped /\ a.id[2] = i.id
  /\ Dnd!At(a, "targeting", Dnd!NoTargeting) \in
       {Dnd!NoTargeting, Dnd!Targeting("single", "attack"), Dnd!targetingOf(i)}
  /\ \/ a.kind \in {"equip", "attune", "grip", "prepare", "move", "attack", "use", "cast"}
     \/ /\ a.kind = "damage"
        /\ \/ i.type = "spell" /\ Dnd!itemDamageFormula(actor, i, 0) # <<>>
           \/ i.type = "weapon" /\ Dnd!weaponDamageFormula(actor, i) # <<>>

LEMMA ItemsActions ==
  ASSUME NEW actor, NEW i, NEW a \in Dnd!ItemActions(actor, i)
  PROVE  OfKind(actor, i, a)
<1> DEFINE Good(x) == OfKind(actor, i, x)
           plain == {"equip", "attune", "grip", "prepare", "move", "attack", "use", "cast"}
<1> SUFFICES Good(a)
  OBVIOUS
<1>1. ASSUME NEW g \in Grouped, NEW w, NEW k \in plain
      PROVE  Good(Dnd!Action(<<g, i.id, w>>, k))
  BY DEF Dnd!Action, Dnd!At, OfKind
<1>2. ASSUME NEW g \in Grouped, NEW w, NEW k \in plain, NEW more, NEW t, "targeting" \in DOMAIN more,
             more.targeting \in {Dnd!Targeting("single", "attack"), Dnd!targetingOf(i)}
      PROVE  Good(Dnd!++(Dnd!Action(<<g, i.id, w>>, k), more))
  BY <1>2 DEF Dnd!Action, Dnd!At, OfKind, Dnd!++
<1>3. CASE a \in Dnd!Toggles(i)
  <2>1. PICK k \in {"equip", "attune", "grip", "move"} : a = Dnd!Action(<<"item", i.id, k>>, k)
    BY <1>3 DEF Dnd!Toggles
  <2>2. "item" \in Grouped /\ k \in plain
    BY DEF Grouped
  <2> HIDE DEF Good, plain
  <2>3. Good(Dnd!Action(<<"item", i.id, k>>, k))
    BY <1>1, <2>2
  <2>4. QED
    BY <2>1, <2>3
<1>4. CASE i.type = "weapon" /\ a \in Dnd!WeaponActions(actor, i)
  <2>1. Good(Dnd!++(Dnd!Action(<<"item", i.id, "attack">>, "attack"),
                    [targeting |-> Dnd!Targeting("single", "attack")]))
    BY DEF Dnd!Action, Dnd!At, OfKind, Dnd!++, Grouped
  <2>2. Dnd!weaponDamageFormula(actor, i) # <<>> => Good(Dnd!Action(<<"item", i.id, "damage">>, "damage"))
    BY <1>4 DEF Dnd!Action, Dnd!At, OfKind, Grouped
  <2>3. \/ a = Dnd!++(Dnd!Action(<<"item", i.id, "attack">>, "attack"),
                      [targeting |-> Dnd!Targeting("single", "attack")])
        \/ /\ a = Dnd!Action(<<"item", i.id, "damage">>, "damage")
           /\ Dnd!weaponDamageFormula(actor, i) # <<>>
    BY <1>4 DEF Dnd!WeaponActions
  <2> HIDE DEF Good
  <2>4. QED
    BY <2>1, <2>2, <2>3
<1>5. CASE i.type = "spell" /\ a \in Dnd!SpellActions(actor, i)
  <2>1. Dnd!itemDamageFormula(actor, i, 0) # <<>> => Good(Dnd!Action(<<"spell", i.id, "damage">>, "damage"))
    BY <1>5 DEF Dnd!Action, Dnd!At, OfKind, Grouped
  <2>2. Good(Dnd!Action(<<"spell", i.id, "prepare">>, "prepare"))
    BY DEF Dnd!Action, Dnd!At, OfKind, Grouped
  <2> DEFINE cast(t) == Dnd!++(Dnd!++(Dnd!Action(<<"spell", i.id, "cast">>, "cast"), Dnd!SlotLevels(actor, i)),
                               [targeting |-> Dnd!targetingOf(i), effectType |-> Dnd!effectTypeOf(i), targetable |-> t])
  <2>3. \A t : Good(cast(t))
    <3>1. DOMAIN Dnd!SlotLevels(actor, i) \subseteq {"slotLevels"}
      BY DEF Dnd!SlotLevels
    <3> DEFINE s == Dnd!SlotLevels(actor, i)
               base == Dnd!Action(<<"spell", i.id, "cast">>, "cast")
               sized == Dnd!++(base, s)
    <3>2. DOMAIN base = {"id", "kind"} /\ base.id = <<"spell", i.id, "cast">> /\ base.kind = "cast"
      BY DEF Dnd!Action
    <3> HIDE DEF s, base
    <3>3. DOMAIN sized \subseteq {"id", "kind", "slotLevels"} /\ {"id", "kind"} \subseteq DOMAIN sized
          /\ sized.id = <<"spell", i.id, "cast">> /\ sized.kind = "cast"
      BY <3>1, <3>2 DEF Dnd!++, s
    <3> HIDE DEF sized
    <3>4. SUFFICES ASSUME NEW t
                   PROVE  Good(Dnd!++(sized, [targeting |-> Dnd!targetingOf(i),
                                              effectType |-> Dnd!effectTypeOf(i), targetable |-> t]))
      BY DEF sized, s, base
    <3> DEFINE c == Dnd!++(sized, [targeting |-> Dnd!targetingOf(i),
                                   effectType |-> Dnd!effectTypeOf(i), targetable |-> t])
    <3>5. c.id = <<"spell", i.id, "cast">> /\ c.kind = "cast" /\ c.targeting = Dnd!targetingOf(i)
          /\ "targeting" \in DOMAIN c
      BY <3>3 DEF Dnd!++
    <3> HIDE DEF c
    <3>6. Good(c)
      BY <3>5 DEF OfKind, Dnd!At, Grouped
    <3>7. QED
      BY <3>6 DEF c
  <2>4. \/ a = cast(Dnd!isBuff(i) /\ ~Dnd!buffTargetIsSelf(i))
        \/ /\ a = Dnd!Action(<<"spell", i.id, "damage">>, "damage")
           /\ Dnd!itemDamageFormula(actor, i, 0) # <<>>
        \/ a = Dnd!Action(<<"spell", i.id, "prepare">>, "prepare")
    BY <1>5 DEF Dnd!SpellActions
  <2> HIDE DEF Good, cast
  <2>5. QED
    BY <2>1, <2>2, <2>3, <2>4
<1>6. ASSUME NEW g \in Grouped PROVE Good(Dnd!Use(i, g))
  BY DEF Dnd!Use, Dnd!Action, Dnd!++, OfKind, Dnd!At
<1>7. Good(Dnd!Use(i, "item")) /\ Good(Dnd!Use(i, "feature"))
  BY <1>6 DEF Grouped
<1>8. \/ a \in Dnd!Toggles(i)
      \/ i.type = "weapon" /\ a \in Dnd!WeaponActions(actor, i)
      \/ i.type = "spell" /\ a \in Dnd!SpellActions(actor, i)
      \/ a = Dnd!Use(i, "item") \/ a = Dnd!Use(i, "feature")
  BY DEF Dnd!ItemActions
<1>9. QED
  BY <1>3, <1>4, <1>5, <1>7, <1>8

\* The actions of the character itself: no targets, and ids of their own.
LEMMA ActorsActions ==
  ASSUME NEW actor, NEW a \in Dnd!ActorActions(actor)
  PROVE  /\ a.id[1] \notin Grouped /\ a.kind \in ActorKinds
         /\ \E id, kind : a = Dnd!Action(id, kind)
<1> DEFINE OfActor(x) == /\ x.id[1] \notin Grouped /\ x.kind \in ActorKinds
                         /\ \E id, kind : x = Dnd!Action(id, kind)
<1> SUFFICES OfActor(a)
  OBVIOUS
<1> DEFINE Skills == {Dnd!Action(<<"skill", s>>, "check") : s \in DOMAIN Dnd!SKILLS}
           Checks == {Dnd!Action(<<"ability", b, k>>, k) : b \in Dnd!ABILITIES, k \in {"check", "save"}}
           Rests == {Dnd!Action(<<"rest", r>>, "rest") : r \in {"short", "long"}}
           Removals == {Dnd!Action(<<"effect", e.id, "remove">>, "endeffect") : e \in Dnd!removable(actor)}
<1>1. \A id, kind : id[1] \notin Grouped /\ kind \in ActorKinds => OfActor(Dnd!Action(id, kind))
  BY DEF Dnd!Action
<1>2. \/ a \in Skills
      \/ a \in Checks
      \/ a = Dnd!Action(<<"init", "roll">>, "check")
      \/ a \in Rests
      \/ a \in Removals
      \/ a = Dnd!Action(<<"concentration", "end">>, "endconcentration")
      \/ a = Dnd!Action(<<"deathsave", "roll">>, "deathsave")
  BY DEF Dnd!ActorActions
<1>3. /\ \A s : OfActor(Dnd!Action(<<"skill", s>>, "check"))
      /\ \A b : \A k \in {"check", "save"} : OfActor(Dnd!Action(<<"ability", b, k>>, k))
      /\ OfActor(Dnd!Action(<<"init", "roll">>, "check"))
      /\ \A r : OfActor(Dnd!Action(<<"rest", r>>, "rest"))
      /\ \A e : OfActor(Dnd!Action(<<"effect", e.id, "remove">>, "endeffect"))
      /\ OfActor(Dnd!Action(<<"concentration", "end">>, "endconcentration"))
      /\ OfActor(Dnd!Action(<<"deathsave", "roll">>, "deathsave"))
  <2>1. /\ \A s : <<"skill", s>>[1] \notin Grouped /\ \A b, k : <<"ability", b, k>>[1] \notin Grouped
        /\ <<"init", "roll">>[1] \notin Grouped /\ \A r : <<"rest", r>>[1] \notin Grouped
        /\ \A e : <<"effect", e.id, "remove">>[1] \notin Grouped
        /\ <<"concentration", "end">>[1] \notin Grouped /\ <<"deathsave", "roll">>[1] \notin Grouped
    BY DEF Grouped
  <2>2. {"check", "save", "rest", "endeffect", "endconcentration", "deathsave"} \subseteq ActorKinds
    BY DEF ActorKinds
  <2> HIDE DEF OfActor
  <2>3. QED
    BY <1>1, <2>1, <2>2
<1> HIDE DEF OfActor
<1>4. CASE a \in Skills
  BY <1>3, <1>4
<1>5. CASE a \in Checks
  <2>1. PICK b \in Dnd!ABILITIES, k \in {"check", "save"} : a = Dnd!Action(<<"ability", b, k>>, k)
    BY <1>5
  <2>2. QED
    BY <1>3, <2>1
<1>6. CASE a \in Rests
  BY <1>3, <1>6
<1>7. CASE a \in Removals
  BY <1>3, <1>7
<1>8. CASE \/ a = Dnd!Action(<<"init", "roll">>, "check")
           \/ a = Dnd!Action(<<"concentration", "end">>, "endconcentration")
           \/ a = Dnd!Action(<<"deathsave", "roll">>, "deathsave")
  BY <1>3, <1>8
<1> HIDE DEF Skills, Checks, Rests, Removals
<1>9. QED
  BY <1>2, <1>4, <1>5, <1>6, <1>7, <1>8

LEMMA OfferedKinds ==
  ASSUME NEW actor, NEW a \in Dnd!dnd5eActions(actor)
  PROVE  \/ a.id[1] \in Grouped /\ a.kind \in ItemKinds
         \/ a.id[1] \notin Grouped /\ a.kind \in ActorKinds
<1>1. a \in Dnd!ActorActions(actor) \/ \E i : a \in Dnd!ItemActions(actor, i)
  BY DEF Dnd!dnd5eActions
<1>2. CASE a \in Dnd!ActorActions(actor)
  BY <1>2, ActorsActions
<1>3. ASSUME NEW i, a \in Dnd!ItemActions(actor, i)
      PROVE  a.id[1] \in Grouped /\ a.kind \in ItemKinds
  BY <1>3, ItemsActions DEF OfKind, ItemKinds
<1>4. QED
  BY <1>1, <1>2, <1>3

\* The endpoints that make Foundry pay, and what a kind of action may ask for:
\* only the toggle asks for equip-item, and a use or a cast always pays.
Pays == {"use-item", "use-spell", "use-feature", "cast-at-slot", "use-and-roll",
         "cast-and-apply-effect", "use-on-targets"}
Fits(kind, e) == (e = "equip-item" => kind = "equip") /\ (kind \in {"use", "cast"} => e \in Pays)

\* A call that writes into an item leaves alone what it is, and an action's what
\* is counted of it; a counter's update leaves it where it lies.  What is given
\* is an entry that makes sense on every sheet.
Marks == {"id", "type"}
Plain(data) == DOMAIN data \cap (Marks \cup ItemCounters) = {}
Counts(data) == DOMAIN data \cap (Marks \cup {"container"}) = {}
Entry(i) ==
  /\ Has(i, "type") /\ Whole(i, ItemCounters) /\ ItemSound(i)
  /\ \A s \in Scenarios : MayHold(s.doc, At(i, "container", ""))
Spares(x) == x.endpoint = "update-item" => Plain(x.data)
Harmless(c) ==
  /\ c.do = "updateItem" => Plain(c.data)
  /\ c.do = "update" /\ Has(c.update, "itemId") => Counts(c.update.data)
  /\ c.do \in Gives => Entry(c.item)
AllHarmless(todo) == \A k \in DOMAIN todo : Harmless(todo[k])

LEMMA DndFits ==
  ASSUME NEW actor, NEW intent, NEW d \in Dnd!dnd5eActions(actor),
         intent.actionId = d.id, intent.kind = d.kind
  PROVE  LET x == Dnd!dnd5eBuild(actor, intent, d)
         IN Refused(x) \/ (Fits(d.kind, x.endpoint) /\ Spares(x))
<1> DEFINE Good(x) == Refused(x) \/ (Fits(d.kind, x.endpoint) /\ Spares(x))
<1>1. \A code : Good(Dnd!Refusal(code))
  BY DEF Dnd!Refusal, Refused, Has
<1>2. \A i, e : Fits(d.kind, e) /\ e # "update-item" => Good(Dnd!Call(e, i))
  BY DEF Dnd!Call, Spares
<1>3. \A i, e, more, rest : Fits(d.kind, e) /\ e # "update-item" =>
        Good(Dnd!++(Dnd!Call(e, i), more)) /\ Good(Dnd!++(Dnd!++(Dnd!Call(e, i), more), rest))
  BY DEF Dnd!Call, Dnd!++, Spares
<1>4. \A i, s : d.kind \in {"use", "cast", "attack"} => Good(Dnd!OnTargets(i, intent, s))
  BY <1>3 DEF Dnd!OnTargets, Fits, Pays
<1>5. \A f : d.kind \notin {"use", "cast"} => Good(Dnd!Roll(f))
  BY DEF Dnd!Roll, Fits, Spares
<1>6. \A i, path, value : d.kind \notin {"use", "cast"} /\ path \notin Marks \cup ItemCounters =>
        Good(Dnd!UpdateItem(i, path, value))
  <2> SUFFICES ASSUME NEW i, NEW path, NEW value, d.kind \notin {"use", "cast"},
                      path \notin Marks \cup ItemCounters
               PROVE  Good(Dnd!UpdateItem(i, path, value))
    OBVIOUS
  <2>1. PICK data : Dnd!UpdateItem(i, path, value) = [endpoint |-> "update-item", itemId |-> i.id, data |-> data]
                    /\ data = Dnd!Field(path, value)
    BY Zenon DEF Dnd!UpdateItem
  <2>2. Plain(data)
    BY <2>1 DEF Plain, Dnd!Field
  <2>3. QED
    BY <2>1, <2>2 DEF Fits, Spares
<1>7. \A i, use, s, f : d.kind \in {"use", "cast"} => Good(Dnd!UseAndRoll(use, i, s, f))
  <2> SUFFICES ASSUME NEW i, NEW use, NEW s, NEW f, d.kind \in {"use", "cast"}
               PROVE  Good(Dnd!UseAndRoll(use, i, s, f))
    OBVIOUS
  <2>1. \A x, y : (Dnd!++(Dnd!++(Dnd!++(Dnd!Call("use-and-roll", i), [use |-> use, formula |-> f]), x), y)).endpoint
                 = "use-and-roll"
    BY DEF Dnd!Call, Dnd!++
  <2>2. Dnd!UseAndRoll(use, i, s, f).endpoint = "use-and-roll"
    BY <2>1 DEF Dnd!UseAndRoll
  <2>3. QED
    BY <2>2 DEF Fits, Pays, Spares
<1>8. \A i, use, opts, s : d.kind \in {"use", "cast"} => Good(Dnd!buildHealAction(actor, i, use, opts, s))
  <2>1. ASSUME NEW i, NEW use, NEW s, NEW f, NEW when, NEW heal, d.kind \in {"use", "cast"}
        PROVE  Good(Dnd!With(Dnd!UseAndRoll(use, i, s, f), when, [heal |-> heal]))
    <3> DEFINE x == Dnd!UseAndRoll(use, i, s, f)
    <3>1. "endpoint" \in DOMAIN x /\ x.endpoint = "use-and-roll"
      BY DEF Dnd!UseAndRoll, Dnd!Call, Dnd!++
    <3> HIDE DEF x
    <3>2. Dnd!With(x, when, [heal |-> heal]).endpoint = "use-and-roll"
      BY <3>1 DEF Dnd!With, Dnd!++
    <3>3. QED
      BY <3>2 DEF x, Fits, Pays, Spares
  <2> HIDE DEF Good
  <2>2. QED
    BY <1>1, <2>1 DEF Dnd!buildHealAction
<1>9. \A i : d.kind = "attack" => Good(Dnd!AttackCall(actor, i, intent))
  <2> SUFFICES ASSUME NEW i, d.kind = "attack" PROVE Good(Dnd!AttackCall(actor, i, intent))
    OBVIOUS
  <2>1. \A s, more : Good(Dnd!++(Dnd!OnTargets(i, intent, s), more))
    BY DEF Dnd!OnTargets, Dnd!Call, Dnd!++, Fits, Spares
  <2>2. Good(Dnd!Call("use-item", i))
    BY <1>2 DEF Fits
  <2> HIDE DEF Good
  <2>3. QED
    BY <1>5, <2>1, <2>2 DEF Dnd!AttackCall
<1>10. \A i : d.kind = "damage" => Good(Dnd!DamageCall(actor, i, intent))
  <2> HIDE DEF Good
  <2>1. QED
    BY <1>1, <1>5 DEF Dnd!DamageCall
<1>11. \A i : d.kind = "use" => Good(Dnd!UseCall(actor, i, intent))
  <2> SUFFICES ASSUME NEW i, d.kind = "use" PROVE Good(Dnd!UseCall(actor, i, intent))
    OBVIOUS
  <2>1. \A e : e \in {"use-item", "use-feature"} =>
          Good(Dnd!++(Dnd!Call(e, i), Dnd!NoTemplate(i)))
    BY <1>3 DEF Fits, Pays
  <2>2. d.kind \in {"use", "cast"} /\ d.kind \in {"use", "cast", "attack"}
    OBVIOUS
  <2> HIDE DEF Good
  <2>3. /\ Good(Dnd!Refusal("INVALID")) /\ Good(Dnd!Refusal("UNKNOWN_RESOURCE"))
        /\ Good(Dnd!OnTargets(i, intent, 0))
        /\ Good(Dnd!++(Dnd!Call("use-item", i), Dnd!NoTemplate(i)))
        /\ Good(Dnd!++(Dnd!Call("use-feature", i), Dnd!NoTemplate(i)))
    BY <1>1, <1>4, <2>1, <2>2
  <2>4. Good(Dnd!UseAndRoll("use-item", i, 0, Dnd!itemDamageFormula(actor, i, 0)))
    BY <1>7, <2>2
  <2>5. /\ Good(Dnd!buildHealAction(actor, i, "use-item", {"forceSelf"}, 0))
        /\ Good(Dnd!buildHealAction(actor, i, "use-feature", {}, 0))
    BY <1>8, <2>2
  <2>6. Dnd!UseCall(actor, i, intent) \in
          {Dnd!Refusal("INVALID"), Dnd!Refusal("UNKNOWN_RESOURCE"), Dnd!OnTargets(i, intent, 0),
           Dnd!buildHealAction(actor, i, "use-item", {"forceSelf"}, 0),
           Dnd!buildHealAction(actor, i, "use-feature", {}, 0),
           Dnd!UseAndRoll("use-item", i, 0, Dnd!itemDamageFormula(actor, i, 0)),
           Dnd!++(Dnd!Call("use-item", i), Dnd!NoTemplate(i)),
           Dnd!++(Dnd!Call("use-feature", i), Dnd!NoTemplate(i))}
    BY DEF Dnd!UseCall
  <2>7. QED
    BY <2>3, <2>4, <2>5, <2>6
<1>12. \A i : d.kind = "cast" => Good(Dnd!CastCall(actor, i, intent, d))
  <2> SUFFICES ASSUME NEW i, d.kind = "cast" PROVE Good(Dnd!CastCall(actor, i, intent, d))
    OBVIOUS
  <2>1. \A e, more : e \in Pays => Good(Dnd!++(Dnd!Call(e, i), more))
    BY <1>3 DEF Fits, Pays
  <2>2. \A more, x, y, z : /\ Good(Dnd!++(Dnd!++(Dnd!++(Dnd!Call("cast-and-apply-effect", i), more), x), y))
                           /\ Good(Dnd!++(Dnd!++(Dnd!++(Dnd!++(Dnd!Call("cast-and-apply-effect", i), more), x), y), z))
    <3> DEFINE Buffs(x) == "endpoint" \in DOMAIN x /\ x.endpoint = "cast-and-apply-effect"
    <3>1. Buffs(Dnd!Call("cast-and-apply-effect", i))
      BY DEF Dnd!Call
    <3>2. \A x, more : Buffs(x) => Buffs(Dnd!++(x, more))
      BY DEF Dnd!++
    <3>3. \A x : Buffs(x) => Good(x)
      BY DEF Fits, Pays, Spares
    <3> HIDE DEF Buffs, Good
    <3>4. QED
      BY <3>1, <3>2, <3>3
  <2> DEFINE base == Dnd!SpellLevel(i)
             chosen == IF Dnd!Has(d, "slotLevels") THEN Dnd!At(intent, "slotLevel", base) ELSE base
             up == IF chosen > base THEN chosen ELSE 0
             use == IF up > 0 THEN "cast-at-slot" ELSE "use-spell"
             buff == Dnd!++(Dnd!++(Dnd!++(Dnd!Call("cast-and-apply-effect", i),
                       [use |-> use, effect |-> Dnd!selfBuffEffect(i)]), Dnd!SlotKey(up)), Dnd!NoTemplate(i))
  <2>3. use \in Pays
    BY DEF Pays
  <2>4. Good(buff) /\ Good(Dnd!++(buff, [targetActorId |-> intent.targetActorId]))
    BY <2>2
  <2>5. Dnd!CastCall(actor, i, intent, d) \in
          {Dnd!Refusal("INVALID"), Dnd!OnTargets(i, intent, up), buff,
           Dnd!++(buff, [targetActorId |-> intent.targetActorId]),
           Dnd!buildHealAction(actor, i, "use-spell", {}, up),
           Dnd!++(Dnd!Call(use, i), Dnd!SlotKey(up)), Dnd!++(Dnd!Call(use, i), Dnd!NoTemplate(i))}
    BY DEF Dnd!CastCall
  <2> HIDE DEF Good, use, up, buff
  <2>6. Good(Dnd!buildHealAction(actor, i, "use-spell", {}, up))
    BY <1>8, d.kind \in {"use", "cast"}
  <2>7. /\ Good(Dnd!Refusal("INVALID")) /\ Good(Dnd!OnTargets(i, intent, up))
        /\ Good(Dnd!buildHealAction(actor, i, "use-spell", {}, up))
        /\ Good(Dnd!++(Dnd!Call(use, i), Dnd!SlotKey(up)))
        /\ Good(Dnd!++(Dnd!Call(use, i), Dnd!NoTemplate(i)))
    BY <1>1, <1>4, <2>1, <2>3, <2>6
  <2>8. QED
    BY <2>4, <2>5, <2>7
<1>p. {"container", "flags.unseen-servent.grip", "prepared"} \cap (Marks \cup ItemCounters) = {}
  BY DEF Marks, ItemCounters
<1>13. \A i : d.kind = "move" => Good(Dnd!MoveCall(actor, i, intent))
  <2> HIDE DEF Good
  <2>1. QED
    BY <1>1, <1>6, <1>p DEF Dnd!MoveCall
<1>14. d.kind \in ItemKinds => \A i : Good(Dnd!dnd5eItemCall(actor, i, intent, d))
  <2>1. \A i, to : /\ d.kind = "equip" => Good(Dnd!++(Dnd!Call("equip-item", i), to))
                   /\ d.kind = "attune" => Good(Dnd!++(Dnd!Call("attune-item", i), to))
    BY <1>3 DEF Fits
  <2> HIDE DEF Good
  <2>2. QED
    BY <1>6, <1>9, <1>10, <1>11, <1>12, <1>13, <1>p, <2>1 DEF Dnd!dnd5eItemCall, ItemKinds
<1>15. \/ d.id[1] \in Grouped /\ d.kind \in ItemKinds
       \/ d.id[1] \notin Grouped /\ d.kind \in ActorKinds
  BY OfferedKinds
<1>16. d.kind \in ActorKinds =>
        /\ \A e \in {"long-rest", "short-rest", "death-save", "break-concentration"} : Good([endpoint |-> e])
        /\ \A e : Good([endpoint |-> "remove-effect", effectId |-> e])
        /\ \A id, mode : Good(Dnd!buildRollAction(actor, id, mode))
  <2>1. d.kind \in ActorKinds => \A f : Good(Dnd!Roll(f))
    BY <1>5 DEF ActorKinds
  <2>2. d.kind \in ActorKinds => \A id, mode : Good(Dnd!buildRollAction(actor, id, mode))
    <3> HIDE DEF Good
    <3>1. QED
      BY <2>1 DEF Dnd!buildRollAction
  <2>3. QED
    BY <2>2 DEF Fits, ActorKinds, Spares
<1> HIDE DEF Good
<1>17. Good(Dnd!dnd5eBuild(actor, intent, d))
  <2>1. CASE ~Dnd!TargetsFit(d, intent)
    BY <1>1, <2>1 DEF Dnd!dnd5eBuild
  <2>2. CASE Dnd!TargetsFit(d, intent) /\ d.id[1] \in Grouped
    BY <1>14, <1>15, <2>2 DEF Dnd!dnd5eBuild, Grouped
  <2>3. CASE Dnd!TargetsFit(d, intent) /\ d.id[1] \notin Grouped
    <3>1. Good(Dnd!ActorCall(actor, intent))
      <4>1. CASE d.kind = "rest"
        <5>1. \E e \in {"long-rest", "short-rest"} : Dnd!ActorCall(actor, intent) = [endpoint |-> e]
          BY <4>1 DEF Dnd!ActorCall
        <5>2. QED
          BY <1>15, <1>16, <2>3, <5>1
      <4>2. CASE d.kind # "rest"
        BY <1>1, <1>15, <1>16, <2>3, <4>2 DEF Dnd!ActorCall, ActorKinds
      <4>3. QED
        BY <4>1, <4>2
    <3>2. QED
      BY <2>3, <3>1 DEF Dnd!dnd5eBuild, Grouped
  <2>4. QED
    BY <2>1, <2>2, <2>3
<1>18. QED
  BY <1>17 DEF Good

LEMMA VampireFits ==
  ASSUME NEW actor, NEW intent, NEW d \in Vampire!wod5eActions(actor)
  PROVE  LET x == Vampire!wod5eBuild(actor, intent, d)
         IN d.kind \in {"pool", "rouse"} /\ (Refused(x) \/ x.endpoint = "roll")
<1>1. d.kind \in {"pool", "rouse"}
  <2>1. \A id, one, two : Vampire!Pool(id, one, two).kind = "pool"
    BY DEF Vampire!Pool
  <2>2. \/ \E id, one, two : d = Vampire!Pool(id, one, two)
        \/ d = [id |-> <<"rouse">>, kind |-> "rouse"]
    BY DEF Vampire!wod5eActions
  <2>3. QED
    BY <2>1, <2>2
<1> DEFINE Good(x) == Refused(x) \/ x.endpoint = "roll"
<1>2. \A code : Good(Vampire!Refusal(code))
  BY DEF Vampire!Refusal, Refused, Has
<1>3. \A f : Good([endpoint |-> "roll", formula |-> f])
  OBVIOUS
<1> HIDE DEF Good
<1>4. Good(Vampire!wod5eBuild(actor, intent, d))
  BY <1>2, <1>3 DEF Vampire!wod5eBuild
<1>5. QED
  BY <1>1, <1>4 DEF Good

LEMMA CallsFit ==
  ASSUME NEW r, NEW actor, NEW action, NEW kind, Fits(kind, action.endpoint), Spares(action)
  PROVE  LET todo == CallsOf(r, actor, action)
         IN /\ todo[1].do = "equip" => kind = "equip"
            /\ kind \in {"use", "cast"} => todo[1].do \in Uses
            /\ AllHarmless(todo)
<1> DEFINE e == action.endpoint
           Good(t) == /\ e \in Pays => t[1].do \in Uses
                      /\ t[1].do = "equip" => e = "equip-item"
                      /\ AllHarmless(t)
<1>1. \A c : c.do \in Uses => Good(<<c>>)
  BY DEF Uses, Gives, AllHarmless, Harmless
<1>2. \A c, d : c.do \in Uses /\ d.do \in {"roll", "effect"} => Good(<<c, d>>)
  BY DEF Uses, Gives, AllHarmless, Harmless
<1>3. \A c : e \notin Pays /\ c.do # "equip" /\ Harmless(c) => Good(<<c>>)
  BY DEF AllHarmless
<1>4. \A c : e = "equip-item" /\ Harmless(c) => Good(<<c>>)
  BY DEF Pays, AllHarmless
<1>5. \A use : ActivateCall(r, use, action).do \in Uses
  BY DEF ActivateCall, Activation, Uses
<1>6. RollCall(r, action).do = "roll"
  BY DEF RollCall, Roll
<1>7. \A c : c.do \notin {"update", "updateItem"} \cup Gives => Harmless(c)
  BY DEF Harmless
<1>8. \A id : e = "update-item" => Harmless([do |-> "updateItem", by |-> r, itemId |-> id, data |-> action.data])
  BY DEF Harmless, Spares, Gives
<1> HIDE DEF Good
<1>9. Good(CallsOf(r, actor, action))
  BY <1>1, <1>2, <1>3, <1>4, <1>5, <1>6, <1>7, <1>8 DEF CallsOf, Pays, Uses, Gives
<1>10. QED
  BY <1>9 DEF Good, Fits

Toggle(body) == body.route = "actions" /\ body.kind = "equip"
Spending(body) == body.route = "actions" /\ body.kind \in {"use", "cast"}

\* The update of a resource never writes what an item is or where it lies.
LEMMA UpdatesSpareIds ==
  ASSUME NEW actor, NEW d, NEW intent
  PROVE  LET u == buildUpdate(actor, d, intent) IN Has(u, "itemId") => Counts(u.data)
<1> DEFINE Good(u) == Has(u, "itemId") => Counts(u.data)
<1>1. \A data : Good([data |-> data])
  BY DEF Has
<1>2. ASSUME NEW id, NEW path, NEW value, path \notin Marks \cup {"container"}
      PROVE  Good(Dnd!OnOneItem(id, path, value)) /\ Good([itemId |-> id, data |-> Field(path, value)])
  <2>1. Counts(Field(path, value)) /\ Counts(Dnd!Field(path, value))
    BY <1>2 DEF Counts, Field, Dnd!Field
  <2>2. QED
    BY <2>1 DEF Dnd!OnOneItem
<1>3. \A path, value : Good(Dnd!OnActor(path, value))
  BY <1>1 DEF Dnd!OnActor
<1>4. \A code : Good(Vampire!Refusal(code))
  BY DEF Vampire!Refusal, Has
<1>p. {"quantity", "uses.spent", "hd.spent"} \cap (Marks \cup {"container"}) = {}
  BY DEF Marks
<1> HIDE DEF Good
<1>5. \A target : Good(Vampire!wod5eWrite(d, intent, target))
  <2>1. \A target : \/ \E code : Vampire!wod5eWrite(d, intent, target) = Vampire!Refusal(code)
                   \/ \E id : Vampire!wod5eWrite(d, intent, target) = [itemId |-> id, data |-> Field("quantity", target)]
                   \/ \E data : Vampire!wod5eWrite(d, intent, target) = [data |-> data]
    BY DEF Vampire!wod5eWrite, Vampire!Field, Field
  <2>2. QED
    BY <1>1, <1>2, <1>4, <1>p, <2>1
<1>6. \A target : Good(Dnd!dnd5eWrite(actor, d, intent, target))
  <2>1. \A target : Good(Dnd!HpUpdate(actor, d, intent, target))
    BY <1>1, <1>3 DEF Dnd!HpUpdate
  <2>2. \A size, value, target : Good(Dnd!buildHitDiceUpdate(actor, size, value, target))
    BY <1>2, <1>p DEF Dnd!buildHitDiceUpdate
  <2>3. \A id, n : Good(Dnd!OnOneItem(id, "quantity", n)) /\ Good(Dnd!OnOneItem(id, "uses.spent", n))
    BY <1>2, <1>p
  <2>4. ASSUME NEW target PROVE Good(Dnd!dnd5eWrite(actor, d, intent, target))
    BY <1>3, <2>1, <2>2, <2>3, Zenon DEF Dnd!dnd5eWrite
  <2>5. QED
    BY <2>4
<1>7. Good(buildUpdate(actor, d, intent))
  BY <1>5, <1>6 DEF buildUpdate
<1>8. QED
  BY <1>7 DEF Good

\* What a player writes for himself, and what the library has, makes sense.
LEMMA CustomItems ==
  ASSUME NEW input, ~Refused(buildCustomItem(input))
  PROVE  Entry(buildCustomItem(input))
<1> DEFINE i == buildCustomItem(input)
<1>1. ~Refused(i) => DOMAIN i \subseteq {"type", "weaponType", "weaponvalue"} /\ "type" \in DOMAIN i /\ i.type \in {"weapon", "gear"}
  <2>1. Refused(Vampire!Refusal("INVALID"))
    BY DEF Vampire!Refusal, Refused, Has
  <2>2. CASE i = Vampire!Refusal("INVALID")
    BY <2>1, <2>2
  <2>3. CASE /\ i = Vampire!With(Vampire!With([type |-> input.type], input.type = "weapon", [weaponType |-> "melee"]),
                                 Vampire!Has(input, "damage"), [weaponvalue |-> input.damage])
             /\ input.type \in {"weapon", "gear"}
    <3>1. \A when, two, x, y : LET v == Vampire!With(Vampire!With([type |-> input.type], when, [weaponType |-> x]), two, [weaponvalue |-> y])
                           IN /\ DOMAIN v \subseteq {"type", "weaponType", "weaponvalue"}
                              /\ "type" \in DOMAIN v /\ v.type = input.type
      BY DEF Vampire!With, Vampire!++
    <3>2. QED
      BY <2>3, <3>1
  <2>4. QED
    BY <2>2, <2>3 DEF buildCustomItem, Vampire!buildCustomItem, Vampire!CustomTypes
<1> HIDE DEF i
<1>2. DOMAIN i \subseteq {"type", "weaponType", "weaponvalue"} /\ "type" \in DOMAIN i /\ i.type \in {"weapon", "gear"}
  BY <1>1 DEF i
<1>3. At(i, "container", "") = "" /\ ~Dnd!HasUses(i) /\ Whole(i, ItemCounters)
  <2>1. {"container", "uses.max", "uses.spent", "levels", "hd.spent"} \cap DOMAIN i = {}
    BY <1>2
  <2>2. At(i, "container", "") = ""
    BY <2>1 DEF At
  <2>3. Dnd!At(i, "uses.max", 0) = 0
    BY <2>1 DEF Dnd!At
  <2>4. Whole(i, ItemCounters)
    BY <2>1 DEF Whole, ItemCounters
  <2>5. ~Dnd!HasUses(i)
    BY <2>3 DEF Dnd!HasUses
  <2>6. QED
    BY <2>2, <2>4, <2>5
<1>4. ItemSound(i)
  BY <1>2, <1>3 DEF ItemSound
<1>5. ASSUME NEW s \in Scenarios PROVE MayHold(s.doc, "")
  BY WritesAssumption DEF MayHold, WellBuilt, ItemIds
<1>6. QED
  BY <1>2, <1>3, <1>4, <1>5 DEF Entry, Has, i

LEMMA Entries ==
  ASSUME NEW e \in DOMAIN Compendium
  PROVE  Entry(Compendium[e])
BY WritesAssumption, CountingAssumption DEF Entry

LEMMA DecisionsFit ==
  ASSUME NEW r, NEW actor, NEW body,
         body.route \in {"intents", "actions", "items", "add", "remove"},
         Decision(r, actor, body).code = 200
  PROVE  LET todo == Decision(r, actor, body).todo
         IN /\ todo[1].do = "equip" => Toggle(body)
            /\ Spending(body) => todo[1].do \in Uses
            /\ AllHarmless(todo)
<1> DEFINE Fine(x) == x.code = 200 => /\ x.todo[1].do = "equip" => Toggle(body)
                                      /\ Spending(body) => x.todo[1].do \in Uses
                                      /\ AllHarmless(x.todo)
<1>1. \A code : code # 200 => Fine(Refuse(code))
  BY DEF Refuse
<1>2. \A error : StatusOf(error) # 200
  BY DEF StatusOf
<1>3. body.route = "actions" => Fine(DecideAction(r, actor, body))
  <2> SUFFICES ASSUME body.route = "actions" PROVE Fine(DecideAction(r, actor, body))
    OBVIOUS
  <2> DEFINE found == {a \in Found(actions(actor), body.actionId) : a.kind = body.kind}
             d == CHOOSE a \in found : TRUE
             intent == parseActionIntent(body, body.kind)
             action == buildAction(actor, intent, d)
  <2>1. CASE found = {}
    BY <1>1, <2>1 DEF DecideAction
  <2>2. CASE found # {} /\ Refused(intent)
    BY <1>1, <2>2 DEF DecideAction
  <2>3. CASE found # {} /\ ~Refused(intent)
    <3>1. d \in found
      BY <2>3
    <3>2. d \in actions(actor) /\ d.id = body.actionId /\ d.kind = body.kind
      BY <3>1 DEF Found
    <3>3. intent.kind = body.kind /\ intent.actionId = body.actionId
      <4>1. \/ intent = Refusal("INVALID")
            \/ intent = [f \in (DOMAIN body \cap FieldsOf(body.kind)) \cup {"kind", "actionId"} |-> body[f]]
        BY DEF parseActionIntent
      <4>2. Refused(Refusal("INVALID"))
        BY DEF Refusal, Refused, Has
      <4> HIDE DEF intent
      <4>3. QED
        BY <2>3, <4>1, <4>2
    <3> HIDE DEF d, intent, found
    <3>4. Refused(action) \/ (Fits(body.kind, action.endpoint) /\ Spares(action))
      <4>1. CASE actor.systemId = "wod5e"
        <5>1. d \in Vampire!wod5eActions(actor) /\ action = Vampire!wod5eBuild(actor, intent, d)
          BY <3>2, <4>1 DEF actions, buildAction
        <5>2. QED
          BY <3>2, <5>1, VampireFits DEF Fits, Spares
      <4>2. CASE actor.systemId # "wod5e"
        <5>1. d \in Dnd!dnd5eActions(actor) /\ action = Dnd!dnd5eBuild(actor, intent, d)
          BY <3>2, <4>2 DEF actions, buildAction
        <5>2. QED
          BY <3>2, <3>3, <5>1, DndFits
      <4>3. QED
        BY <4>1, <4>2
    <3>5. DecideAction(r, actor, body) = DecideBuilt(r, actor, action)
      BY <2>3 DEF DecideAction, found, d, intent
    <3> HIDE DEF action
    <3>6. Fits(body.kind, action.endpoint) /\ Spares(action) => Fine(Ask(CallsOf(r, actor, action)))
      BY CallsFit DEF Ask, Toggle, Spending
    <3> HIDE DEF Fine
    <3>7. Fine(DecideBuilt(r, actor, action))
      BY <1>1, <1>2, <3>4, <3>6 DEF DecideBuilt
    <3>8. QED
      BY <3>5, <3>7
  <2>4. QED
    BY <2>1, <2>2, <2>3
<1>4. \A c : body.route # "actions" /\ c.do # "equip" /\ Harmless(c) => Fine(Ask(<<c>>))
  BY DEF Ask, Spending, AllHarmless
<1>5. \A c, e, f : /\ body.route # "actions" /\ c.do # "equip"
                  /\ Harmless(c) /\ Harmless(e) /\ Harmless(f) => Fine(Ask(<<c, e, f>>))
  BY DEF Ask, Spending, AllHarmless
<1>a. \A c : c.do \notin {"update", "updateItem"} \cup Gives => Harmless(c)
  BY DEF Harmless
<1>b. \A c : c.do \in Gives /\ Entry(c.item) => Harmless(c)
  BY DEF Harmless, Gives
<1> HIDE DEF Fine
<1>6. body.route = "intents" => Fine(DecideIntent(r, actor, body))
  <2> SUFFICES ASSUME body.route = "intents" PROVE Fine(DecideIntent(r, actor, body))
    OBVIOUS
  <2>1. ASSUME NEW d, NEW intent
        PROVE  Fine(Ask(<<[do |-> "update", by |-> r, update |-> buildUpdate(actor, d, intent)]>>))
    <3>1. Harmless([do |-> "update", by |-> r, update |-> buildUpdate(actor, d, intent)])
      BY UpdatesSpareIds DEF Harmless, Gives
    <3>2. QED
      BY <1>4, <3>1
  <2>2. QED
    BY <1>1, <1>2, <2>1 DEF DecideIntent
<1>7. body.route = "items" => Fine(DecideItem(r, actor, body))
  <2>1. \A item : body.route = "items" /\ Entry(item) =>
          Fine(Ask(<<[do |-> "create", by |-> r],
                     [do |-> "giveMade", by |-> r, item |-> item], [do |-> "delete", by |-> r]>>))
    BY <1>5, <1>a, <1>b DEF Gives
  <2>2. QED
    BY <1>1, <2>1, CustomItems DEF DecideItem
<1>8. body.route \in {"add", "remove"} => Fine(DecideLibrary(r, actor, body))
  <2>1. \A item : body.route = "add" /\ Entry(item) => Fine(Ask(<<[do |-> "give", by |-> r, item |-> item]>>))
    BY <1>4, <1>b DEF Gives
  <2>2. \A id : body.route = "remove" => Fine(Ask(<<[do |-> "removeItem", by |-> r, itemId |-> id]>>))
    BY <1>4, <1>a DEF Gives
  <2>3. \A e \in DOMAIN Compendium : body.route = "add" =>
          Fine(Ask(<<[do |-> "give", by |-> r, item |-> Compendium[e]]>>))
    BY <2>1, Entries
  <2> HIDE DEF Fine
  <2>4. CASE body.route = "add"
    BY <1>1, <2>3, <2>4 DEF DecideLibrary
  <2>5. CASE body.route = "remove"
    BY <1>1, <2>2, <2>5 DEF DecideLibrary
  <2>6. QED
    BY <2>4, <2>5
<1>9. Fine(Decision(r, actor, body))
  BY <1>1, <1>3, <1>6, <1>7, <1>8 DEF Decision
<1>10. QED
  BY <1>9 DEF Fine

-----------------------------------------------------------------------------
\* A 200 stands for something

(***************************************************************************)
(* A request none of whose calls went wrong: what its next call is, or     *)
(* what was executed for it when it is about to be told that it was done.  *)
(***************************************************************************)
Promising(r, q) ==
  q.stage = "call" =>
    /\ q.todo[1].do # "equip"
    /\ q.todo[1].do \in {"giveMade", "delete"} => performed[r] # <<>>
    /\ Spending(q.body) => q.todo[1].do \in Uses \/ Spots(performed[r], Uses) # {}
Kept(r, q) ==
  q.stage = "fresh" \/ (q.stage = "done" /\ q.reply = 200) =>
    /\ performed[r] # <<>>
    /\ Spending(q.body) => Spots(performed[r], Uses) # {}
Honest(r) == r \notin troubled /\ ~Toggle(req[r].body) => Promising(r, req[r]) /\ Kept(r, req[r])
AllHonest == \A r \in Requests : Honest(r)

\* What is left alone stays honest, and a request in trouble owes nothing.
LEMMA HonestKept ==
  ASSUME NEW r, Honest(r), req'[r] = req[r], r \in troubled => r \in troubled',
         performed'[r] = performed[r] \/ r \in troubled
  PROVE  Honest(r)'
<1>1. CASE r \in troubled
  BY <1>1 DEF Honest
<1>2. CASE r \notin troubled
  <2>1. performed'[r] = performed[r]
    BY <1>2
  <2>2. Promising(r, req[r])' <=> Promising(r, req[r])
    BY <2>1 DEF Promising
  <2>3. Kept(r, req[r])' <=> Kept(r, req[r])
    BY <2>1 DEF Kept
  <2>4. QED
    BY <2>2, <2>3 DEF Honest
<1>3. QED
  BY <1>1, <1>2

\* A refusal ends a request, but for the item that is to be deleted in any case.
LEMMA RefusalEnds ==
  ASSUME NEW r \in Requests, DOMAIN req = Requests, NEW c, c.do \in Dos \ {"equip", "giveMade", "delete"},
         NEW answer \in Refusals(c), NEW total, Answered(r, c, answer, total)
  PROVE  req'[r].stage = "done" /\ req'[r].reply \in {422, 502}
<1>1. AfterAnswer(c, answer) \in {"unprocessable", "upstream"}
  BY DEF AfterAnswer, Refusals, ReadsErrorBody, NeverThrows, Dos, Uses, Gives
<1>2. Reply(r, 422) \/ Reply(r, 502)
  BY <1>1 DEF Answered
<1>3. QED
  BY <1>2 DEF Reply, Standing

LEMMA HonestInit == Init => AllHonest
<1> SUFFICES ASSUME Init, NEW r \in Requests PROVE Honest(r)
  BY DEF AllHonest
<1>1. req[r].stage = "idle"
  BY DEF Init, Standing
<1>2. QED
  BY <1>1 DEF Honest, Promising, Kept

\* The steps of a request that ask for nothing of the relay yet.
LEMMA ReceiveHonest ==
  ASSUME Inv, NEW r \in Requests, Receive(r)
  PROVE  Honest(r)'
<1>1. /\ DOMAIN req = Requests /\ UNCHANGED <<performed, troubled>>
  BY DEF Receive, Inv, Bounded, ghosts
<1>2. PICK body : \/ req' = [req EXCEPT ![r] = [Standing("details", body) EXCEPT !.known = world.doc]]
                  \/ /\ ~NeedsDocument(body)
                     /\ req' = [req EXCEPT ![r] = [Standing("call", body) EXCEPT !.todo = <<Roll(r, NoHeal)>>]]
                  \/ \E code \in {404, 422, 502} :
                       req' = [req EXCEPT ![r] = [Standing("done", body) EXCEPT !.reply = code]]
  BY DEF Receive
<1>3. \/ req'[r].stage = "details"
      \/ req'[r].stage = "done" /\ req'[r].reply # 200
      \/ req'[r].stage = "call" /\ req'[r].todo[1].do = "roll" /\ req'[r].body.route = "roll"
  <2>1. CASE ~NeedsDocument(body) /\ req' = [req EXCEPT ![r] = [Standing("call", body) EXCEPT !.todo = <<Roll(r, NoHeal)>>]]
    <3>1. req'[r].stage = "call" /\ req'[r].todo = <<Roll(r, NoHeal)>> /\ req'[r].body = body
      BY <1>1, <2>1 DEF Standing
    <3>2. QED
      BY <2>1, <3>1 DEF Roll, NeedsDocument
  <2>2. CASE req' = [req EXCEPT ![r] = [Standing("details", body) EXCEPT !.known = world.doc]]
    BY <1>1, <2>2 DEF Standing
  <2>3. ASSUME NEW code \in {404, 422, 502},
               req' = [req EXCEPT ![r] = [Standing("done", body) EXCEPT !.reply = code]]
        PROVE  req'[r].stage = "done" /\ req'[r].reply # 200
    BY <1>1, <2>3 DEF Standing
  <2>4. QED
    BY <1>2, <2>1, <2>2, <2>3
<1>4. Promising(r, req[r])'
  BY <1>3 DEF Promising, Spending
<1>5. Kept(r, req[r])'
  BY <1>3 DEF Kept
<1>6. QED
  BY <1>4, <1>5 DEF Honest

LEMMA DecideHonest ==
  ASSUME Inv, NEW r \in Requests, Decide(r)
  PROVE  Honest(r)'
<1>1. PICK actor : Act(r, Decision(r, actor, req[r].body))
  BY DEF Decide
<1> DEFINE d == Decision(r, actor, req[r].body)
<1>2. /\ req[r].stage = "details" /\ DOMAIN req = Requests /\ UNCHANGED <<performed, troubled>>
  BY DEF Decide, Inv, Bounded, ghosts
<1>3. req[r].body.route \in {"intents", "actions", "items", "add", "remove"}
  BY <1>2 DEF Inv, Orderly, Staged, Routes
<1>4. CASE d.code # 200
  <2>1. req'[r].stage = "done" /\ req'[r].reply = d.code
    BY <1>1, <1>2, <1>4 DEF Act, Reply, Standing
  <2> HIDE DEF d
  <2>2. QED
    BY <1>4, <2>1 DEF Honest, Promising, Kept
<1>5. CASE d.code = 200
  <2> DEFINE q == [Standing("call", req[r].body) EXCEPT !.known = req[r].known, !.todo = d.todo, !.gave = TRUE]
  <2>1. req' = [req EXCEPT ![r] = q]
    BY <1>1, <1>2, <1>5 DEF Act, Continue
  <2>2. q.stage = "call" /\ q.todo = d.todo /\ q.body = req[r].body
    BY DEF Standing
  <2> HIDE DEF q
  <2>3. req'[r].stage = "call" /\ req'[r].todo = d.todo /\ req'[r].body = req[r].body
    BY <1>2, <2>1, <2>2
  <2>4. /\ d.todo[1].do = "equip" => Toggle(req[r].body)
        /\ Spending(req[r].body) => d.todo[1].do \in Uses
    BY <1>3, <1>5, DecisionsFit
  <2>5. d.todo[1].do \notin {"giveMade", "delete"}
    BY <1>3, <1>5, DecisionsArePlanned
  <2> HIDE DEF d
  <2>6. ~Toggle(req'[r].body) => Promising(r, req[r])'
    BY <2>3, <2>4, <2>5 DEF Promising
  <2>7. Kept(r, req[r])'
    BY <2>3 DEF Kept
  <2>8. QED
    BY <2>6, <2>7 DEF Honest
<1>6. QED
  BY <1>4, <1>5

\* A call that was executed, and one that Foundry refused.
LEMMA WellHonest ==
  ASSUME Inv, NEW r \in Requests, Honest(r), CallGoesWell(r)
  PROVE  Honest(r)'
<1> DEFINE c == Head(req[r].todo)
           q == req'[r]
<1>1. PICK hit, total : Execute(c, hit) /\ Answered(r, c, "ok", total)
  BY DEF CallGoesWell
<1>2. req[r].stage = "call" /\ troubled' = troubled
  BY DEF CallGoesWell
<1>3. c = req[r].todo[1] /\ c.by = r /\ c.do \in Dos /\ Plan(r, req[r].todo)
  BY <1>2, NextCall
<1>4. Moved(r, c, "ok")
  BY <1>1, <1>3, AnswerMoves DEF Inv, Bounded
<1>5. DOMAIN performed = Requests /\ performed[r] \in Seq(Dos)
  BY DEF Inv, Bounded
<1>6. performed'[r] = Append(performed[r], c.do)
  BY <1>1, <1>3, <1>5 DEF Execute
<1> HIDE DEF c
<1>7. performed'[r] # <<>>
  BY <1>3, <1>5, <1>6, AppendProperties
<1>8. Spots(performed'[r], Uses) =
        Spots(performed[r], Uses) \cup (IF c.do \in Uses THEN {Len(performed[r]) + 1} ELSE {})
  BY <1>3, <1>5, <1>6, SpotsAppend
<1>9. SUFFICES ASSUME r \notin troubled', ~Toggle(q.body)
               PROVE  Promising(r, req[r])' /\ Kept(r, req[r])'
  BY DEF Honest
<1>10. q.body = req[r].body
  BY <1>4 DEF Moved
<1>11. Spending(q.body) => Spots(performed'[r], Uses) # {}
  <2>1. Promising(r, req[r])
    BY <1>2, <1>9, <1>10 DEF Honest
  <2>2. Spending(req[r].body) => c.do \in Uses \/ Spots(performed[r], Uses) # {}
    BY <1>2, <1>3, <2>1 DEF Promising
  <2>3. QED
    BY <1>8, <1>10, <2>2
<1>12. q.stage = "call" => q.todo[1].do # "equip"
  BY <1>4 DEF Moved, Follows, Couples
<1> HIDE DEF q
<1>13. QED
  BY <1>7, <1>11, <1>12 DEF Promising, Kept, q

LEMMA RefusedHonest ==
  ASSUME Inv, NEW r \in Requests, Honest(r), CallIsRefused(r)
  PROVE  Honest(r)'
<1> DEFINE c == Head(req[r].todo)
           q == req'[r]
<1>1. PICK answer \in Refusals(c) : Answered(r, c, answer, NoNumber)
  BY DEF CallIsRefused
<1>2. req[r].stage = "call" /\ UNCHANGED <<troubled, performed>>
  BY DEF CallIsRefused, NotExecuted
<1>3. c = req[r].todo[1] /\ c.by = r /\ c.do \in Dos /\ Plan(r, req[r].todo)
  BY <1>2, NextCall
<1>4. Moved(r, c, answer) /\ DOMAIN req = Requests
  BY <1>1, <1>3, AnswerMoves DEF Inv, Bounded
<1>5. Begins(req[r].body.route, c.do)
  BY <1>2, <1>3 DEF Inv, Orderly, Called
<1> HIDE DEF c
<1>6. SUFFICES ASSUME r \notin troubled, ~Toggle(q.body)
               PROVE  Promising(r, req[r])' /\ Kept(r, req[r])'
  BY <1>2 DEF Honest
<1>7. q.body = req[r].body
  BY <1>4 DEF Moved
<1>8. Promising(r, req[r])
  BY <1>2, <1>6, <1>7 DEF Honest
<1>9. CASE c.do \in {"giveMade", "delete"}
  <2>1. performed[r] # <<>> /\ ~Spending(q.body)
    BY <1>2, <1>3, <1>5, <1>7, <1>8, <1>9 DEF Promising, Begins, Spending
  <2>2. q.stage = "call" => q.todo[1].do # "equip"
    BY <1>4 DEF Moved, Follows, Couples
  <2> HIDE DEF q
  <2>3. QED
    BY <1>2, <2>1, <2>2 DEF Promising, Kept, q
<1>10. CASE c.do \notin {"giveMade", "delete"}
  <2>1. c.do # "equip"
    BY <1>2, <1>3, <1>8 DEF Promising
  <2>2. q.stage = "done" /\ q.reply # 200
    BY <1>1, <1>3, <1>4, <1>10, <2>1, RefusalEnds
  <2>3. QED
    BY <2>2 DEF Promising, Kept
<1>11. QED
  BY <1>9, <1>10

LEMMA HonestStep == Inv /\ AllHonest /\ [Next]_vars => AllHonest'
<1> SUFFICES ASSUME Inv, AllHonest, [Next]_vars, NEW r \in Requests PROVE Honest(r)'
  BY DEF AllHonest
<1>1. Honest(r) /\ DOMAIN performed = Requests /\ DOMAIN req = Requests
  BY DEF AllHonest, Inv, Bounded
<1>2. ASSUME NEW s \in Requests, Receive(s) PROVE Honest(r)'
  <2>1. CASE s = r
    BY <1>2, <2>1, ReceiveHonest
  <2>2. CASE s # r
    <3>1. req'[r] = req[r]
      BY <1>1, <1>2, <2>2 DEF Receive
    <3>2. UNCHANGED <<performed, troubled>>
      BY <1>2 DEF Receive, ghosts
    <3>3. QED
      BY <1>1, <3>1, <3>2, HonestKept
  <2>3. QED
    BY <2>1, <2>2
<1>3. ASSUME NEW s \in Requests, Decide(s) PROVE Honest(r)'
  <2>1. CASE s = r
    BY <1>3, <2>1, DecideHonest
  <2>2. CASE s # r
    <3>1. req'[r] = req[r]
      <4>1. PICK decision : Act(s, decision)
        BY <1>3 DEF Decide
      <4>2. QED
        BY <1>1, <2>2, <4>1 DEF Act, Reply, Continue
    <3>2. UNCHANGED <<performed, troubled>>
      BY <1>3 DEF Decide, ghosts
    <3>3. QED
      BY <1>1, <3>1, <3>2, HonestKept
  <2>3. QED
    BY <2>1, <2>2
<1>4. ASSUME NEW s \in Requests, s # r, req[s].stage = "call", NEW answer, NEW total,
             Answered(s, Head(req[s].todo), answer, total)
      PROVE  req'[r] = req[r] /\ Head(req[s].todo).by = s
  <2>1. Plan(s, req[s].todo) /\ Head(req[s].todo).by = s
    BY <1>4, NextCall
  <2>2. Moved(s, Head(req[s].todo), answer)
    BY <1>1, <1>4, <2>1, AnswerMoves
  <2>3. QED
    BY <1>4, <2>1, <2>2 DEF Moved
<1>5. ASSUME NEW s \in Requests, CallGoesWell(s) PROVE Honest(r)'
  <2>1. CASE s = r
    BY <1>1, <1>5, <2>1, WellHonest
  <2>2. CASE s # r
    <3>1. PICK hit, total : /\ Execute(Head(req[s].todo), hit)
                            /\ Answered(s, Head(req[s].todo), "ok", total)
      BY <1>5 DEF CallGoesWell
    <3>2. req[s].stage = "call" /\ troubled' = troubled
      BY <1>5 DEF CallGoesWell
    <3>3. req'[r] = req[r] /\ Head(req[s].todo).by = s
      BY <1>4, <2>2, <3>1, <3>2
    <3>4. performed'[r] = performed[r]
      BY <1>1, <2>2, <3>1, <3>3 DEF Execute
    <3>5. QED
      BY <1>1, <3>2, <3>3, <3>4, HonestKept
  <2>3. QED
    BY <2>1, <2>2
<1>6. ASSUME NEW s \in Requests, CallIsRefused(s) PROVE Honest(r)'
  <2>1. CASE s = r
    BY <1>1, <1>6, <2>1, RefusedHonest
  <2>2. CASE s # r
    <3>1. PICK answer : Answered(s, Head(req[s].todo), answer, NoNumber)
      BY <1>6 DEF CallIsRefused
    <3>2. req[s].stage = "call" /\ UNCHANGED <<troubled, performed>>
      BY <1>6 DEF CallIsRefused, NotExecuted
    <3>3. req'[r] = req[r]
      BY <1>4, <2>2, <3>1, <3>2
    <3>4. QED
      BY <1>1, <3>2, <3>3, HonestKept
  <2>3. QED
    BY <2>1, <2>2
<1>7. ASSUME NEW s \in Requests, CallGoesWrong(s) PROVE Honest(r)'
  <2>1. req[s].stage = "call" /\ troubled' = troubled \cup {s}
    BY <1>7 DEF CallGoesWrong
  <2>2. CASE s = r
    BY <2>1, <2>2 DEF Honest
  <2>3. CASE s # r
    <3>1. PICK m : /\ IF m[2] THEN Execute(Head(req[s].todo), {}) ELSE NotExecuted
                   /\ Answered(s, Head(req[s].todo), m[1], NoNumber)
      BY <1>7 DEF CallGoesWrong
    <3>2. req'[r] = req[r] /\ Head(req[s].todo).by = s
      BY <1>4, <2>1, <2>3, <3>1
    <3>3. performed'[r] = performed[r]
      BY <1>1, <2>3, <3>1, <3>2 DEF Execute, NotExecuted
    <3>4. QED
      BY <1>1, <2>1, <3>2, <3>3, HonestKept
  <2>4. QED
    BY <2>2, <2>3
<1>8. ASSUME NEW s \in Requests, FreshRead(s) PROVE Honest(r)'
  <2>1. UNCHANGED <<performed, troubled>>
    BY <1>8 DEF FreshRead, ghosts
  <2>2. CASE s = r
    <3>1. req[r].stage = "fresh"
      BY <1>8, <2>2 DEF FreshRead
    <3>2. req'[r].stage = "done" /\ req'[r].body = req[r].body
      BY <1>1, <1>8, <2>2 DEF FreshRead, Reply, Standing
    <3>3. Kept(r, req[r]) => Kept(r, req[r])'
      BY <2>1, <3>1, <3>2 DEF Kept
    <3>4. Promising(r, req[r])'
      BY <3>2 DEF Promising
    <3>5. QED
      BY <1>1, <2>1, <3>2, <3>3, <3>4 DEF Honest
  <2>3. CASE s # r
    <3>1. req'[r] = req[r]
      BY <1>1, <1>8, <2>3 DEF FreshRead, Reply
    <3>2. QED
      BY <1>1, <2>1, <3>1, HonestKept
  <2>4. QED
    BY <2>2, <2>3
<1>9. ASSUME NEW c \in late, ExecuteLate(c) PROVE Honest(r)'
  <2>1. req' = req /\ troubled' = troubled
    BY <1>9 DEF ExecuteLate
  <2>2. c.by \in troubled /\ c.by \in Requests
    BY DEF Inv, Bounded
  <2>3. performed' = performed \/ performed' = [performed EXCEPT ![c.by] = Append(@, c.do)]
    BY <1>9 DEF ExecuteLate
  <2>4. performed'[r] = performed[r] \/ r \in troubled
    BY <1>1, <2>2, <2>3
  <2>5. QED
    BY <1>1, <2>1, <2>4, HonestKept
<1>10. ASSUME NEW u \in sc.edits, GmEdits(u) PROVE Honest(r)'
  <2>1. UNCHANGED <<req, performed, troubled>>
    BY <1>10 DEF GmEdits, ghosts
  <2>2. QED
    BY <1>1, <2>1, HonestKept
<1>11. CASE UNCHANGED vars
  <2>1. UNCHANGED <<req, performed, troubled>>
    BY <1>11 DEF vars
  <2>2. QED
    BY <1>1, <2>1, HonestKept
<1>12. ASSUME NEW s \in Requests, EntryUnread(s) PROVE Honest(r)'
  <2>1. UNCHANGED <<performed, troubled>>
    BY <1>12 DEF EntryUnread, ghosts
  <2>2. CASE s = r
    <3>1. req'[r].stage = "done" /\ req'[r].reply # 200
      BY <1>1, <1>12, <2>2 DEF EntryUnread, Reply, Standing
    <3>2. QED
      BY <3>1 DEF Honest, Promising, Kept
  <2>3. CASE s # r
    <3>1. req'[r] = req[r]
      BY <1>1, <1>12, <2>3 DEF EntryUnread, Reply
    <3>2. QED
      BY <1>1, <2>1, <3>1, HonestKept
  <2>4. QED
    BY <2>2, <2>3
<1>13. QED
  BY <1>2, <1>3, <1>5, <1>6, <1>7, <1>8, <1>9, <1>10, <1>11, <1>12 DEF Next

-----------------------------------------------------------------------------
\* Theorems

(***************************************************************************)
(* However many requests, whatever the document, and whatever times out,   *)
(* gets lost or falls back to another endpoint: one request makes Foundry  *)
(* pay for an ability at most once (the actions route of app.ts, its 408   *)
(* branches and activateAbility's fallback).                               *)
(***************************************************************************)
THEOREM ActivatesOnce == Spec => []ActivatedOnce
<1>1. Inv => ActivatedOnce
  BY DEF Inv, Orderly, Once, ActivatedOnce, Activations, Spots, Uses
<1>2. QED
  BY <1>1, InvAlways, PTL

(***************************************************************************)
(* A request that is answered 403, 404, 409 or 422 has changed nothing in  *)
(* Foundry, and no call of it is left that could (the gates of the write   *)
(* routes come before the first call, and execute-js refusing is the only  *)
(* answer of Foundry's that becomes a 4xx).                                *)
(***************************************************************************)
THEOREM RefusalsUntouched == Spec => []RefusedMeansUntouched
<1>1. ASSUME Inv PROVE RefusedMeansUntouched
  <2> SUFFICES ASSUME NEW r \in Requests, NEW code \in {403, 404, 409, 422}, Replied(r, code)
               PROVE  performed[r] = <<>> /\ \A c \in late : c.by # r
    BY DEF RefusedMeansUntouched
  <2>1. Pristine(r)
    BY <1>1 DEF Inv, Orderly, Ended, Replied, Given4xx
  <2>2. \A c \in late : c.do \in Dos
    BY <1>1 DEF Inv, Bounded
  <2>3. QED
    BY <2>1, <2>2 DEF Pristine, LateOf
<1>2. QED
  BY <1>1, InvAlways, PTL

(***************************************************************************)
(* A custom or library item arrives at most once, exactly once with a 200  *)
(* of a request no call of which went wrong, and such a request leaves no  *)
(* scratch item behind (the create, give, delete of the items route).      *)
(***************************************************************************)
THEOREM ItemsOnce == Spec => []ItemsArriveOnce
<1>1. ASSUME Inv PROVE ItemsArriveOnce
  <2> SUFFICES ASSUME NEW r \in Requests
               PROVE  /\ AtMostOne(Copies(r))
                      /\ Replied(r, 200) /\ req[r].body.route \in {"items", "add"} /\ r \notin troubled
                           => Copies(r) # {}
                      /\ req[r].stage = "done" /\ r \in world.scratch => r \in troubled
    BY DEF ItemsArriveOnce
  <2>1. Orderly(r)
    BY <1>1 DEF Inv
  <2>2. Copies(r) = Spots(performed[r], Gives)
    BY DEF Copies, Spots, Gives
  <2>3. AtMostOne(Copies(r))
    BY <2>1, <2>2 DEF Orderly, Once
  <2>4. Replied(r, 200) /\ req[r].body.route \in {"items", "add"} /\ r \notin troubled
          => Copies(r) # {}
    BY <2>1, <2>2 DEF Orderly, Ended, Replied
  <2>5. req[r].stage = "done" /\ r \in world.scratch => r \in troubled
    BY <2>1 DEF Orderly, Tidy
  <2>6. QED
    BY <2>3, <2>4, <2>5
<1>2. QED
  BY <1>1, InvAlways, PTL

(***************************************************************************)
(* A 200 is never given for nothing: when none of the calls of a request   *)
(* went wrong, one was executed, and for a use or a cast one that pays for *)
(* it and does not only roll (every branch of buildAction and of the       *)
(* actions route, and what the relay client makes of an error in a 200     *)
(* body; the equip toggle, whose client method does not read it, is left   *)
(* out).                                                                   *)
(***************************************************************************)
THEOREM OkIsHonest == Spec => []OkMeansDone
<1>1. AllHonest => OkMeansDone
  BY DEF AllHonest, Honest, Kept, OkMeansDone, Replied, Toggle, Spending, Activations, Spots, Uses
<1>2. Spec => []AllHonest
  BY InvInit, InvStep, HonestInit, HonestStep, PTL DEF Spec
<1>3. QED
  BY <1>1, <1>2, PTL

-----------------------------------------------------------------------------
(* What an intent writes.                                                  *)

LEMMA Greatest ==
  ASSUME NEW a \in Int, NEW b \in Int
  PROVE  /\ Max({a, b}) = IF a >= b THEN a ELSE b
         /\ Dnd!Max({a, b}) = IF a >= b THEN a ELSE b
         /\ Vampire!Max({a, b}) = IF a >= b THEN a ELSE b
BY DEF Max, Dnd!Max, Vampire!Max

LEMMA Least ==
  ASSUME NEW a \in Int, NEW b \in Int
  PROVE  /\ Min({a, b}) = IF a <= b THEN a ELSE b
         /\ Dnd!Min({a, b}) = IF a <= b THEN a ELSE b
BY DEF Min, Dnd!Min

Between(v, low, high) == IF v < low THEN low ELSE IF v > high THEN high ELSE v

LEMMA ClampIsBetween ==
  ASSUME NEW v \in Int, NEW d, NEW low \in Int, NEW high \in Int, low <= high,
         "min" \in DOMAIN d, "max" \in DOMAIN d, d["min"] = low, d["max"] = high
  PROVE  Clamp(v, d) = Between(v, low, high) /\ Dnd!Clamp(v, d) = Between(v, low, high)
<1> DEFINE above == IF v >= low THEN v ELSE low
<1>1. \A x : /\ At(d, "min", x) = low /\ At(d, "max", x) = high
             /\ Dnd!At(d, "min", x) = low /\ Dnd!At(d, "max", x) = high
  BY DEF At, Dnd!At
<1>2. Max({v, low}) = above /\ Dnd!Max({v, low}) = above
  BY Greatest
<1>3. above \in Int /\ above >= low
  OBVIOUS
<1>4. Clamp(v, d) = Min({above, high}) /\ Dnd!Clamp(v, d) = Dnd!Min({above, high})
  BY <1>1, <1>2 DEF Clamp, Dnd!Clamp
<1> HIDE DEF above
<1>5. Clamp(v, d) = (IF above <= high THEN above ELSE high) /\ Dnd!Clamp(v, d) = (IF above <= high THEN above ELSE high)
  BY <1>3, <1>4, Least
<1>6. QED
  BY <1>5 DEF above, Between

\* Which counter is meant.
LEMMA OtherCounters ==
  /\ <<"hp">> # <<"hp", "temp">> /\ <<"hp">> # <<"inspiration">> /\ <<"hp">> # <<"exhaustion">> /\ <<"hp">> # <<"ac">>
  /\ \A x : <<"hp">> # <<"deathsaves", x>> /\ <<"hp">> # <<"hitdice", x>> /\ <<"hp">> # <<"slots", x>>
            /\ <<"hp">> # <<"currency", x>>
  /\ \A x, y : <<"hp">> # <<"item", x, y>>
OBVIOUS

Hp(actor) == Dnd!At(actor.sys, Dnd!HpPath("value"), 0)
Temp(actor) == Dnd!At(actor.sys, Dnd!HpPath("temp"), 0)
HpMax(actor) == Dnd!At(actor.sys, Dnd!HpPath("max"), Hp(actor))

LEMMA CounterFields ==
  ASSUME NEW id, NEW value, NEW max
  PROVE  /\ Dnd!Counter(id, value).id = id
         /\ LET d == Dnd!Bounded(id, value, max)
            IN /\ d.id = id /\ d.value = value
               /\ "min" \in DOMAIN d /\ d["min"] = 0 /\ "max" \in DOMAIN d /\ d["max"] = max
BY DEF Dnd!Counter, Dnd!Bounded, Dnd!++

LEMMA HpCounter ==
  ASSUME NEW actor, actor.systemId = "dnd5e", NEW d \in resources(actor), d.id = <<"hp">>
  PROVE  d = Dnd!Bounded(<<"hp">>, Hp(actor), HpMax(actor))
<1>1. d \in Dnd!dnd5eResources(actor)
  BY DEF resources
<1>2. d \notin Dnd!ItemCounters(actor)
  <2>1. CASE \E i : d = Dnd!Counter(<<"item", i.id, "qty">>, Dnd!At(i, "quantity", 1))
    BY <2>1, CounterFields, OtherCounters
  <2>2. CASE \E i : d = Dnd!Bounded(<<"item", i.id, "uses">>, Dnd!usesLeft(i), i["uses.max"])
    BY <2>2, CounterFields, OtherCounters
  <2>3. QED
    BY <2>1, <2>2 DEF Dnd!ItemCounters
<1>3. d \in Dnd!Vitals(actor)
  <2>1. ASSUME NEW p
       PROVE  d # Dnd!Bounded(<<"slots", p>>, Dnd!SlotValue(actor.sys, p), Dnd!SlotMax(actor.sys, p))
    <3>1. Dnd!Bounded(<<"slots", p>>, Dnd!SlotValue(actor.sys, p), Dnd!SlotMax(actor.sys, p)).id = <<"slots", p>>
      BY CounterFields
    <3>2. QED
      BY <3>1, OtherCounters
  <2>2. ASSUME NEW c
       PROVE  d # Dnd!Counter(<<"currency", c>>, Dnd!At(actor.sys, <<"currency", c>>, 0))
    <3>1. Dnd!Counter(<<"currency", c>>, Dnd!At(actor.sys, <<"currency", c>>, 0)).id = <<"currency", c>>
      BY CounterFields
    <3>2. QED
      BY <3>1, OtherCounters
  <2>3. d \notin {[id |-> <<"ac">>, value |-> Dnd!armorClass(actor), writable |-> FALSE]}
    BY OtherCounters
  <2>4. \/ d \in Dnd!Vitals(actor) \cup Dnd!ItemCounters(actor)
        \/ \E p : d = Dnd!Bounded(<<"slots", p>>, Dnd!SlotValue(actor.sys, p), Dnd!SlotMax(actor.sys, p))
        \/ \E c : d = Dnd!Counter(<<"currency", c>>, Dnd!At(actor.sys, <<"currency", c>>, 0))
        \/ d \in {[id |-> <<"ac">>, value |-> Dnd!armorClass(actor), writable |-> FALSE]}
    BY <1>1, Zenon DEF Dnd!dnd5eResources
  <2>5. QED
    BY <1>2, <2>1, <2>2, <2>3, <2>4
<1>4. d # Dnd!Counter(<<"hp", "temp">>, Dnd!At(actor.sys, Dnd!HpPath("temp"), 0))
  BY CounterFields, OtherCounters
<1>5. ~\E v : d = Dnd!Bounded(<<"inspiration">>, v, 1)
  BY CounterFields, OtherCounters
<1>6. ~\E v : d = Dnd!Bounded(<<"exhaustion">>, v, 6)
  BY CounterFields, OtherCounters
<1>7. ASSUME NEW k, NEW v
      PROVE  d # Dnd!Bounded(<<"deathsaves", k>>, v, 3)
  <2>1. Dnd!Bounded(<<"deathsaves", k>>, v, 3).id = <<"deathsaves", k>>
    BY CounterFields
  <2>2. QED
    BY <2>1, OtherCounters
<1>8. ASSUME NEW k, NEW v, NEW m
      PROVE  d # Dnd!Bounded(<<"hitdice", k>>, v, m)
  <2>1. Dnd!Bounded(<<"hitdice", k>>, v, m).id = <<"hitdice", k>>
    BY CounterFields
  <2>2. QED
    BY <2>1, OtherCounters
<1>9. \/ d = Dnd!Bounded(<<"hp">>, Hp(actor), HpMax(actor))
      \/ d = Dnd!Counter(<<"hp", "temp">>, Dnd!At(actor.sys, Dnd!HpPath("temp"), 0))
      \/ \E v : d = Dnd!Bounded(<<"inspiration">>, v, 1)
      \/ \E v : d = Dnd!Bounded(<<"exhaustion">>, v, 6)
      \/ \E k, v : d = Dnd!Bounded(<<"deathsaves", k>>, v, 3)
      \/ \E k, v, m : d = Dnd!Bounded(<<"hitdice", k>>, v, m)
  BY <1>3, Zenon DEF Dnd!Vitals, Hp, HpMax
<1>10. QED
  BY <1>4, <1>5, <1>6, <1>7, <1>8, <1>9

\* What a document has after an update of its own.
LEMMA AppliedPath ==
  ASSUME NEW actor, "sys" \in DOMAIN actor, NEW data, NEW path, NEW default
  PROVE  Dnd!At(Applied(actor, [data |-> data]).sys, path, default)
           = IF path \in DOMAIN data THEN data[path] ELSE Dnd!At(actor.sys, path, default)
<1>1. Applied(actor, [data |-> data]) = [actor EXCEPT !.sys = data ++ actor.sys]
  BY DEF Applied, Has
<1>2. Applied(actor, [data |-> data]).sys = data ++ actor.sys
  BY <1>1
<1>3. QED
  BY <1>2 DEF ++, Dnd!At

(***************************************************************************)
(* What comes of the hit points when a player takes damage or is healed    *)
(* (a delta on hp): damage is taken from the temporary hit points first    *)
(* and only what they do not absorb from the hit points, exactly as much   *)
(* as there is; healing stops at the maximum and leaves the temporary ones *)
(* alone.  Both stay within their bounds.                                  *)
(***************************************************************************)
THEOREM DamageIsTakenOnce ==
  ASSUME NEW actor, "sys" \in DOMAIN actor, actor.systemId = "dnd5e",
         HpMax(actor) \in Nat, Hp(actor) \in 0..HpMax(actor), Temp(actor) \in Nat,
         NEW d \in resources(actor), d.id = <<"hp">>,
         NEW intent, intent.kind = "delta", intent.amount \in Int
  PROVE  LET after == Applied(actor, buildUpdate(actor, d, intent))
             left == Hp(actor) + Temp(actor) + intent.amount
         IN /\ Hp(after) \in 0..HpMax(actor) /\ Temp(after) \in 0..Temp(actor)
            /\ intent.amount < 0 =>
                 /\ Hp(after) + Temp(after) = IF left > 0 THEN left ELSE 0
                 /\ Temp(after) > 0 => Hp(after) = Hp(actor)
            /\ intent.amount >= 0 =>
                 /\ Hp(after) = Between(Hp(actor) + intent.amount, 0, HpMax(actor))
                 /\ Temp(after) = Temp(actor)
<1> DEFINE n == intent.amount
           target == Clamp(IF intent.kind = "set" THEN intent.value ELSE d.value + n, d)
           update == buildUpdate(actor, d, intent)
           absorbed == Dnd!Min({Temp(actor), -n})
           value == Dnd!Clamp(d.value + n + absorbed, d)
<1>1. /\ d.value = Hp(actor) /\ "min" \in DOMAIN d /\ d["min"] = 0
      /\ "max" \in DOMAIN d /\ d["max"] = HpMax(actor)
  BY HpCounter, CounterFields
<1>2. update = Dnd!HpUpdate(actor, d, intent, target)
  <2>1. update = Dnd!dnd5eWrite(actor, d, intent, target)
    BY DEF buildUpdate
  <2> HIDE DEF target, update
  <2>2. d.id[1] = "hp"
    OBVIOUS
  <2>3. Dnd!dnd5eWrite(actor, d, intent, target) = Dnd!HpUpdate(actor, d, intent, target)
    BY <2>2, Zenon DEF Dnd!dnd5eWrite
  <2>4. QED
    BY <2>1, <2>3
<1>3. CASE n >= 0
  <2>1. target = Between(Hp(actor) + n, 0, HpMax(actor))
    <3>1. target = Clamp(Hp(actor) + n, d)
      BY <1>1
    <3>2. Hp(actor) + n \in Int /\ HpMax(actor) \in Int /\ 0 <= HpMax(actor)
      OBVIOUS
    <3> HIDE DEF target, Hp, HpMax
    <3>3. QED
      BY <1>1, <3>1, <3>2, ClampIsBetween
  <2>2. update = [data |-> Dnd!Field(Dnd!HpPath("value"), target)]
    <3>1. ~(n < 0)
      BY <1>3
    <3> HIDE DEF target, update
    <3>2. QED
      BY <1>2, <3>1, Zenon DEF Dnd!HpUpdate, Dnd!OnActor
  <2> HIDE DEF target, update
  <2>3. Hp(Applied(actor, update)) = target
    BY <2>2, AppliedPath DEF Hp, Dnd!Field, Dnd!HpPath
  <2>4. Temp(Applied(actor, update)) = Temp(actor)
    BY <2>2, AppliedPath DEF Temp, Dnd!Field, Dnd!HpPath
  <2>5. target \in 0..HpMax(actor)
    BY <1>3, <2>1 DEF Between
  <2> HIDE DEF Hp, Temp, HpMax
  <2>6. QED
    BY <1>3, <2>1, <2>3, <2>4, <2>5 DEF update
<1>4. CASE n < 0
  <2>1. absorbed = (IF Temp(actor) <= -n THEN Temp(actor) ELSE -n)
    <3>1. Temp(actor) \in Int /\ -n \in Int
      OBVIOUS
    <3> HIDE DEF Temp
    <3>2. QED
      BY <3>1, Least
  <2>2. value = Between(Hp(actor) + n + absorbed, 0, HpMax(actor))
    <3>1. absorbed \in Int
      BY <2>1
    <3> HIDE DEF absorbed
    <3>2. PICK sum \in Int : sum = Hp(actor) + n + absorbed
      BY <3>1
    <3>3. value = Dnd!Clamp(sum, d) /\ HpMax(actor) \in Int /\ 0 <= HpMax(actor)
      BY <1>1, <3>2
    <3> HIDE DEF value, Hp, HpMax
    <3>4. \A low \in Int : d["min"] = low /\ low <= HpMax(actor) => value = Between(sum, low, HpMax(actor))
      BY <1>1, <3>3, ClampIsBetween
    <3>5. QED
      BY <1>1, <3>2, <3>3, <3>4
  <2>3. update = [data |-> Dnd!With(Dnd!Field(Dnd!HpPath("value"), value), absorbed > 0,
                                    Dnd!Field(Dnd!HpPath("temp"), Temp(actor) - absorbed))]
    BY <1>2, <1>4, Zenon DEF Dnd!HpUpdate, Temp
  <2> HIDE DEF value, absorbed, update
  <2>4. Hp(Applied(actor, update)) = value
    BY <2>3, AppliedPath DEF Hp, Dnd!With, Dnd!Field, Dnd!++, Dnd!HpPath
  <2>5. Temp(Applied(actor, update)) = IF absorbed > 0 THEN Temp(actor) - absorbed ELSE Temp(actor)
    BY <2>3, AppliedPath DEF Temp, Dnd!With, Dnd!Field, Dnd!++, Dnd!HpPath
  <2> HIDE DEF Hp, Temp, HpMax
  <2>6. value \in 0..HpMax(actor) /\ (absorbed < -n => absorbed = Temp(actor)) /\ absorbed \in 0..Temp(actor)
    BY <1>4, <2>1, <2>2 DEF Between
  <2>7. CASE absorbed = -n
    BY <1>4, <2>2, <2>4, <2>5, <2>6, <2>7 DEF Between, update
  <2>8. CASE absorbed # -n
    BY <1>4, <2>1, <2>2, <2>4, <2>5, <2>6, <2>8 DEF Between, update
  <2>9. QED
    BY <2>7, <2>8
<1>5. QED
  BY <1>3, <1>4

LEMMA TrackCounter ==
  ASSUME NEW actor, actor.systemId = "wod5e", NEW track \in {"health", "willpower"},
         NEW kind \in {"superficial", "aggravated"}, NEW d \in resources(actor), d.id = <<track, kind>>
  PROVE  d \in Vampire!trackBoxResources(actor, track)
<1>1. d \in Vampire!wod5eResources(actor)
  BY DEF resources
<1>2. \A x : d.id # <<"item", x, "qty">>
  <2>1. \A x : <<track, kind>> # <<"item", x, "qty">>
    OBVIOUS
  <2>2. QED
    BY <2>1
<1>3. d.id \notin {<<"hunger">>, <<"humanity", "stains">>, <<"humanity">>, <<"bloodpotency">>}
  <2>1. <<track, kind>> \notin {<<"hunger">>, <<"humanity", "stains">>, <<"humanity">>, <<"bloodpotency">>}
    OBVIOUS
  <2>2. QED
    BY <2>1
<1>4. \A t : t # track => d \notin Vampire!trackBoxResources(actor, t)
  <2>1. ASSUME NEW t, t # track
        PROVE  d \notin Vampire!trackBoxResources(actor, t)
    <3>1. \A k : <<t, k>> # <<track, kind>>
      BY <2>1
    <3>2. QED
      BY <3>1 DEF Vampire!trackBoxResources
  <2>2. QED
    BY <2>1
<1>5. d \in Vampire!trackBoxResources(actor, "health") \cup Vampire!trackBoxResources(actor, "willpower")
  BY <1>1, <1>2, <1>3 DEF Vampire!wod5eResources
<1>6. QED
  BY <1>4, <1>5

(***************************************************************************)
(* The boxes of a Vampire's track: whatever the intent, what is written for*)
(* one kind of damage and what the other kind has fit on the track.        *)
(***************************************************************************)
THEOREM BoxesFitTheTrack ==
  ASSUME NEW actor, actor.systemId = "wod5e",
         NEW track \in {"health", "willpower"}, NEW kind \in {"superficial", "aggravated"},
         NEW d \in resources(actor), d.id = <<track, kind>>,
         Vampire!Number(actor, Vampire!Box(track, "max")) \in Nat,
         Vampire!Number(actor, Vampire!Box(track, Vampire!Other(kind)))
            \in 0..Vampire!Number(actor, Vampire!Box(track, "max")),
         NEW intent, intent.kind \in {"set", "delta"},
         Vampire!Number(actor, Vampire!Box(track, kind)) \in Int,
         intent.kind = "set" => intent.value \in Int,
         intent.kind = "delta" => intent.amount \in Int,
         ~Refused(buildUpdate(actor, d, intent))
  PROVE  \E boxes \in Nat :
           /\ buildUpdate(actor, d, intent) = [data |-> Field(Vampire!Box(track, kind), boxes)]
           /\ boxes + Vampire!Number(actor, Vampire!Box(track, Vampire!Other(kind)))
                <= Vampire!Number(actor, Vampire!Box(track, "max"))
<1> DEFINE other == Vampire!Number(actor, Vampire!Box(track, Vampire!Other(kind)))
           max == Vampire!Number(actor, Vampire!Box(track, "max"))
           wish == IF intent.kind = "set" THEN intent.value ELSE d.value + intent.amount
           target == Clamp(wish, d)
<1>0. d \in Vampire!trackBoxResources(actor, track)
  BY TrackCounter
<1>1. PICK k \in {"superficial", "aggravated"} :
        d = [id |-> <<track, k>>, value |-> Vampire!Number(actor, Vampire!Box(track, k)), writable |-> TRUE,
             min |-> 0,
             max |-> Vampire!Max({0, max - Vampire!Number(actor, Vampire!Box(track, Vampire!Other(k)))})]
  BY <1>0 DEF Vampire!trackBoxResources
<1>2. k = kind
  <2>1. d.id = <<track, k>>
    BY <1>1
  <2>2. QED
    BY <2>1
<1>3. "min" \in DOMAIN d /\ d["min"] = 0 /\ "max" \in DOMAIN d /\ d["max"] = Vampire!Max({0, max - other})
  BY <1>1, <1>2
<1> HIDE DEF other, max
<1>4. max \in Nat /\ other \in 0..max
  BY DEF other, max
<1>5. d["max"] = max - other
  <2>1. max - other \in Int /\ max - other >= 0
    BY <1>4
  <2>2. Vampire!Max({0, max - other}) = max - other
    <3>1. \A y \in Int : Vampire!Max({0, y}) = IF 0 >= y THEN 0 ELSE y
      BY DEF Vampire!Max
    <3>2. QED
      BY <2>1, <3>1
  <2>3. QED
    BY <1>3, <2>2
<1>6. wish \in Int
  BY <1>1, <1>2
<1> HIDE DEF wish
<1>7. target = Between(wish, 0, max - other)
  <2>1. max - other \in Int /\ 0 <= max - other
    BY <1>4
  <2>2. QED
    BY <1>3, <1>5, <1>6, <2>1, ClampIsBetween
<1>8. target \in Nat /\ target + other <= max
  BY <1>4, <1>6, <1>7 DEF Between
<1> HIDE DEF target
<1>9. buildUpdate(actor, d, intent) = Vampire!wod5eWrite(d, intent, target)
  BY DEF buildUpdate, target, wish
<1>10. buildUpdate(actor, d, intent) = [data |-> Field(Vampire!Box(track, kind), target)]
  <2>1. ~(Vampire!Has(intent, "expected") /\ intent.expected # d.value)
    BY <1>9 DEF Vampire!wod5eWrite, Vampire!Refusal, Refused, Has
  <2>2. d.id[1] = track /\ d.id[2] = kind /\ d.id # <<"hunger">>
    <3>1. <<track, kind>> # <<"hunger">>
      OBVIOUS
    <3>2. QED
      BY <3>1
  <2>3. QED
    BY <1>9, <2>1, <2>2 DEF Vampire!wod5eWrite, Field, Vampire!Field
<1>11. QED
  BY <1>8, <1>10 DEF other, max

-----------------------------------------------------------------------------
(* What is offered is accepted.                                            *)

LEMMA TheItem ==
  ASSUME NEW actor, DistinctIds(actor), NEW i \in Dnd!ToSet(actor.items)
  PROVE  ItemOf(actor, i.id) = i /\ Dnd!ItemOf(actor, i.id) = i
BY DEF ToSet, Dnd!ToSet, ItemOf, Dnd!ItemOf, DistinctIds

\* What is added to a call that is no refusal leaves it none.
Fine(x) == "error" \notin DOMAIN x

LEMMA FineCalls ==
  /\ \A x : Refused(x) <=> ~Fine(x)
  /\ \A x, y : Fine(x) /\ Fine(y) => Fine(Dnd!++(x, y))
  /\ \A i, e : Fine(Dnd!Call(e, i))
  /\ \A f : Fine(Dnd!Roll(f))
  /\ \A i, path, value : Fine(Dnd!UpdateItem(i, path, value))
  /\ \A i, slot : Fine(Dnd!NoTemplate(i)) /\ Fine(Dnd!SlotKey(slot))
<1>1. Fine(<<>>)
  BY DEF Fine
<1>2. QED
  BY <1>1 DEF Fine, Refused, Has, Dnd!++, Dnd!Call, Dnd!Roll, Dnd!UpdateItem, Dnd!NoTemplate, Dnd!SlotKey

LEMMA FineOnTargets ==
  ASSUME NEW i, NEW intent, NEW slot
  PROVE  Fine(Dnd!OnTargets(i, intent, slot))
<1>1. Fine([targets |-> intent.targets])
  BY DEF Fine
<1>2. QED
  BY <1>1, FineCalls DEF Dnd!OnTargets

LEMMA FineUseAndRoll ==
  ASSUME NEW use, NEW i, NEW slot, NEW formula
  PROVE  Fine(Dnd!UseAndRoll(use, i, slot, formula))
<1>1. Fine([use |-> use, formula |-> formula])
  BY DEF Fine
<1>2. QED
  BY <1>1, FineCalls DEF Dnd!UseAndRoll

\* Whether there are dice to heal with does not depend on the slot.
LEMMA DiceAtEverySlot ==
  ASSUME NEW actor, NEW i, NEW slot, Dnd!healFormula(actor, i, 0) # <<>>
  PROVE  Dnd!healFormula(actor, i, slot) # <<>>
<1>1. \A n, d, b : Dnd!Term(n, d, b) # <<>>
  BY DEF Dnd!Term
<1>2. QED
  BY <1>1 DEF Dnd!healFormula, Dnd!PartTerm

LEMMA FineHeal ==
  ASSUME NEW actor, NEW i, NEW use, NEW opts, NEW slot,
         ~Dnd!usesExhausted(i), Dnd!healFormula(actor, i, 0) # <<>>
  PROVE  Fine(Dnd!buildHealAction(actor, i, use, opts, slot))
<1>1. Dnd!healFormula(actor, i, slot) # <<>>
  BY DiceAtEverySlot
<1>2. \A h : Fine([heal |-> h])
  BY DEF Fine
<1>3. \A x, when, h : Fine(x) => Fine(Dnd!With(x, when, [heal |-> h]))
  BY <1>2, FineCalls DEF Dnd!With
<1>4. QED
  BY <1>1, <1>3, FineUseAndRoll DEF Dnd!buildHealAction

\* The fields a tap has.
LEMMA TapFields ==
  ASSUME NEW a, NEW x \in Taps(a)
  PROVE  /\ x.kind = a.kind /\ x.actionId = a.id
         /\ Dnd!Has(x, "targets") =>
              Dnd!At(a, "targeting", Dnd!NoTargeting).mode # "none" /\ \E t : x.targets = {t}
         /\ a.kind = "move" => x.containerId = ""
         /\ a.kind = "cast" => Dnd!Has(x, "slotLevel") /\ (Dnd!Has(a, "slotLevels") => x.slotLevel \in a.slotLevels)
         /\ a.kind \notin {"cast"} => ~Dnd!Has(x, "slotLevel")
<1> DEFINE Shape(y) ==
             /\ DOMAIN y \subseteq {"kind", "actionId", "to", "containerId", "slotLevel"}
             /\ "kind" \in DOMAIN y /\ "actionId" \in DOMAIN y
             /\ y.kind = a.kind /\ y.actionId = a.id
             /\ a.kind = "move" => "containerId" \in DOMAIN y /\ y.containerId = ""
             /\ a.kind = "cast" => "slotLevel" \in DOMAIN y /\ y.slotLevel \in At(a, "slotLevels", {0})
             /\ a.kind # "cast" => "slotLevel" \notin DOMAIN y
           taps == BareTaps(a)
<1>1. \A y \in taps : Shape(y)
  <2>1. CASE a.kind \in {"equip", "attune", "prepare"}
    <3>1. taps = {Tap(a) ++ [to |-> b] : b \in BOOLEAN}
      BY <2>1 DEF BareTaps
    <3>2. ASSUME NEW y, \E b \in BOOLEAN : y = Tap(a) ++ [to |-> b]
          PROVE  Shape(y)
      BY <2>1, <3>2 DEF Tap, ++
    <3> HIDE DEF taps, Shape
    <3>3. QED
      BY <3>1, <3>2
  <2>2. CASE a.kind = "grip"
    <3>1. taps = {Tap(a) ++ [to |-> "twoHanded"]}
      BY <2>2 DEF BareTaps
    <3> HIDE DEF taps
    <3>2. QED
      BY <2>2, <3>1 DEF Tap, ++
  <2>3. CASE a.kind = "move"
    <3>1. taps = {Tap(a) ++ [containerId |-> ""]}
      BY <2>3 DEF BareTaps
    <3> HIDE DEF taps
    <3>2. QED
      BY <2>3, <3>1 DEF Tap, ++
  <2>4. CASE a.kind = "cast"
    <3>1. taps = {Tap(a) ++ [slotLevel |-> l] : l \in At(a, "slotLevels", {0})}
      BY <2>4 DEF BareTaps
    <3>2. ASSUME NEW y, \E l \in At(a, "slotLevels", {0}) : y = Tap(a) ++ [slotLevel |-> l]
          PROVE  Shape(y)
      <4>1. PICK l \in At(a, "slotLevels", {0}) : y = Tap(a) ++ [slotLevel |-> l]
        BY <3>2
      <4>2. DOMAIN y = {"kind", "actionId", "slotLevel"} /\ y.kind = a.kind /\ y.actionId = a.id /\ y.slotLevel = l
        BY <4>1 DEF Tap, ++
      <4>3. QED
        BY <2>4, <4>2
    <3> HIDE DEF taps, Shape
    <3>3. QED
      BY <3>1, <3>2
  <2>5. CASE a.kind \notin {"equip", "attune", "prepare", "grip", "move", "cast"}
    <3>1. taps = {Tap(a)}
      BY <2>5 DEF BareTaps
    <3> HIDE DEF taps
    <3>2. QED
      BY <2>5, <3>1 DEF Tap
  <2>6. QED
    BY <2>1, <2>2, <2>3, <2>4, <2>5
<1>2. \/ x \in taps
      \/ /\ At(a, "targeting", Dnd!NoTargeting).mode # "none"
         /\ \E y \in taps, t \in sc.fighters : x = y ++ [targets |-> {t}]
  <2> DEFINE marked == {y ++ [targets |-> {t}] : y \in taps, t \in sc.fighters}
  <2>1. Taps(a) = taps \cup IF At(a, "targeting", Dnd!NoTargeting).mode = "none" THEN {} ELSE marked
    BY DEF Taps
  <2>2. \A z \in marked : \E y \in taps, t \in sc.fighters : z = y ++ [targets |-> {t}]
    <3> HIDE DEF taps
    <3>1. QED
      OBVIOUS
  <2> HIDE DEF taps, marked
  <2>3. x \in taps \/ (At(a, "targeting", Dnd!NoTargeting).mode # "none" /\ x \in marked)
    BY <2>1
  <2>4. QED
    BY <2>2, <2>3
<1> HIDE DEF taps
<1>3. At(a, "targeting", Dnd!NoTargeting) = Dnd!At(a, "targeting", Dnd!NoTargeting)
  BY DEF At, Dnd!At
<1>4. CASE x \in taps
  <2>1. Shape(x)
    BY <1>1, <1>4
  <2>2. QED
    BY <2>1 DEF Dnd!Has, At
<1>5. CASE /\ At(a, "targeting", Dnd!NoTargeting).mode # "none"
           /\ \E y \in taps, t \in sc.fighters : x = y ++ [targets |-> {t}]
  <2>1. PICK y \in taps, t \in sc.fighters : x = y ++ [targets |-> {t}]
    BY <1>5
  <2>2. Shape(y)
    BY <1>1
  <2>3. /\ DOMAIN x = DOMAIN y \cup {"targets"} /\ x.targets = {t}
        /\ \A f \in DOMAIN y : x[f] = y[f]
    BY <2>1, <2>2 DEF ++
  <2>4. QED
    BY <1>3, <1>5, <2>2, <2>3 DEF Dnd!Has, At
<1>6. QED
  BY <1>2, <1>4, <1>5

\* What is not excused: a use or a cast that has uses and dice left to give.
LEMMA NotExcused ==
  ASSUME NEW actor, DistinctIds(actor), NEW i \in Dnd!ToSet(actor.items), NEW a,
         a.id[2] = i.id, a.kind \in {"use", "cast"}, ~Excused(actor, a)
  PROVE  /\ ~Dnd!usesExhausted(i)
         /\ Dnd!effectTypeOf(i) = "heal" \/ Dnd!activityType(i) = "heal" => Dnd!healFormula(actor, i, 0) # <<>>
         /\ a.kind = "use" =>
              /\ Dnd!effectTypeOf(i) = "damage" => Dnd!itemDamageFormula(actor, i, 0) # <<>>
              /\ ~(Dnd!requiresAttunement(i) /\ ~Dnd!isAttuned(i))
<1>1. ItemOf(actor, a.id[2]) = i
  BY TheItem
<1>2. QED
  BY <1>1 DEF Excused

LEMMA UseIsFine ==
  ASSUME NEW actor, NEW i, NEW x, ~Dnd!usesExhausted(i),
         Dnd!effectTypeOf(i) = "heal" \/ Dnd!activityType(i) = "heal" => Dnd!healFormula(actor, i, 0) # <<>>,
         Dnd!effectTypeOf(i) = "damage" => Dnd!itemDamageFormula(actor, i, 0) # <<>>,
         ~(Dnd!requiresAttunement(i) /\ ~Dnd!isAttuned(i))
  PROVE  Fine(Dnd!UseCall(actor, i, x))
<1>1. /\ Fine(Dnd!OnTargets(i, x, 0))
      /\ Fine(Dnd!++(Dnd!Call("use-item", i), Dnd!NoTemplate(i)))
      /\ Fine(Dnd!++(Dnd!Call("use-feature", i), Dnd!NoTemplate(i)))
  BY FineOnTargets, FineCalls
<1>2. Fine(Dnd!UseAndRoll("use-item", i, 0, Dnd!itemDamageFormula(actor, i, 0)))
  BY FineUseAndRoll
<1>3. Dnd!healFormula(actor, i, 0) # <<>> =>
        /\ Fine(Dnd!buildHealAction(actor, i, "use-item", {"forceSelf"}, 0))
        /\ Fine(Dnd!buildHealAction(actor, i, "use-feature", {}, 0))
  BY FineHeal
<1>4. \/ Dnd!UseCall(actor, i, x) \in
           {Dnd!OnTargets(i, x, 0), Dnd!UseAndRoll("use-item", i, 0, Dnd!itemDamageFormula(actor, i, 0)),
            Dnd!++(Dnd!Call("use-item", i), Dnd!NoTemplate(i)),
            Dnd!++(Dnd!Call("use-feature", i), Dnd!NoTemplate(i))}
      \/ /\ Dnd!effectTypeOf(i) = "heal" \/ Dnd!activityType(i) = "heal"
         /\ Dnd!UseCall(actor, i, x) \in
              {Dnd!buildHealAction(actor, i, "use-item", {"forceSelf"}, 0),
               Dnd!buildHealAction(actor, i, "use-feature", {}, 0)}
  BY DEF Dnd!UseCall
<1>5. QED
  BY <1>1, <1>2, <1>3, <1>4

LEMMA CastIsFine ==
  ASSUME NEW actor, NEW i, NEW x, NEW a, ~Dnd!usesExhausted(i),
         Dnd!activityType(i) = "heal" => Dnd!healFormula(actor, i, 0) # <<>>,
         Dnd!Has(x, "slotLevel"), Dnd!Has(a, "slotLevels") => x.slotLevel \in a.slotLevels
  PROVE  Fine(Dnd!CastCall(actor, i, x, a))
<1> DEFINE base == Dnd!SpellLevel(i)
           chosen == IF Dnd!Has(a, "slotLevels") THEN Dnd!At(x, "slotLevel", base) ELSE base
           up == IF chosen > base THEN chosen ELSE 0
           use == IF up > 0 THEN "cast-at-slot" ELSE "use-spell"
           effect == [use |-> use, effect |-> Dnd!selfBuffEffect(i)]
           buff == Dnd!++(Dnd!++(Dnd!++(Dnd!Call("cast-and-apply-effect", i), effect), Dnd!SlotKey(up)),
                          Dnd!NoTemplate(i))
           other == Dnd!++(buff, [targetActorId |-> x.targetActorId])
           heal == Dnd!buildHealAction(actor, i, "use-spell", {}, up)
<1>1. ~(Dnd!Has(a, "slotLevels") /\ chosen \notin a.slotLevels)
  BY DEF Dnd!Has, Dnd!At
<1>2. Fine(effect) /\ Fine([targetActorId |-> x.targetActorId])
  BY DEF Fine
<1> HIDE DEF effect
<1>3. Fine(buff)
  BY <1>2, FineCalls
<1> HIDE DEF buff
<1>4. Fine(other)
  BY <1>2, <1>3, FineCalls
<1>5. /\ Fine(Dnd!OnTargets(i, x, up))
      /\ Fine(Dnd!++(Dnd!Call(use, i), Dnd!SlotKey(up))) /\ Fine(Dnd!++(Dnd!Call(use, i), Dnd!NoTemplate(i)))
      /\ Dnd!activityType(i) = "heal" => Fine(heal)
  BY FineOnTargets, FineCalls, FineHeal
<1>6. \/ Dnd!CastCall(actor, i, x, a) \in
           {Dnd!OnTargets(i, x, up), buff, other,
            Dnd!++(Dnd!Call(use, i), Dnd!SlotKey(up)), Dnd!++(Dnd!Call(use, i), Dnd!NoTemplate(i))}
      \/ Dnd!activityType(i) = "heal" /\ Dnd!CastCall(actor, i, x, a) = heal
  BY <1>1 DEF Dnd!CastCall, buff, effect
<1> HIDE DEF up, use, other, heal
<1>7. QED
  BY <1>3, <1>4, <1>5, <1>6

LEMMA ItemCallIsFine ==
  ASSUME NEW actor, DistinctIds(actor), NEW i \in Dnd!ToSet(actor.items), NEW a, OfKind(actor, i, a),
         NEW x \in Taps(a), ~Excused(actor, a)
  PROVE  Fine(Dnd!dnd5eItemCall(actor, i, x, a))
<1>1. x.kind = a.kind
  BY TapFields
<1>2. Fine([to |-> x.to])
  BY DEF Fine
<1>3. a.kind \in {"equip", "attune", "grip", "prepare", "move", "attack", "use", "cast", "damage"}
  BY DEF OfKind
<1>4. CASE a.kind = "attack"
  <2>1. \A more : Fine([attackMode |-> more])
    BY DEF Fine
  <2>2. Fine(Dnd!AttackCall(actor, i, x))
    BY <2>1, FineOnTargets, FineCalls DEF Dnd!AttackCall
  <2>3. QED
    BY <1>1, <1>4, <2>2 DEF Dnd!dnd5eItemCall
<1>5. CASE a.kind = "damage"
  <2>1. ~Dnd!Has(x, "slotLevel")
    BY <1>5, TapFields
  <2>2. Dnd!At(x, "slotLevel", 0) = 0
    BY <2>1 DEF Dnd!Has, Dnd!At
  <2>3. \/ i.type = "spell" /\ Dnd!itemDamageFormula(actor, i, 0) # <<>>
        \/ i.type = "weapon" /\ Dnd!weaponDamageFormula(actor, i) # <<>>
    BY <1>5 DEF OfKind
  <2>4. \E f : Dnd!DamageCall(actor, i, x) = Dnd!Roll(f)
    BY <2>1, <2>2, <2>3 DEF Dnd!DamageCall
  <2>5. Fine(Dnd!DamageCall(actor, i, x))
    BY <2>4, FineCalls
  <2>6. QED
    BY <1>1, <1>5, <2>5 DEF Dnd!dnd5eItemCall
<1>6. CASE a.kind = "use"
  <2>1. Fine(Dnd!UseCall(actor, i, x))
    BY <1>6, NotExcused, UseIsFine DEF OfKind
  <2>2. QED
    BY <1>1, <1>6, <2>1 DEF Dnd!dnd5eItemCall
<1>7. CASE a.kind = "cast"
  <2>1. Fine(Dnd!CastCall(actor, i, x, a))
    BY <1>7, NotExcused, TapFields, CastIsFine DEF OfKind
  <2>2. QED
    BY <1>1, <1>7, <2>1 DEF Dnd!dnd5eItemCall
<1>8. CASE a.kind = "move"
  <2>1. x.containerId = ""
    BY <1>8, TapFields
  <2>2. Fine(Dnd!MoveCall(actor, i, x))
    BY <2>1, FineCalls DEF Dnd!MoveCall
  <2>3. QED
    BY <1>1, <1>8, <2>2 DEF Dnd!dnd5eItemCall
<1>9. CASE a.kind \in {"equip", "attune"}
  BY <1>1, <1>2, <1>9, FineCalls DEF Dnd!dnd5eItemCall
<1>10. CASE a.kind \in {"grip", "prepare"}
  BY <1>1, <1>10, FineCalls DEF Dnd!dnd5eItemCall
<1>11. QED
  BY <1>3, <1>4, <1>5, <1>6, <1>7, <1>8, <1>9, <1>10

LEMMA ItemTapFits ==
  ASSUME NEW actor, NEW i, NEW a, OfKind(actor, i, a), NEW x \in Taps(a)
  PROVE  Dnd!TargetsFit(a, x)
<1> DEFINE mode == Dnd!At(a, "targeting", Dnd!NoTargeting).mode
<1>1. mode \in {"none", "single", "multiple"}
  <2>1. \A m, k : Dnd!Targeting(m, k).mode = m
    BY DEF Dnd!Targeting
  <2>2. Dnd!NoTargeting.mode = "none"
    BY <2>1 DEF Dnd!NoTargeting
  <2>3. Dnd!targetingOf(i).mode \in {"none", "single", "multiple"}
    BY <2>1, <2>2 DEF Dnd!targetingOf
  <2>4. QED
    BY <2>1, <2>2, <2>3 DEF OfKind
<1> HIDE DEF mode
<1>2. Dnd!Has(x, "targets") => mode # "none" /\ \E t : x.targets = {t}
  BY TapFields DEF mode
<1>3. QED
  BY <1>1, <1>2 DEF Dnd!TargetsFit, mode

LEMMA ActorCallIsFine ==
  ASSUME NEW actor, NEW x, x.kind \in ActorKinds,
         x.kind = "endeffect" => Dnd!isEffectId(x.actionId[2])
  PROVE  Fine(Dnd!ActorCall(actor, x))
<1>1. /\ \A e : Fine([endpoint |-> e])
      /\ \A e, f : Fine([endpoint |-> e, effectId |-> f])
  BY DEF Fine
<1>2. \A id, mode : Fine(Dnd!buildRollAction(actor, id, mode))
  BY FineCalls DEF Dnd!buildRollAction
<1>3. CASE x.kind = "rest"
  <2>1. \E e : Dnd!ActorCall(actor, x) = [endpoint |-> e]
    BY <1>3 DEF Dnd!ActorCall
  <2>2. QED
    BY <1>1, <2>1
<1>4. CASE x.kind # "rest"
  BY <1>1, <1>2, <1>4 DEF Dnd!ActorCall, ActorKinds
<1>5. QED
  BY <1>3, <1>4

(***************************************************************************)
(* What is offered is accepted: every tap of every action on a dnd5e sheet *)
(* - a use, a cast at any slot it lists, with or without a target, a       *)
(* toggle, a roll - is turned into a call, unless it is excused: uses are  *)
(* spent, the magic is not attuned to, no slot pays, there are no dice to  *)
(* show, an effect has no id (buildActions against buildAction).           *)
(***************************************************************************)
THEOREM OffersAreAccepted ==
  ASSUME NEW actor, actor.systemId = "dnd5e", DistinctIds(actor),
         NEW a \in actions(actor), NEW x \in Taps(a), ~Excused(actor, a)
  PROVE  ~Refused(buildAction(actor, x, a))
<1>1. x.kind = a.kind /\ x.actionId = a.id
  BY TapFields
<1>2. a \in Dnd!dnd5eActions(actor) /\ buildAction(actor, x, a) = Dnd!dnd5eBuild(actor, x, a)
  BY DEF actions, buildAction
<1>3. CASE a \in Dnd!ActorActions(actor)
  <2>1. /\ a.id[1] \notin Grouped /\ a.kind \in ActorKinds
        /\ \E id, kind : a = Dnd!Action(id, kind)
    BY <1>3, ActorsActions
  <2>2. "targeting" \notin DOMAIN a
    BY <2>1 DEF Dnd!Action
  <2>3. Dnd!At(a, "targeting", Dnd!NoTargeting).mode = "none"
    BY <2>2 DEF Dnd!At, Dnd!NoTargeting, Dnd!Targeting
  <2>4. Dnd!TargetsFit(a, x)
    BY <2>3, TapFields DEF Dnd!TargetsFit
  <2>5. Dnd!dnd5eBuild(actor, x, a) = Dnd!ActorCall(actor, x)
    BY <1>1, <2>1, <2>4 DEF Dnd!dnd5eBuild, Grouped
  <2>6. Fine(Dnd!ActorCall(actor, x))
    BY <1>1, <2>1, ActorCallIsFine DEF Excused
  <2>7. QED
    BY <1>2, <2>5, <2>6, FineCalls
<1>4. CASE \E i \in Dnd!ToSet(actor.items) : a \in Dnd!ItemActions(actor, i)
  <2>1. PICK i \in Dnd!ToSet(actor.items) : a \in Dnd!ItemActions(actor, i)
    BY <1>4
  <2>2. OfKind(actor, i, a)
    BY <2>1, ItemsActions
  <2>3. Dnd!ItemOf(actor, x.actionId[2]) = i
    BY <1>1, <2>2, TheItem DEF OfKind
  <2>4. Dnd!TargetsFit(a, x)
    BY <2>2, ItemTapFits
  <2>5. Dnd!dnd5eBuild(actor, x, a) = Dnd!dnd5eItemCall(actor, i, x, a)
    BY <1>1, <2>2, <2>3, <2>4 DEF Dnd!dnd5eBuild, OfKind, Grouped
  <2>6. Fine(Dnd!dnd5eItemCall(actor, i, x, a))
    BY <2>2, ItemCallIsFine
  <2>7. QED
    BY <1>2, <2>5, <2>6, FineCalls
<1>5. QED
  BY <1>2, <1>3, <1>4 DEF Dnd!dnd5eActions

\* The bonus a check or a save is rolled with.
LEMMA RolledBonus ==
  ASSUME NEW actor, NEW mode
  PROVE  /\ Dnd!buildRollAction(actor, <<"init", "roll">>, mode).formula.bonus = Dnd!initiative(actor)
         /\ \A s : Dnd!buildRollAction(actor, <<"skill", s>>, mode).formula.bonus = Dnd!skillInfo(actor, s).total
         /\ \A b : Dnd!buildRollAction(actor, <<"ability", b, "check">>, mode).formula.bonus
                     = Dnd!abilityMod(actor.sys, b)
         /\ \A b : Dnd!buildRollAction(actor, <<"ability", b, "save">>, mode).formula.bonus
                     = Dnd!saveBonus(actor, b)
<1>1. \A n : Dnd!Roll(Dnd!d20Formula(n, mode)).formula.bonus = n
  BY DEF Dnd!Roll, Dnd!d20Formula
<1>2. ASSUME NEW id, id[1] = "init"
      PROVE  Dnd!buildRollAction(actor, id, mode) = Dnd!Roll(Dnd!d20Formula(Dnd!initiative(actor), mode))
  BY Zenon, <1>2 DEF Dnd!buildRollAction
<1>3. ASSUME NEW id, id[1] = "skill"
      PROVE  Dnd!buildRollAction(actor, id, mode) = Dnd!Roll(Dnd!d20Formula(Dnd!skillInfo(actor, id[2]).total, mode))
  BY Zenon, <1>3 DEF Dnd!buildRollAction
<1>4. ASSUME NEW id, id[1] = "ability", id[3] = "check"
      PROVE  Dnd!buildRollAction(actor, id, mode) = Dnd!Roll(Dnd!d20Formula(Dnd!abilityMod(actor.sys, id[2]), mode))
  BY Zenon, <1>4 DEF Dnd!buildRollAction
<1>5. ASSUME NEW id, id[1] = "ability", id[3] = "save"
      PROVE  Dnd!buildRollAction(actor, id, mode) = Dnd!Roll(Dnd!d20Formula(Dnd!saveBonus(actor, id[2]), mode))
  BY Zenon, <1>5 DEF Dnd!buildRollAction
<1>6. /\ <<"init", "roll">>[1] = "init"
      /\ \A s : <<"skill", s>>[1] = "skill" /\ <<"skill", s>>[2] = s
      /\ \A b, k : <<"ability", b, k>>[1] = "ability" /\ <<"ability", b, k>>[2] = b /\ <<"ability", b, k>>[3] = k
  OBVIOUS
<1>7. \A s : Dnd!buildRollAction(actor, <<"skill", s>>, mode).formula.bonus = Dnd!skillInfo(actor, s).total
  BY <1>1, <1>3, <1>6
<1>8. \A b : Dnd!buildRollAction(actor, <<"ability", b, "check">>, mode).formula.bonus = Dnd!abilityMod(actor.sys, b)
  BY <1>1, <1>4, <1>6
<1>9. \A b : Dnd!buildRollAction(actor, <<"ability", b, "save">>, mode).formula.bonus = Dnd!saveBonus(actor, b)
  BY <1>1, <1>5, <1>6
<1>10. QED
  BY <1>1, <1>2, <1>6, <1>7, <1>8, <1>9

LEMMA RollsOffered ==
  ASSUME NEW actor
  PROVE  /\ \A b \in Dnd!ABILITIES : \A k \in {"check", "save"} :
              Dnd!Action(<<"ability", b, k>>, k) \in Dnd!ActorActions(actor)
         /\ \A l \in DOMAIN Dnd!SKILLS : Dnd!Action(<<"skill", l>>, "check") \in Dnd!ActorActions(actor)
<1>1. ASSUME NEW z, z \in {Dnd!Action(<<"skill", s>>, "check") : s \in DOMAIN Dnd!SKILLS}
      PROVE  z \in Dnd!ActorActions(actor)
  BY <1>1 DEF Dnd!ActorActions
<1>2. ASSUME NEW z, z \in {Dnd!Action(<<"ability", a, k>>, k) : a \in Dnd!ABILITIES, k \in {"check", "save"}}
      PROVE  z \in Dnd!ActorActions(actor)
  BY <1>2 DEF Dnd!ActorActions
<1>3. ASSUME NEW b \in Dnd!ABILITIES, NEW k \in {"check", "save"}
      PROVE  Dnd!Action(<<"ability", b, k>>, k) \in Dnd!ActorActions(actor)
  BY <1>2
<1>4. ASSUME NEW l \in DOMAIN Dnd!SKILLS
      PROVE  Dnd!Action(<<"skill", l>>, "check") \in Dnd!ActorActions(actor)
  BY <1>1
<1>5. QED
  BY <1>3, <1>4

(***************************************************************************)
(* What a stat shows is what it rolls: every ability, save, skill and      *)
(* initiative on a dnd5e sheet names an action the sheet offers, and the   *)
(* roll it is turned into has the bonus the stat shows (toViewModel        *)
(* against buildAction).                                                   *)
(***************************************************************************)
THEOREM StatsAreRolled ==
  ASSUME NEW actor, actor.systemId = "dnd5e", NEW s \in toViewModel(actor).stats
  PROVE  \E a \in actions(actor) :
           a.id = s.actionId /\ buildAction(actor, Tap(a), a).formula.bonus = s.value
<1> DEFINE Rolls(id, kind) == Dnd!ActorCall(actor, Tap(Dnd!Action(id, kind)))
           Offered(id, kind) == Dnd!Action(id, kind) \in Dnd!ActorActions(actor)
<1>1. ASSUME NEW id, NEW kind \in {"check", "save"}
      PROVE  Rolls(id, kind) = Dnd!buildRollAction(actor, id, "straight")
  <2>1. /\ Tap(Dnd!Action(id, kind)).kind = kind /\ Tap(Dnd!Action(id, kind)).actionId = id
        /\ Dnd!At(Tap(Dnd!Action(id, kind)), "mode", "straight") = "straight"
    BY DEF Tap, Dnd!Action, Dnd!At
  <2>2. QED
    BY <2>1 DEF Dnd!ActorCall
<1>2. ASSUME NEW id, NEW kind \in {"check", "save"}, Offered(id, kind), id = s.actionId,
             Dnd!buildRollAction(actor, id, "straight").formula.bonus = s.value
      PROVE  \E a \in actions(actor) :
               a.id = s.actionId /\ buildAction(actor, Tap(a), a).formula.bonus = s.value
  <2> DEFINE a == Dnd!Action(id, kind)
  <2>1. a \in actions(actor) /\ a.id = id /\ id[1] \notin Grouped
    <3>1. a.id = id
      BY DEF Dnd!Action
    <3>2. QED
      BY <1>2, <3>1, ActorsActions DEF actions, Dnd!dnd5eActions
  <2>2. "targets" \notin DOMAIN Tap(a) /\ Tap(a).actionId = id
    BY DEF Tap, Dnd!Action
  <2>3. buildAction(actor, Tap(a), a) = Rolls(id, kind)
    BY <2>1, <2>2 DEF buildAction, Dnd!dnd5eBuild, Dnd!TargetsFit, Dnd!Has, Grouped
  <2>4. QED
    BY <1>1, <1>2, <2>1, <2>3
<1>3. /\ \A b \in Dnd!ABILITIES : \A k \in {"check", "save"} : Offered(<<"ability", b, k>>, k)
      /\ \A l \in DOMAIN Dnd!SKILLS : Offered(<<"skill", l>>, "check")
  BY RollsOffered
<1> HIDE DEF Rolls, Offered
<1>4. \A id, v, t, b, m, k, i : /\ Dnd!Biased(actor, Dnd!++(Dnd!Stat(id, v, t), [marked |-> m]), k, i).actionId = t
                                /\ Dnd!Biased(actor, Dnd!++(Dnd!Stat(id, v, t), [marked |-> m]), k, i).value = v
  BY DEF Dnd!Biased, Dnd!Stat, Dnd!++
<1>5. s \in Dnd!abilityStats(actor) \cup Dnd!saveStats(actor) \cup Dnd!skillStats(actor) \cup Dnd!headline(actor)
  <2>1. toViewModel(actor).stats
          = UNION {Dnd!abilityStats(actor), Dnd!saveStats(actor), Dnd!skillStats(actor), Dnd!headline(actor)}
    BY DEF toViewModel, Dnd!dnd5eSheet
  <2>2. QED
    BY <2>1
<1>6. CASE s \in Dnd!abilityStats(actor)
  <2>1. PICK b \in Dnd!ABILITIES :
          s = Dnd!Biased(actor, Dnd!++(Dnd!Stat(<<"ability", b>>, Dnd!abilityMod(actor.sys, b), <<"ability", b, "check">>), [marked |-> Dnd!Proficient(actor, b)]), "check", b)
    BY <1>6 DEF Dnd!abilityStats
  <2>2. s.actionId = <<"ability", b, "check">> /\ s.value = Dnd!abilityMod(actor.sys, b)
    BY <1>4, <2>1
  <2>3. Offered(<<"ability", b, "check">>, "check")
    BY <1>3
  <2>4. QED
    BY <1>2, <2>2, <2>3, RolledBonus
<1>7. CASE s \in Dnd!saveStats(actor)
  <2>1. PICK b \in Dnd!ABILITIES :
          s = Dnd!Biased(actor, Dnd!++(Dnd!Stat(<<"save", b>>, Dnd!saveBonus(actor, b), <<"ability", b, "save">>), [marked |-> Dnd!Proficient(actor, b)]), "save", b)
    BY <1>7 DEF Dnd!saveStats
  <2>2. s.actionId = <<"ability", b, "save">> /\ s.value = Dnd!saveBonus(actor, b)
    BY <1>4, <2>1
  <2>3. Offered(<<"ability", b, "save">>, "save")
    BY <1>3
  <2>4. QED
    BY <1>2, <2>2, <2>3, RolledBonus
<1>8. CASE s \in Dnd!skillStats(actor)
  <2>1. PICK k \in DOMAIN Dnd!SKILLS :
          s = Dnd!Biased(actor, Dnd!++(Dnd!Stat(<<"skill", k>>, Dnd!skillInfo(actor, k).total, <<"skill", k>>), [marked |-> (Dnd!skillInfo(actor, k).profMult > 0)]), "skill", k)
    BY <1>8 DEF Dnd!skillStats
  <2>2. s.actionId = <<"skill", k>> /\ s.value = Dnd!skillInfo(actor, k).total
    BY <1>4, <2>1
  <2>3. Offered(<<"skill", k>>, "check")
    BY <1>3 DEF Offered
  <2>4. QED
    BY <1>2, <2>2, <2>3, RolledBonus
<1>9. CASE s \in Dnd!headline(actor)
  <2>1. s.actionId = <<"init", "roll">> /\ s.value = Dnd!initiative(actor)
    BY <1>9 DEF Dnd!headline, Dnd!Stat
  <2>2. Offered(<<"init", "roll">>, "check")
    BY DEF Offered, Dnd!ActorActions
  <2>3. QED
    BY <1>2, <2>1, <2>2, RolledBonus
<1>10. QED
  BY <1>5, <1>6, <1>7, <1>8, <1>9

-----------------------------------------------------------------------------
(* The embedded items stay a collection: each with an id of its own.       *)

\* A sheet whose items were changed, but not the fields it is known by.
LEMMA EmbedsEqual ==
  ASSUME NEW doc, Embeds(doc), NEW v, DOMAIN v = DOMAIN doc, v.items = doc.items
  PROVE  Embeds(v) /\ ItemIds(v) = ItemIds(doc)
BY DEF Embeds, DistinctIds, ItemIds

\* What an item becomes when one is written to.
Touched(i, id, data) == IF i.id = id THEN data ++ i ELSE i

LEMMA EmbedsOnItem ==
  ASSUME NEW doc, Embeds(doc), NEW id, NEW data, ~Has(data, "id")
  PROVE  LET v == OnItem(doc, id, data)
         IN /\ Embeds(v) /\ ItemIds(v) = ItemIds(doc)
            /\ DOMAIN v = DOMAIN doc /\ \A f \in DOMAIN doc \ {"items"} : v[f] = doc[f]
            /\ \A j : j \in ToSet(v.items) <=> \E i \in ToSet(doc.items) : j = Touched(i, id, data)
<1> DEFINE s == doc.items
           t == [k \in DOMAIN s |-> IF s[k].id = id THEN data ++ s[k] ELSE s[k]]
           v == OnItem(doc, id, data)
<1>1. s \in Seq(ToSet(s)) /\ {"systemId", "items"} \subseteq DOMAIN doc /\ \A i \in ToSet(s) : "id" \in DOMAIN i
  BY DEF Embeds, Has
<1>2. v = [doc EXCEPT !.items = t]
  BY DEF OnItem
<1> HIDE DEF v, t
<1>3. DOMAIN v = DOMAIN doc /\ v.items = t /\ \A f \in DOMAIN doc \ {"items"} : v[f] = doc[f]
  BY <1>1, <1>2
<1>4. /\ DOMAIN t = DOMAIN s /\ DOMAIN s = 1..Len(s) /\ Len(s) \in Nat
      /\ \A k \in DOMAIN s : t[k].id = s[k].id /\ "id" \in DOMAIN t[k]
      /\ \A k \in DOMAIN s : t[k] = IF s[k].id = id THEN data ++ s[k] ELSE s[k]
  <2>1. ASSUME NEW i, "id" \in DOMAIN i PROVE (data ++ i).id = i.id /\ "id" \in DOMAIN (data ++ i)
    BY <2>1 DEF ++, Has
  <2>2. \A k \in DOMAIN s : s[k] \in ToSet(s)
    BY DEF ToSet
  <2>3. \A k \in DOMAIN s : t[k] = IF s[k].id = id THEN data ++ s[k] ELSE s[k]
    BY DEF t
  <2>4. DOMAIN t = DOMAIN s
    BY DEF t
  <2>5. DOMAIN s = 1..Len(s) /\ Len(s) \in Nat
    BY <1>1
  <2> HIDE DEF s
  <2>6. ASSUME NEW k \in DOMAIN s PROVE t[k].id = s[k].id /\ "id" \in DOMAIN t[k]
    BY <1>1, <2>1, <2>2, <2>3
  <2>7. QED
    BY <2>3, <2>4, <2>5, <2>6
<1>5. t \in Seq(ToSet(t))
  <2>1. \A k \in 1..Len(s) : t[k] \in ToSet(t)
    BY <1>4 DEF ToSet
  <2>2. t \in [1..Len(s) -> ToSet(t)]
    <3>1. t = [k \in 1..Len(s) |-> t[k]]
      BY <1>4 DEF t
    <3>2. QED
      BY <2>1, <3>1
  <2>3. QED
    BY <1>4, <2>2
<1> HIDE DEF s
<1>6. \A i \in ToSet(t) : \E k \in DOMAIN s : i = t[k]
  BY <1>4 DEF ToSet
<1>7. \A k, l \in DOMAIN s : s[k].id = s[l].id => s[k] = s[l]
  BY DEF Embeds, DistinctIds, ToSet, s
<1>8. \A k, l \in DOMAIN s : t[k].id = t[l].id => t[k] = t[l]
  <2> SUFFICES ASSUME NEW k \in DOMAIN s, NEW l \in DOMAIN s, t[k].id = t[l].id PROVE t[k] = t[l]
    OBVIOUS
  <2>1. s[k] = s[l]
    BY <1>4, <1>7
  <2>2. QED
    BY <1>4, <2>1
<1>9. Embeds(v)
  BY <1>1, <1>3, <1>4, <1>5, <1>6, <1>8 DEF Embeds, DistinctIds, Has
<1>10. ItemIds(v) = ItemIds(doc)
  <2>1. ToSet(v.items) = {t[k] : k \in DOMAIN s} /\ ToSet(doc.items) = {s[k] : k \in DOMAIN s}
    BY <1>3, <1>4 DEF ToSet, s
  <2>2. QED
    BY <1>4, <2>1 DEF ItemIds
<1>11. \A j : j \in ToSet(v.items) <=> \E i \in ToSet(doc.items) : j = Touched(i, id, data)
  <2>1. ToSet(v.items) = {t[k] : k \in DOMAIN s} /\ ToSet(doc.items) = {s[k] : k \in DOMAIN s}
    BY <1>3, <1>4 DEF ToSet, s
  <2>2. \A k \in DOMAIN s : t[k] = Touched(s[k], id, data)
    BY <1>4 DEF Touched
  <2>3. QED
    BY <2>1, <2>2
<1>12. QED
  BY <1>3, <1>9, <1>10, <1>11 DEF v

LEMMA EmbedsGiven ==
  ASSUME NEW doc, Embeds(doc), NEW id, id \notin ItemIds(doc), NEW entry
  PROVE  LET v == Given(doc, id, entry)
         IN /\ Embeds(v) /\ ItemIds(v) = ItemIds(doc) \cup {id}
            /\ DOMAIN v = DOMAIN doc /\ \A f \in DOMAIN doc \ {"items"} : v[f] = doc[f]
            /\ ToSet(v.items) = ToSet(doc.items) \cup {Field("id", id) ++ entry}
<1> DEFINE s == doc.items
           new == Field("id", id) ++ entry
           t == Append(s, new)
           v == Given(doc, id, entry)
<1>1. s \in Seq(ToSet(s)) /\ {"systemId", "items"} \subseteq DOMAIN doc /\ \A i \in ToSet(s) : "id" \in DOMAIN i
  BY DEF Embeds, Has
<1>2. v = [doc EXCEPT !.items = t]
  BY DEF Given
<1>3. new.id = id /\ "id" \in DOMAIN new
  BY DEF Field, ++
<1> HIDE DEF new
<1>4. s \in Seq(ToSet(s) \cup {new}) /\ new \in ToSet(s) \cup {new}
  BY <1>1
<1>5. /\ t \in Seq(ToSet(s) \cup {new}) /\ Len(t) = Len(s) + 1 /\ Len(s) \in Nat
      /\ \A k \in 1..Len(s) : t[k] = s[k]
      /\ t[Len(s) + 1] = new /\ DOMAIN t = 1..Len(s) + 1 /\ DOMAIN s = 1..Len(s)
  BY <1>4, AppendProperties
<1> HIDE DEF v, t, s
<1>6. DOMAIN v = DOMAIN doc /\ v.items = t /\ \A f \in DOMAIN doc \ {"items"} : v[f] = doc[f]
  BY <1>1, <1>2
<1>7. ToSet(t) = ToSet(s) \cup {new}
  BY <1>5 DEF ToSet
<1>8. \A i \in ToSet(s) : i.id # id
  BY DEF ItemIds, s
<1>9. Embeds(v)
  BY <1>1, <1>3, <1>5, <1>6, <1>7, <1>8 DEF Embeds, DistinctIds, Has, s
<1>10. ItemIds(v) = ItemIds(doc) \cup {id}
  BY <1>3, <1>6, <1>7 DEF ItemIds, s
<1>11. ToSet(v.items) = ToSet(doc.items) \cup {new}
  BY <1>6, <1>7 DEF s
<1>12. QED
  BY <1>6, <1>9, <1>10, <1>11 DEF v, new

LEMMA EmbedsRemoved ==
  ASSUME NEW doc, Embeds(doc), NEW k \in DOMAIN doc.items
  PROVE  LET v == [doc EXCEPT !.items = RemoveAt(@, k)]
         IN /\ Embeds(v) /\ ItemIds(v) \subseteq ItemIds(doc)
            /\ DOMAIN v = DOMAIN doc /\ \A f \in DOMAIN doc \ {"items"} : v[f] = doc[f]
            /\ ToSet(v.items) \subseteq ToSet(doc.items)
<1> DEFINE s == doc.items
           t == RemoveAt(s, k)
           v == [doc EXCEPT !.items = t]
<1>1. s \in Seq(ToSet(s)) /\ {"systemId", "items"} \subseteq DOMAIN doc
  BY DEF Embeds
<1>2. k \in 1..Len(s) /\ Len(s) \in Nat
  BY <1>1
<1>3. DOMAIN v = DOMAIN doc /\ v.items = t /\ \A f \in DOMAIN doc \ {"items"} : v[f] = doc[f]
  BY <1>1
<1> HIDE DEF v
<1>4. t \in Seq(ToSet(s))
  <2>1. SubSeq(s, 1, k - 1) \in Seq(ToSet(s)) /\ SubSeq(s, k + 1, Len(s)) \in Seq(ToSet(s))
    BY <1>1, <1>2, SubSeqProperties
  <2>2. QED
    BY <2>1, ConcatProperties DEF RemoveAt
<1> HIDE DEF t
<1>5. ToSet(t) \subseteq ToSet(s)
  BY <1>4 DEF ToSet
<1>6. t \in Seq(ToSet(t))
  <2>1. DOMAIN t = 1..Len(t) /\ Len(t) \in Nat /\ \A j \in 1..Len(t) : t[j] \in ToSet(t)
    BY <1>4 DEF ToSet
  <2>2. t \in [1..Len(t) -> ToSet(t)]
    BY <1>4, <2>1
  <2>3. QED
    BY <2>1, <2>2
<1>7. Embeds(v)
  BY <1>1, <1>3, <1>5, <1>6 DEF Embeds, DistinctIds, s
<1>8. ItemIds(v) \subseteq ItemIds(doc)
  BY <1>3, <1>5 DEF ItemIds, s
<1>9. ToSet(v.items) \subseteq ToSet(doc.items)
  BY <1>3, <1>5 DEF s
<1>10. QED
  BY <1>3, <1>7, <1>8, <1>9 DEF v, t

(***************************************************************************)
(* What a call may do to the items of a sheet: each is one of those before *)
(* (kept, written to, moved to one of `put') or one of the `new'.          *)
(***************************************************************************)
Typed(doc) == \A i \in ToSet(doc.items) : Has(i, "type")
Heir(j, i, put) ==
  /\ j.id = i.id /\ Has(j, "type") /\ j.type = i.type
  /\ At(j, "container", "") \in {At(i, "container", "")} \cup put
Kin(v, doc, put, new) ==
  /\ Embeds(v)
  /\ \A j \in ToSet(v.items) : j \in new \/ \E i \in ToSet(doc.items) : Heir(j, i, put)

\* Where a call puts an item, and the new one it gives.
Put(c) == {x \in {c.data["container"]} : c.do = "updateItem" /\ Has(c.data, "container")}
New(c) == {x \in {Field("id", c.by) ++ c.item} : c.do \in Gives}

LEMMA KinKept ==
  ASSUME NEW doc, Embeds(doc), Typed(doc), NEW v, Embeds(v), ToSet(v.items) \subseteq ToSet(doc.items),
         NEW put, NEW new
  PROVE  Kin(v, doc, put, new)
<1>1. \A j \in ToSet(v.items) : Heir(j, j, put)
  BY DEF Heir, Typed
<1>2. QED
  BY <1>1 DEF Kin

LEMMA KinOnItem ==
  ASSUME NEW doc, Embeds(doc), Typed(doc), NEW id, NEW data, DOMAIN data \cap Marks = {},
         NEW put, Has(data, "container") => data["container"] \in put, NEW new
  PROVE  Kin(OnItem(doc, id, data), doc, put, new)
<1> DEFINE v == OnItem(doc, id, data)
<1>1. ~Has(data, "id") /\ ~Has(data, "type")
  BY DEF Has, Marks
<1>2. Embeds(v) /\ \A j : j \in ToSet(v.items) => \E i \in ToSet(doc.items) : j = Touched(i, id, data)
  BY <1>1, EmbedsOnItem
<1>3. ASSUME NEW i \in ToSet(doc.items) PROVE Heir(Touched(i, id, data), i, put)
  <2>1. Has(i, "id") /\ Has(i, "type")
    BY DEF Embeds, Typed
  <2>2. CASE i.id = id
    <3>1. PICK j : j = data ++ i
      OBVIOUS
    <3>2. j.id = i.id /\ Has(j, "type") /\ j.type = i.type
      BY <1>1, <2>1, <3>1 DEF Has, ++
    <3>3. At(j, "container", "") = IF Has(data, "container") THEN data["container"] ELSE At(i, "container", "")
      BY <3>1 DEF Has, At, ++
    <3>4. QED
      BY <2>2, <3>1, <3>2, <3>3 DEF Heir, Touched
  <2>3. CASE i.id # id
    BY <2>1, <2>3 DEF Heir, Touched
  <2>4. QED
    BY <2>2, <2>3
<1> HIDE DEF v
<1>4. QED
  BY <1>2, <1>3 DEF Kin, v

\* A sheet of which other things than the items were written.
LEMMA KinEqual ==
  ASSUME NEW doc, Embeds(doc), Typed(doc), NEW v, DOMAIN v = DOMAIN doc, v.items = doc.items,
         NEW put, NEW new
  PROVE  Kin(v, doc, put, new)
BY EmbedsEqual, KinKept

LEMMA KinApplied ==
  ASSUME NEW doc, Embeds(doc), Typed(doc), NEW u, NEW put, NEW new,
         Has(u, "itemId") => /\ DOMAIN u.data \cap Marks = {}
                             /\ Has(u.data, "container") => u.data["container"] \in put
  PROVE  Kin(Applied(doc, u), doc, put, new)
<1>1. CASE Has(u, "itemId")
  <2>1. Applied(doc, u) = OnItem(doc, u.itemId, u.data)
    BY <1>1 DEF Applied
  <2>2. QED
    BY <1>1, <2>1, KinOnItem
<1>2. CASE ~Has(u, "itemId")
  <2>1. PICK sys : Applied(doc, u) = [doc EXCEPT !.sys = sys]
    BY <1>2 DEF Applied
  <2>2. DOMAIN Applied(doc, u) = DOMAIN doc /\ Applied(doc, u).items = doc.items
    BY <2>1 DEF Embeds
  <2>3. QED
    BY <2>2, KinEqual
<1>3. QED
  BY <1>1, <1>2

LEMMA KinUsed ==
  ASSUME NEW doc, Embeds(doc), Typed(doc), NEW id, NEW slot, NEW put, NEW new
  PROVE  Kin(AfterUse(doc, id, slot), doc, put, new)
<1> DEFINE i == ItemOf(doc, id)
           used == IF Dnd!HasUses(i)
                   THEN OnItem(doc, id, Field("uses.spent", At(i, "uses.spent", 0) + 1)) ELSE doc
<1>1. \A n : LET data == Field("uses.spent", n)
             IN DOMAIN data \cap Marks = {} /\ ~Has(data, "container")
  BY DEF Has, Field, Marks
<1>2. Kin(used, doc, put, new)
  <2>1. Kin(doc, doc, put, new)
    BY KinKept
  <2>2. \A n : Kin(OnItem(doc, id, Field("uses.spent", n)), doc, put, new)
    BY <1>1, KinOnItem
  <2>3. QED
    BY <2>1, <2>2
<1>3. \/ AfterUse(doc, id, slot) = used
      \/ \E sys : AfterUse(doc, id, slot) = [used EXCEPT !.sys = sys]
  BY DEF AfterUse
<1> HIDE DEF used
<1>4. ASSUME NEW sys PROVE Kin([used EXCEPT !.sys = sys], doc, put, new)
  <2>1. DOMAIN [used EXCEPT !.sys = sys] = DOMAIN used /\ [used EXCEPT !.sys = sys].items = used.items
    BY <1>2 DEF Kin, Embeds
  <2>2. Embeds([used EXCEPT !.sys = sys])
    BY <1>2, <2>1, EmbedsEqual DEF Kin
  <2>3. QED
    BY <1>2, <2>1, <2>2 DEF Kin
<1>5. QED
  BY <1>2, <1>3, <1>4

\* What becomes of the document when a call is executed.
Outcome(v, doc, c) ==
  \/ c.do \in Uses /\ v = AfterUse(doc, c.itemId, c.slotKey)
  \/ c.do = "equip" /\ v = OnItem(doc, c.itemId, Field("equipped", c.to))
  \/ c.do = "attune" /\ v = OnItem(doc, c.itemId, Field("attuned", c.to))
  \/ c.do = "updateItem" /\ v = OnItem(doc, c.itemId, c.data)
  \/ c.do = "update" /\ v = Applied(doc, c.update)
  \/ c.do \in {"effect", "removeEffect", "command"} /\ \E x : v = [doc EXCEPT !.effects = x]
  \/ c.do = "removeItem" /\ \E k \in DOMAIN doc.items : v = [doc EXCEPT !.items = RemoveAt(@, k)]
  \/ c.do = "command" /\ \E x : /\ v = [doc EXCEPT !.sys = x]
                                /\ \/ \E n : x = Field(<<"attributes", "death", "success">>, n) ++ doc.sys
                                   \/ /\ Has(doc.sys, Dnd!HpPath("max"))
                                      /\ x = Field(Dnd!HpPath("value"), doc.sys[Dnd!HpPath("max")]) ++ doc.sys
  \/ c.do \in Gives /\ v = Given(doc, c.by, c.item)
  \/ v = doc

LEMMA ExecutedDoc ==
  ASSUME NEW w, Scratch(w), NEW c, c.do \in Dos, Possible(w, c), NEW hit
  PROVE  Outcome(Executed(w, c, hit).doc, w.doc, c)
<1> DEFINE v == Executed(w, c, hit)
<1>1. PICK doc, others, hp, scratch : w = [doc |-> doc, others |-> others, hp |-> hp, scratch |-> scratch]
  BY DEF Scratch
<1>2. w.doc = doc /\ \A d : [w EXCEPT !.doc = d].doc = d
  BY <1>1
<1>3. \A o : [w EXCEPT !.others = o].doc = doc /\ [w EXCEPT !.scratch = o].doc = doc
  BY <1>1
<1>6. CASE c.do \in {"activate", "targets"}
  <2>1. Paid(w, c).doc = AfterUse(doc, c.itemId, c.slotKey)
    BY <1>2 DEF Paid
  <2>2. "doc" \in DOMAIN Paid(w, c)
    BY <1>1 DEF Paid
  <2>3. \A h : [Paid(w, c) EXCEPT !.hp = h].doc = Paid(w, c).doc
    BY <2>2
  <2>4. v.doc = Paid(w, c).doc
    BY <1>6, <2>3 DEF Executed
  <2>5. QED
    BY <1>2, <1>6, <2>1, <2>4 DEF Uses, Outcome
<1>7. CASE c.do = "equip"
  <2>1. v.doc = OnItem(doc, c.itemId, Field("equipped", c.to))
    BY <1>2, <1>7 DEF Executed
  <2>2. QED
    BY <1>2, <1>7, <2>1 DEF Outcome
<1>8. CASE c.do = "attune"
  <2>1. v.doc = OnItem(doc, c.itemId, Field("attuned", c.to))
    BY <1>2, <1>8 DEF Executed
  <2>2. QED
    BY <1>2, <1>8, <2>1 DEF Outcome
<1>9. CASE c.do = "updateItem"
  <2>1. v.doc = OnItem(doc, c.itemId, c.data)
    BY <1>2, <1>9 DEF Executed
  <2>2. QED
    BY <1>2, <1>9, <2>1 DEF Outcome
<1>10. CASE c.do = "update"
  <2>1. v.doc = Applied(doc, c.update)
    BY <1>2, <1>10 DEF Executed
  <2>2. QED
    BY <1>2, <1>10, <2>1 DEF Outcome
<1>11. CASE c.do = "effect"
  <2>1. (\E o : v = [w EXCEPT !.others = o]) \/ (\E x : v = [w EXCEPT !.doc = [doc EXCEPT !.effects = x]])
    BY <1>2, <1>11 DEF Executed
  <2>2. v.doc = doc \/ \E x : v.doc = [doc EXCEPT !.effects = x]
    <3>1. (\E o : v = [w EXCEPT !.others = o]) => v.doc = doc
      BY <1>3
    <3>2. ASSUME NEW x, v = [w EXCEPT !.doc = [doc EXCEPT !.effects = x]]
          PROVE  v.doc = [doc EXCEPT !.effects = x]
      BY <1>2, <3>2
    <3>3. QED
      BY <2>1, <3>1, <3>2
  <2>3. QED
    BY <1>2, <1>11, <2>2 DEF Outcome
<1>12. CASE c.do = "removeEffect"
  <2>1. PICK x : v = [w EXCEPT !.doc = [doc EXCEPT !.effects = x]]
    BY <1>2, <1>12 DEF Executed, WithoutEffects
  <2>2. v.doc = [doc EXCEPT !.effects = x]
    BY <1>2, <2>1
  <2>3. QED
    BY <1>2, <1>12, <2>2 DEF Outcome
<1>13. CASE c.do = "removeItem"
  <2> DEFINE k == CHOOSE j \in DOMAIN doc.items : doc.items[j].id = c.itemId
  <2>1. c.itemId \in ItemIds(doc)
    BY <1>2, <1>13 DEF Possible
  <2>2. k \in DOMAIN doc.items
    BY <2>1 DEF ItemIds, ToSet
  <2>3. v.doc = [doc EXCEPT !.items = RemoveAt(@, k)]
    BY <1>2, <1>13 DEF Executed
  <2>4. QED
    BY <1>2, <1>13, <2>2, <2>3 DEF Outcome
<1>14. CASE c.do = "command"
  <2>1. v.doc = Commanded(doc, c.command)
    BY <1>2, <1>14 DEF Executed
  <2>2. \/ Commanded(doc, c.command) = doc
        \/ /\ Has(doc.sys, Dnd!HpPath("max"))
           /\ Commanded(doc, c.command) = [doc EXCEPT !.sys = Field(Dnd!HpPath("value"), doc.sys[Dnd!HpPath("max")]) ++ @]
        \/ \E n : Commanded(doc, c.command) = [doc EXCEPT !.sys = Field(<<"attributes", "death", "success">>, n) ++ @]
        \/ \E x : Commanded(doc, c.command) = [doc EXCEPT !.effects = x]
    BY DEF Commanded, WithoutEffects
  <2>3. Outcome(Commanded(doc, c.command), doc, c)
    BY <1>14, <2>2, Zenon DEF Outcome
  <2>4. QED
    BY <1>2, <2>1, <2>3
<1>15. CASE c.do \in Gives
  <2>1. v.doc = Given(doc, c.by, c.item)
    BY <1>2, <1>15 DEF Executed, Gives
  <2>2. QED
    BY <1>2, <1>15, <2>1 DEF Outcome
<1>16. CASE c.do \in {"create", "delete", "roll"}
  <2>1. v.doc = doc
    BY <1>2, <1>3, <1>16 DEF Executed
  <2>2. QED
    BY <1>2, <2>1 DEF Outcome
<1>17. QED
  BY <1>6, <1>7, <1>8, <1>9, <1>10, <1>11, <1>12, <1>13, <1>14, <1>15, <1>16 DEF Dos, Uses, Gives

LEMMA KinOutcome ==
  ASSUME NEW doc, Embeds(doc), Typed(doc), NEW c, Harmless(c), c.do \in Gives => c.by \notin ItemIds(doc),
         NEW v, Outcome(v, doc, c)
  PROVE  Kin(v, doc, Put(c), New(c))
<1>1. \A p, x : p \in {"equipped", "attuned"} => DOMAIN Field(p, x) \cap Marks = {} /\ ~Has(Field(p, x), "container")
  BY DEF Has, Field, Marks
<1>2. \A id, p, x : p \in {"equipped", "attuned"} => Kin(OnItem(doc, id, Field(p, x)), doc, Put(c), New(c))
  BY <1>1, KinOnItem
<1>3. /\ \A x : DOMAIN [doc EXCEPT !.effects = x] = DOMAIN doc /\ [doc EXCEPT !.effects = x].items = doc.items
      /\ \A x : DOMAIN [doc EXCEPT !.sys = x] = DOMAIN doc /\ [doc EXCEPT !.sys = x].items = doc.items
  BY DEF Embeds
<1>4. \A x : Kin([doc EXCEPT !.effects = x], doc, Put(c), New(c)) /\ Kin([doc EXCEPT !.sys = x], doc, Put(c), New(c))
  BY <1>3, KinEqual
<1>5. CASE c.do \in Uses /\ v = AfterUse(doc, c.itemId, c.slotKey)
  BY <1>5, KinUsed
<1>6. CASE c.do = "updateItem" /\ v = OnItem(doc, c.itemId, c.data)
  <2>1. DOMAIN c.data \cap Marks = {}
    BY <1>6 DEF Harmless, Plain
  <2>2. Has(c.data, "container") => c.data["container"] \in Put(c)
    BY <1>6 DEF Put
  <2>3. QED
    BY <1>6, <2>1, <2>2, KinOnItem
<1>7. CASE c.do = "update" /\ v = Applied(doc, c.update)
  <2>1. Has(c.update, "itemId") => DOMAIN c.update.data \cap Marks = {} /\ ~Has(c.update.data, "container")
    BY <1>7 DEF Harmless, Counts, Has
  <2>2. QED
    BY <1>7, <2>1, KinApplied
<1>8. CASE \E k \in DOMAIN doc.items : v = [doc EXCEPT !.items = RemoveAt(@, k)]
  <2>1. PICK k \in DOMAIN doc.items : v = [doc EXCEPT !.items = RemoveAt(@, k)]
    BY <1>8
  <2>2. Embeds(v) /\ ToSet(v.items) \subseteq ToSet(doc.items)
    BY <2>1, EmbedsRemoved
  <2>3. QED
    BY <2>2, KinKept
<1>9. CASE c.do \in Gives /\ v = Given(doc, c.by, c.item)
  <2>1. Embeds(v) /\ ToSet(v.items) = ToSet(doc.items) \cup {Field("id", c.by) ++ c.item}
    BY <1>9, EmbedsGiven
  <2>2. Field("id", c.by) ++ c.item \in New(c)
    BY <1>9 DEF New
  <2>3. \A i \in ToSet(doc.items) : Heir(i, i, Put(c))
    BY DEF Heir, Typed
  <2>4. QED
    BY <2>1, <2>2, <2>3 DEF Kin
<1>10. CASE v = doc
  BY <1>10, KinEqual
<1>11. CASE \E p \in {"equipped", "attuned"} : v = OnItem(doc, c.itemId, Field(p, c.to))
  BY <1>2, <1>11
<1>12. CASE \E x : v = [doc EXCEPT !.effects = x]
  BY <1>4, <1>12
<1>13. CASE \E x : v = [doc EXCEPT !.sys = x]
  BY <1>4, <1>13
<1>14. QED
  BY <1>5, <1>6, <1>7, <1>8, <1>9, <1>10, <1>11, <1>12, <1>13 DEF Outcome

-----------------------------------------------------------------------------
(* Where an action moves an item to, and what it heals.                    *)

TheHeal(actor) == [current |-> Hp(actor), max |-> HpMax(actor)]
Roomy(actor, id, data) ==
  "container" \in DOMAIN data =>
    /\ DOMAIN data = {"container"}
    /\ \/ data["container"] = ""
       \/ /\ data["container"] \in Dnd!ItemIds(actor)
          /\ Dnd!ItemOf(actor, data["container"]).type = "container"
          /\ id \notin Dnd!Above(actor, data["container"])
Apt(actor, x) ==
  /\ x.endpoint = "update-item" => Roomy(actor, x.itemId, x.data)
  /\ "heal" \in DOMAIN x => x.heal = TheHeal(actor)
Bare(x) == "endpoint" \in DOMAIN x /\ x.endpoint # "update-item" /\ "heal" \notin DOMAIN x

LEMMA BareAction ==
  ASSUME NEW x, Bare(x), NEW more, "heal" \notin DOMAIN more
  PROVE  Bare(Dnd!++(x, more))
BY DEF Bare, Dnd!++

LEMMA BareOptions ==
  /\ \A i : "heal" \notin DOMAIN Dnd!NoTemplate(i)
  /\ \A slot : "heal" \notin DOMAIN Dnd!SlotKey(slot)
  /\ \A e, i : e # "update-item" => Bare(Dnd!Call(e, i))
  /\ \A i, intent, slot : Bare(Dnd!OnTargets(i, intent, slot))
  /\ \A f : Bare(Dnd!Roll(f))
<1>1. \A i : "heal" \notin DOMAIN Dnd!NoTemplate(i)
  <2>1. "heal" \notin DOMAIN << >>
    OBVIOUS
  <2>2. QED
    BY <2>1 DEF Dnd!NoTemplate
<1>2. \A slot : "heal" \notin DOMAIN Dnd!SlotKey(slot)
  <2>1. "heal" \notin DOMAIN << >>
    OBVIOUS
  <2>2. QED
    BY <2>1 DEF Dnd!SlotKey
<1>3. \A e, i : e # "update-item" => Bare(Dnd!Call(e, i))
  BY DEF Dnd!Call, Bare
<1>4. ASSUME NEW i, NEW intent, NEW slot PROVE Bare(Dnd!OnTargets(i, intent, slot))
  <2>1. Bare(Dnd!Call("use-on-targets", i))
    BY <1>3
  <2>2. Bare(Dnd!++(Dnd!Call("use-on-targets", i), [targets |-> intent.targets]))
    BY <2>1, BareAction
  <2>3. QED
    BY <1>2, <2>2, BareAction DEF Dnd!OnTargets
<1>5. \A f : Bare(Dnd!Roll(f))
  BY DEF Dnd!Roll, Bare
<1>6. QED
  BY <1>1, <1>2, <1>3, <1>4, <1>5

LEMMA AptUse ==
  ASSUME NEW actor, NEW use, NEW i, NEW slot, NEW f
  PROVE  LET x == Dnd!UseAndRoll(use, i, slot, f)
         IN Bare(x) /\ \A when : Apt(actor, Dnd!With(x, when, [heal |-> TheHeal(actor)]))
<1> DEFINE x == Dnd!UseAndRoll(use, i, slot, f)
<1>1. Bare(x)
  <2>1. Bare(Dnd!Call("use-and-roll", i))
    BY BareOptions
  <2>2. Bare(Dnd!++(Dnd!Call("use-and-roll", i), [use |-> use, formula |-> f]))
    BY <2>1, BareAction
  <2>3. Bare(Dnd!++(Dnd!++(Dnd!Call("use-and-roll", i), [use |-> use, formula |-> f]), Dnd!SlotKey(slot)))
    BY <2>2, BareAction, BareOptions
  <2>4. QED
    BY <2>3, BareAction, BareOptions DEF Dnd!UseAndRoll
<1> HIDE DEF x
<1>2. ASSUME NEW when PROVE Apt(actor, Dnd!With(x, when, [heal |-> TheHeal(actor)]))
  <2>1. CASE when
    <3>1. PICK heal : heal = TheHeal(actor)
      OBVIOUS
    <3>2. LET y == Dnd!++(x, [heal |-> heal]) IN y.endpoint = x.endpoint /\ y.heal = heal
      BY <1>1 DEF Dnd!++, Bare
    <3>3. Dnd!With(x, when, [heal |-> TheHeal(actor)]) = Dnd!++(x, [heal |-> heal])
      BY <2>1, <3>1 DEF Dnd!With
    <3>4. QED
      BY <1>1, <3>1, <3>2, <3>3 DEF Apt, Bare
  <2>2. CASE ~when
    BY <1>1, <2>2 DEF Dnd!With, Apt, Bare
  <2>3. QED
    BY <2>1, <2>2
<1>3. QED
  BY <1>1, <1>2 DEF x

LEMMA AptBuilt ==
  ASSUME NEW actor, NEW intent, NEW d \in Dnd!dnd5eActions(actor),
         intent.actionId = d.id, intent.kind = d.kind
  PROVE  LET x == Dnd!dnd5eBuild(actor, intent, d) IN Refused(x) \/ Apt(actor, x)
<1> DEFINE Good(x) == Refused(x) \/ Apt(actor, x)
<1>1. \A code : Good(Dnd!Refusal(code))
  BY DEF Dnd!Refusal, Refused, Has
<1>2. \A x : Bare(x) => Good(x)
  BY DEF Bare, Apt
<1> HIDE DEF Good
<1>3. \A x, more : Bare(x) /\ "heal" \notin DOMAIN more => Good(Dnd!++(x, more))
  BY <1>2, BareAction
<1>4. \A i, use, opts, s : Good(Dnd!buildHealAction(actor, i, use, opts, s))
  <2>1. \A i, use, s, f, when : Good(Dnd!With(Dnd!UseAndRoll(use, i, s, f), when, [heal |-> TheHeal(actor)]))
    BY AptUse DEF Good
  <2>2. TheHeal(actor) = [current |-> Dnd!At(actor.sys, Dnd!HpPath("value"), 0),
                          max |-> Dnd!At(actor.sys, Dnd!HpPath("max"), Dnd!At(actor.sys, Dnd!HpPath("value"), 0))]
    BY DEF TheHeal, Hp, HpMax
  <2>3. QED
    BY <1>1, <2>1, <2>2 DEF Dnd!buildHealAction
<1>5. ASSUME NEW i PROVE Good(Dnd!AttackCall(actor, i, intent))
  <2>1. \A mode : Good(Dnd!++(Dnd!OnTargets(i, intent, 0), [attackMode |-> mode]))
    BY <1>3, BareOptions
  <2>2. Good(Dnd!Call("use-item", i)) /\ \A f : Good(Dnd!Roll(f))
    BY <1>2, BareOptions
  <2>3. QED
    BY <2>1, <2>2 DEF Dnd!AttackCall
<1>6. ASSUME NEW i PROVE Good(Dnd!DamageCall(actor, i, intent))
  <2>1. \A f : Good(Dnd!Roll(f))
    BY <1>2, BareOptions
  <2>2. QED
    BY <1>1, <2>1 DEF Dnd!DamageCall
<1>7. ASSUME NEW i PROVE Good(Dnd!UseCall(actor, i, intent))
  <2>1. /\ Good(Dnd!Refusal("INVALID")) /\ Good(Dnd!Refusal("UNKNOWN_RESOURCE"))
        /\ Good(Dnd!OnTargets(i, intent, 0))
        /\ Good(Dnd!++(Dnd!Call("use-item", i), Dnd!NoTemplate(i)))
        /\ Good(Dnd!++(Dnd!Call("use-feature", i), Dnd!NoTemplate(i)))
    BY <1>1, <1>2, <1>3, BareOptions
  <2>2. Good(Dnd!UseAndRoll("use-item", i, 0, Dnd!itemDamageFormula(actor, i, 0)))
    BY <1>2, AptUse
  <2>3. /\ Good(Dnd!buildHealAction(actor, i, "use-item", {"forceSelf"}, 0))
        /\ Good(Dnd!buildHealAction(actor, i, "use-feature", {}, 0))
    BY <1>4
  <2>4. Dnd!UseCall(actor, i, intent) \in
          {Dnd!Refusal("INVALID"), Dnd!Refusal("UNKNOWN_RESOURCE"), Dnd!OnTargets(i, intent, 0),
           Dnd!buildHealAction(actor, i, "use-item", {"forceSelf"}, 0),
           Dnd!buildHealAction(actor, i, "use-feature", {}, 0),
           Dnd!UseAndRoll("use-item", i, 0, Dnd!itemDamageFormula(actor, i, 0)),
           Dnd!++(Dnd!Call("use-item", i), Dnd!NoTemplate(i)),
           Dnd!++(Dnd!Call("use-feature", i), Dnd!NoTemplate(i))}
    BY DEF Dnd!UseCall
  <2>5. QED
    BY <2>1, <2>2, <2>3, <2>4
<1>8. ASSUME NEW i PROVE Good(Dnd!CastCall(actor, i, intent, d))
  <2> DEFINE base == Dnd!SpellLevel(i)
             chosen == IF Dnd!Has(d, "slotLevels") THEN Dnd!At(intent, "slotLevel", base) ELSE base
             up == IF chosen > base THEN chosen ELSE 0
             use == IF up > 0 THEN "cast-at-slot" ELSE "use-spell"
             plain == Dnd!++(Dnd!Call("cast-and-apply-effect", i), [use |-> use, effect |-> Dnd!selfBuffEffect(i)])
             keyed == Dnd!++(plain, Dnd!SlotKey(up))
             buff == Dnd!++(keyed, Dnd!NoTemplate(i))
  <2>1. use # "update-item"
    OBVIOUS
  <2>2. Dnd!CastCall(actor, i, intent, d) \in
          {Dnd!Refusal("INVALID"), Dnd!OnTargets(i, intent, up), buff,
           Dnd!++(buff, [targetActorId |-> intent.targetActorId]),
           Dnd!buildHealAction(actor, i, "use-spell", {}, up),
           Dnd!++(Dnd!Call(use, i), Dnd!SlotKey(up)), Dnd!++(Dnd!Call(use, i), Dnd!NoTemplate(i))}
    BY DEF Dnd!CastCall
  <2>3. Bare(Dnd!Call("cast-and-apply-effect", i)) /\ "heal" \notin DOMAIN [use |-> use, effect |-> Dnd!selfBuffEffect(i)]
    BY BareOptions
  <2>4. Bare(plain)
    BY <2>3, BareAction
  <2> HIDE DEF use, up, buff, plain, keyed
  <2>5. Bare(keyed)
    BY <2>4, BareAction, BareOptions DEF keyed
  <2>6. Bare(buff)
    BY <2>5, BareAction, BareOptions DEF buff
  <2>7. Good(buff) /\ Good(Dnd!++(buff, [targetActorId |-> intent.targetActorId]))
    BY <1>2, <1>3, <2>6
  <2>8. /\ Good(Dnd!Refusal("INVALID")) /\ Good(Dnd!OnTargets(i, intent, up))
        /\ Good(Dnd!buildHealAction(actor, i, "use-spell", {}, up))
        /\ Good(Dnd!++(Dnd!Call(use, i), Dnd!SlotKey(up)))
        /\ Good(Dnd!++(Dnd!Call(use, i), Dnd!NoTemplate(i)))
    BY <1>1, <1>2, <1>3, <1>4, <2>1, BareOptions
  <2>9. QED
    BY <2>2, <2>7, <2>8
<1>9. ASSUME NEW i, NEW path, NEW value, Roomy(actor, i.id, Dnd!Field(path, value))
      PROVE  Good(Dnd!UpdateItem(i, path, value))
  <2>1. PICK data : data = Dnd!Field(path, value)
    OBVIOUS
  <2>2. Dnd!UpdateItem(i, path, value) = [endpoint |-> "update-item", itemId |-> i.id, data |-> data]
    BY <2>1, Zenon DEF Dnd!UpdateItem
  <2>3. QED
    BY <1>9, <2>1, <2>2 DEF Good, Apt
<1>10. \A i, path, value : path # "container" => Roomy(actor, i.id, Dnd!Field(path, value))
  BY DEF Roomy, Dnd!Field
<1>11. ASSUME NEW i PROVE Good(Dnd!MoveCall(actor, i, intent))
  <2> DEFINE to == intent.containerId
             fits == /\ to \in Dnd!ItemIds(actor) /\ Dnd!ItemOf(actor, to).type = "container"
                     /\ i.id \notin Dnd!Above(actor, to)
  <2>1. to = "" \/ fits => Roomy(actor, i.id, Dnd!Field("container", to))
    <3>1. PICK data : data = Dnd!Field("container", to)
      OBVIOUS
    <3>2. DOMAIN data = {"container"} /\ data["container"] = to
      BY <3>1 DEF Dnd!Field
    <3>3. QED
      BY <3>1, <3>2 DEF Roomy
  <2>2. Dnd!MoveCall(actor, i, intent) = IF to = "" \/ fits THEN Dnd!UpdateItem(i, "container", to) ELSE Dnd!Refusal("INVALID")
    BY DEF Dnd!MoveCall
  <2> HIDE DEF to, fits
  <2>3. QED
    BY <1>1, <1>9, <2>1, <2>2
<1>12. ASSUME NEW i, d.kind \in ItemKinds PROVE Good(Dnd!dnd5eItemCall(actor, i, intent, d))
  <2>1. \A to : /\ Good(Dnd!++(Dnd!Call("equip-item", i), [to |-> to]))
                /\ Good(Dnd!++(Dnd!Call("attune-item", i), [to |-> to]))
    BY <1>3, BareOptions
  <2>2. \A value : /\ Good(Dnd!UpdateItem(i, "flags.unseen-servent.grip", value))
                   /\ Good(Dnd!UpdateItem(i, "prepared", value))
    BY <1>9, <1>10
  <2>3. QED
    BY <1>5, <1>6, <1>7, <1>8, <1>11, <1>12, <2>1, <2>2 DEF Dnd!dnd5eItemCall, ItemKinds
<1>13. \/ d.id[1] \in Grouped /\ d.kind \in ItemKinds
       \/ d.id[1] \notin Grouped /\ d.kind \in ActorKinds
  BY OfferedKinds
<1>14. ASSUME d.kind \in ActorKinds PROVE Good(Dnd!ActorCall(actor, intent))
  <2>1. \A id, mode : Good(Dnd!buildRollAction(actor, id, mode))
    BY <1>2, BareOptions DEF Dnd!buildRollAction
  <2>2. \A e : e # "update-item" => Good([endpoint |-> e])
    BY <1>2 DEF Bare
  <2>3. \A id : Good([endpoint |-> "remove-effect", effectId |-> id])
    BY <1>2 DEF Bare
  <2>4. CASE d.kind = "rest"
    <3>1. \E e \in {"long-rest", "short-rest"} : Dnd!ActorCall(actor, intent) = [endpoint |-> e]
      BY <2>4 DEF Dnd!ActorCall
    <3>2. QED
      BY <2>2, <3>1
  <2>5. CASE d.kind # "rest"
    BY <1>1, <1>14, <2>1, <2>2, <2>3, <2>5 DEF Dnd!ActorCall, ActorKinds
  <2>6. QED
    BY <2>4, <2>5
<1>15. Good(Dnd!dnd5eBuild(actor, intent, d))
  <2>1. CASE ~Dnd!TargetsFit(d, intent)
    BY <1>1, <2>1 DEF Dnd!dnd5eBuild
  <2>2. CASE Dnd!TargetsFit(d, intent) /\ d.id[1] \in Grouped
    BY <1>12, <1>13, <2>2 DEF Dnd!dnd5eBuild, Grouped
  <2>3. CASE Dnd!TargetsFit(d, intent) /\ d.id[1] \notin Grouped
    BY <1>13, <1>14, <2>3 DEF Dnd!dnd5eBuild, Grouped
  <2>4. QED
    BY <2>1, <2>2, <2>3
<1>16. QED
  BY <1>15 DEF Good

LEMMA AptAction ==
  ASSUME NEW actor, NEW intent, NEW d \in actions(actor), intent.actionId = d.id, intent.kind = d.kind
  PROVE  LET x == buildAction(actor, intent, d) IN Refused(x) \/ Apt(actor, x)
<1>1. CASE actor.systemId = "wod5e"
  <2> DEFINE Good(x) == Refused(x) \/ Apt(actor, x)
  <2>1. \A code : Good(Vampire!Refusal(code))
    BY DEF Vampire!Refusal, Refused, Has
  <2>2. \A f : Good([endpoint |-> "roll", formula |-> f])
    BY DEF Apt
  <2> SUFFICES Good(Vampire!wod5eBuild(actor, intent, d))
    BY <1>1 DEF buildAction
  <2> HIDE DEF Good
  <2>3. QED
    BY <2>1, <2>2 DEF Vampire!wod5eBuild
<1>2. CASE actor.systemId # "wod5e"
  BY <1>2, AptBuilt DEF actions, buildAction
<1>3. QED
  BY <1>1, <1>2

\* What a call has to do with the document that was read: a heal adds to its hit
\* points, an item is moved where there is room, a counter of it is written.
Due(actor, body, c) ==
  /\ c.do = "roll" => c.heal \in {NoHeal, TheHeal(actor)}
  /\ c.do = "updateItem" => Roomy(actor, c.itemId, c.data)
  /\ c.do = "update" =>
       /\ body.route = "intents"
       /\ \E d, x \in resources(actor) :
            /\ d.id = x.id /\ x.writable
            /\ c.update = buildUpdate(actor, d, parseIntent(body)) /\ ~Refused(c.update)
AllDue(actor, body, todo) == \A k \in DOMAIN todo : Due(actor, body, todo[k])

LEMMA CallsDue ==
  ASSUME NEW r, NEW actor, NEW body, NEW action, Apt(actor, action)
  PROVE  AllDue(actor, body, CallsOf(r, actor, action))
<1> DEFINE e == action.endpoint
           Good(t) == AllDue(actor, body, t)
<1>1. \A c : Due(actor, body, c) => Good(<<c>>)
  BY DEF AllDue
<1>2. \A c, d : Due(actor, body, c) /\ Due(actor, body, d) => Good(<<c, d>>)
  BY DEF AllDue
<1>3. \A c : c.do \notin {"roll", "updateItem", "update"} => Due(actor, body, c)
  BY DEF Due
<1>4. \A use : Due(actor, body, ActivateCall(r, use, action))
  <2>1. \A use : ActivateCall(r, use, action).do = "activate"
    BY DEF ActivateCall, Activation
  <2>2. QED
    BY <1>3, <2>1
<1>5. Due(actor, body, RollCall(r, action))
  <2>1. At(action, "heal", NoHeal) \in {NoHeal, TheHeal(actor)}
    BY DEF At, Apt
  <2>2. RollCall(r, action).do = "roll" /\ RollCall(r, action).heal = At(action, "heal", NoHeal)
    BY DEF RollCall, Roll
  <2>3. QED
    BY <2>1, <2>2 DEF Due
<1>6. e = "update-item" =>
        Due(actor, body, [do |-> "updateItem", by |-> r, itemId |-> action.itemId, data |-> action.data])
  BY DEF Due, Apt
<1> HIDE DEF Good
<1>7. /\ \A on : Good(<<[do |-> "effect", by |-> r, on |-> on]>>)
      /\ \A id : Good(<<[do |-> "removeEffect", by |-> r, effectId |-> id]>>)
      /\ \A x : Good(<<[do |-> "command", by |-> r, command |-> x]>>)
      /\ \A id, to : Good(<<[do |-> "equip", by |-> r, itemId |-> id, to |-> to]>>)
      /\ \A id, to : Good(<<[do |-> "attune", by |-> r, itemId |-> id, to |-> to]>>)
      /\ \A id, t, s : Good(<<[do |-> "targets", by |-> r, itemId |-> id, targets |-> t, slotKey |-> s]>>)
      /\ \A use, on : Good(<<ActivateCall(r, use, action), [do |-> "effect", by |-> r, on |-> on]>>)
  BY <1>1, <1>2, <1>3, <1>4
<1>8. /\ Good(<<RollCall(r, action)>>) /\ \A use : Good(<<ActivateCall(r, use, action)>>)
      /\ \A use : Good(<<ActivateCall(r, use, action), RollCall(r, action)>>)
      /\ e = "update-item" => Good(<<[do |-> "updateItem", by |-> r, itemId |-> action.itemId, data |-> action.data]>>)
  BY <1>1, <1>2, <1>4, <1>5, <1>6
<1>9. Good(CallsOf(r, actor, action))
  BY <1>7, <1>8 DEF CallsOf
<1>10. QED
  BY <1>9 DEF Good

LEMMA DecisionsDue ==
  ASSUME NEW r, NEW actor, NEW body, body.route \in {"intents", "actions", "items", "add", "remove"},
         Decision(r, actor, body).code = 200
  PROVE  AllDue(actor, body, Decision(r, actor, body).todo)
<1> DEFINE Owed(x) == x.code = 200 => AllDue(actor, body, x.todo)
<1>1. \A code : code # 200 => Owed(Refuse(code))
  BY DEF Refuse
<1>2. \A error : StatusOf(error) # 200
  BY DEF StatusOf
<1>3. /\ \A c : Due(actor, body, c) => Owed(Ask(<<c>>))
      /\ \A c, e, f : Due(actor, body, c) /\ Due(actor, body, e) /\ Due(actor, body, f) => Owed(Ask(<<c, e, f>>))
  BY DEF Ask, AllDue
<1>4. \A c : c.do \notin {"roll", "updateItem", "update"} => Due(actor, body, c)
  BY DEF Due
<1>5. Owed(DecideAction(r, actor, body))
  <2> DEFINE found == {a \in Found(actions(actor), body.actionId) : a.kind = body.kind}
             d == CHOOSE a \in found : TRUE
             intent == parseActionIntent(body, body.kind)
             action == buildAction(actor, intent, d)
  <2>1. CASE found = {}
    BY <1>1, <2>1 DEF DecideAction
  <2>2. CASE found # {} /\ Refused(intent)
    BY <1>1, <2>2 DEF DecideAction
  <2>3. CASE found # {} /\ ~Refused(intent)
    <3>1. d \in found
      BY <2>3
    <3>2. d \in actions(actor) /\ d.id = body.actionId /\ d.kind = body.kind
      BY <3>1 DEF Found
    <3>3. intent.kind = body.kind /\ intent.actionId = body.actionId
      <4>1. \/ intent = Refusal("INVALID")
            \/ intent = [f \in (DOMAIN body \cap FieldsOf(body.kind)) \cup {"kind", "actionId"} |-> body[f]]
        BY DEF parseActionIntent
      <4>2. Refused(Refusal("INVALID"))
        BY DEF Refusal, Refused, Has
      <4> HIDE DEF intent
      <4>3. QED
        BY <2>3, <4>1, <4>2
    <3> HIDE DEF d, intent, found
    <3>4. Refused(action) \/ Apt(actor, action)
      BY <3>2, <3>3, AptAction
    <3>5. DecideAction(r, actor, body) = DecideBuilt(r, actor, action)
      BY <2>3 DEF DecideAction, found, d, intent
    <3> HIDE DEF action
    <3>6. Apt(actor, action) => Owed(Ask(CallsOf(r, actor, action)))
      BY CallsDue DEF Ask
    <3> HIDE DEF Owed
    <3>7. Owed(DecideBuilt(r, actor, action))
      BY <1>1, <1>2, <3>4, <3>6 DEF DecideBuilt
    <3>8. QED
      BY <3>5, <3>7
  <2>4. QED
    BY <2>1, <2>2, <2>3
<1>6. body.route = "intents" => Owed(DecideIntent(r, actor, body))
  <2> SUFFICES ASSUME body.route = "intents" PROVE Owed(DecideIntent(r, actor, body))
    OBVIOUS
  <2> DEFINE found == Found(resources(actor), body.resourceId)
             d == CHOOSE x \in found : TRUE
             intent == parseIntent(body)
             update == buildUpdate(actor, d, intent)
             call == [do |-> "update", by |-> r, update |-> update]
  <2>1. CASE \A x \in found : ~x.writable
    BY <1>1, <2>1 DEF DecideIntent
  <2>2. CASE ~\A x \in found : ~x.writable
    <3>1. PICK x \in found : x.writable
      BY <2>2
    <3>2. d \in found
      BY <3>1
    <3>3. x \in resources(actor) /\ d \in resources(actor) /\ d.id = x.id
      BY <3>1, <3>2 DEF Found
    <3> HIDE DEF d, found
    <3>4. call.do = "update" /\ call.update = update
      OBVIOUS
    <3>5. ~Refused(update) => Due(actor, body, call)
      <4> HIDE DEF call
      <4>1. QED
        BY <3>1, <3>3, <3>4 DEF Due
    <3>6. DecideIntent(r, actor, body) =
            IF Has(intent, "expected") /\ intent.expected # d.value THEN Refuse(409)
            ELSE IF Refused(update) THEN Refuse(StatusOf(update.error))
            ELSE Ask(<<call>>)
      BY <2>2 DEF DecideIntent, d, found
    <3> HIDE DEF call, update, intent, Owed
    <3>7. QED
      BY <1>1, <1>2, <1>3, <3>5, <3>6
  <2>3. QED
    BY <2>1, <2>2
<1>7. Owed(DecideItem(r, actor, body))
  <2>1. \A item : Owed(Ask(<<[do |-> "create", by |-> r],
                     [do |-> "giveMade", by |-> r, item |-> item], [do |-> "delete", by |-> r]>>))
    BY <1>3, <1>4
  <2> HIDE DEF Owed
  <2>2. QED
    BY <1>1, <2>1 DEF DecideItem
<1>8. body.route \in {"add", "remove"} => Owed(DecideLibrary(r, actor, body))
  <2>1. \A item : Owed(Ask(<<[do |-> "give", by |-> r, item |-> item]>>))
    BY <1>3, <1>4
  <2>2. \A id : Owed(Ask(<<[do |-> "removeItem", by |-> r, itemId |-> id]>>))
    BY <1>3, <1>4
  <2> HIDE DEF Owed
  <2>3. QED
    BY <1>1, <2>1, <2>2 DEF DecideLibrary
<1> HIDE DEF Owed
<1>9. Owed(Decision(r, actor, body))
  BY <1>1, <1>5, <1>6, <1>7, <1>8 DEF Decision
<1>10. QED
  BY <1>9 DEF Owed

-----------------------------------------------------------------------------
(* What an answer leaves to be done, and of which document.                *)

Left(r, c, total, x) ==
  \/ x.do \in {"activate", "effect", "giveMade", "delete"} /\ Harmless(x)
  \/ x.do = "roll" /\ c.do = "activate" /\ \E k \in DOMAIN req[r].todo : x = req[r].todo[k]
  \/ c.do = "roll" /\ c.heal # NoHeal /\ x = HealUpdate(r, c.heal, total)
AllLeft(r, c, total, todo) == \A k \in DOMAIN todo : Left(r, c, total, todo[k])

LEMMA AnswerLeaves ==
  ASSUME Inv, NEW r \in Requests, req[r].stage = "call", AllHarmless(req[r].todo),
         NEW answer, NEW total, Answered(r, Head(req[r].todo), answer, total)
  PROVE  LET q == req'[r]
         IN /\ DOMAIN req' = Requests /\ \A o \in Requests \ {r} : req'[o] = req[o]
            /\ q.body = req[r].body /\ q.stage # "details"
            /\ q.stage = "call" =>
                 /\ AllLeft(r, Head(req[r].todo), total, q.todo)
                 /\ \/ q.known = req[r].known
                    \/ req[r].known = world.doc /\ q.known = world'.doc
<1> DEFINE todo == req[r].todo
           c == Head(todo)
           again == Activation(r, c.itemId, c.slotKey, "module")
           Good(t) == AllLeft(r, c, total, t)
<1>1. Plan(r, todo) /\ DOMAIN req = Requests
  BY NextCall DEF Inv, Bounded
<1>2. /\ DOMAIN req' = Requests /\ \A q \in Requests \ {r} : req'[q] = req[q]
      /\ req'[r].body = req[r].body
  BY <1>1, AnswerMoves DEF Moved
<1>3. c.do = "roll" /\ c.heal # NoHeal => Left(r, c, total, HealUpdate(r, c.heal, total))
  BY DEF Left
<1>4. Left(r, c, total, again)
  <2>1. again.do = "activate"
    BY DEF Activation
  <2> HIDE DEF again
  <2>2. Harmless(again)
    BY <2>1 DEF Harmless, Gives
  <2>3. QED
    BY <2>1, <2>2 DEF Left
<1> HIDE DEF again
<1>5. \A k \in DOMAIN todo : todo[k].do \in {"effect", "delete", "giveMade"} => Left(r, c, total, todo[k])
  BY DEF AllHarmless, Left
<1>6. \A k \in DOMAIN todo : todo[k].do = "roll" /\ c.do = "activate" => Left(r, c, total, todo[k])
  BY DEF Left
<1>7. /\ Good(Tail(todo))
      /\ c.do = "activate" => Good(<<again>> \o Tail(todo))
      /\ c.do = "roll" => Tail(todo) = <<>>
  <2>1. CASE todo = <<todo[1]>>
    <3>1. PICK a : todo = <<a>>
      BY <2>1
    <3>2. Tail(todo) = <<>> /\ <<again>> \o Tail(todo) = <<again>>
      BY <3>1, Tuples
    <3>3. QED
      BY <1>4, <3>2 DEF AllLeft
  <2>2. CASE todo = <<todo[1], todo[2]>> /\ <<todo[1].do, todo[2].do>> \in Couples
    <3>1. PICK a, b : todo = <<a, b>> /\ a = todo[1] /\ b = todo[2]
      BY <2>2
    <3>2. c = a /\ Tail(todo) = <<b>> /\ <<again>> \o Tail(todo) = <<again, b>>
      <4>1. c = a /\ Tail(todo) = <<b>>
        BY <3>1, Tuples
      <4>2. <<again>> \o <<b>> = <<again, b>>
        BY Tuples
      <4>3. QED
        BY <4>1, <4>2
    <3>3. Left(r, c, total, b)
      <4>1. 2 \in DOMAIN todo /\ b = todo[2]
        BY <3>1
      <4>2. b.do \in {"effect", "delete"} \/ (b.do = "roll" /\ a.do = "activate")
        BY <2>2, <3>1 DEF Couples
      <4>3. QED
        BY <1>5, <1>6, <3>2, <4>1, <4>2
    <3>4. Good(<<b>>) /\ Good(<<again, b>>)
      BY <1>4, <3>3 DEF AllLeft
    <3>5. c.do # "roll"
      BY <2>2, <3>1, <3>2 DEF Couples
    <3>6. QED
      BY <3>2, <3>4, <3>5
  <2>3. CASE /\ todo = <<todo[1], todo[2], todo[3]>>
             /\ <<todo[1].do, todo[2].do, todo[3].do>> = <<"create", "giveMade", "delete">>
    <3>1. PICK a, b, d : todo = <<a, b, d>> /\ a = todo[1] /\ b = todo[2] /\ d = todo[3]
      BY <2>3
    <3>2. Left(r, c, total, b) /\ Left(r, c, total, d)
      <4>1. 2 \in DOMAIN todo /\ 3 \in DOMAIN todo
        BY <3>1
      <4>2. QED
        BY <1>5, <2>3, <3>1, <4>1
    <3>3. c = a /\ Tail(todo) = <<b, d>> /\ c.do = "create"
      BY <2>3, <3>1, Tuples
    <3>4. Good(<<b, d>>)
      BY <3>2 DEF AllLeft
    <3>5. QED
      BY <3>3, <3>4
  <2>4. QED
    BY <1>1, <2>1, <2>2, <2>3 DEF Plan
<1>8. Good(Rest(r, c, total))
  <2>1. CASE c.do = "roll" /\ c.heal # NoHeal
    <3>1. PICK heal : heal = HealUpdate(r, c.heal, total) /\ Left(r, c, total, heal)
      BY <1>3, <1>4, <2>1
    <3>2. Rest(r, c, total) = <<heal>>
      BY <1>7, <2>1, <3>1, Tuples DEF Rest
    <3>3. QED
      BY <3>1, <3>2 DEF AllLeft
  <2>2. CASE ~(c.do = "roll" /\ c.heal # NoHeal)
    BY <1>7, <2>2 DEF Rest
  <2>3. QED
    BY <2>1, <2>2
<1> DEFINE then == AfterAnswer(c, answer)
           rest == Rest(r, c, total)
           known == IF req[r].known = world.doc THEN world'.doc ELSE req[r].known
           Fit(q) == /\ q.stage # "details"
                     /\ q.stage = "call" => /\ Good(q.todo)
                                            /\ \/ q.known = req[r].known
                                               \/ req[r].known = world.doc /\ q.known = world'.doc
<1>9. /\ \A k, left, gave : Good(left) /\ k \in {req[r].known, known} /\ Continue(r, k, left, gave) => Fit(req'[r])
      /\ \A code : Reply(r, code) => Fit(req'[r])
      /\ req' = [req EXCEPT ![r] = Standing("fresh", @.body)] => Fit(req'[r])
  <2> HIDE DEF Good, c
  <2>1. ASSUME NEW k, NEW left, NEW gave, Good(left), k \in {req[r].known, known}, Continue(r, k, left, gave)
        PROVE  Fit(req'[r])
    <3>1. req'[r].stage = "call" /\ req'[r].known = k /\ req'[r].todo = left
      BY <1>1, <2>1 DEF Continue, Standing
    <3>2. QED
      BY <2>1, <3>1
  <2>2. ASSUME NEW code, Reply(r, code) PROVE Fit(req'[r])
    <3>1. req'[r].stage = "done"
      BY <1>1, <2>2 DEF Reply, Standing
    <3>2. QED
      BY <3>1
  <2>3. ASSUME req' = [req EXCEPT ![r] = Standing("fresh", @.body)] PROVE Fit(req'[r])
    <3>1. req'[r].stage = "fresh"
      BY <1>1, <2>3 DEF Standing
    <3>2. QED
      BY <3>1
  <2>4. QED
    BY <2>1, <2>2, <2>3
<1>10. /\ then \in {"next", "fallback", "unprocessable", "upstream"}
       /\ then = "fallback" => c.do = "activate"
  BY DEF AfterAnswer, ReadsErrorBody, NeverThrows
<1> HIDE DEF then, rest, c, known, Fit
<1>11. \/ then = "fallback" /\ Continue(r, req[r].known, <<again>> \o Tail(todo), req[r].gave)
       \/ \E code : Reply(r, code)
       \/ \E gave : Continue(r, known, rest, gave)
       \/ req' = [req EXCEPT ![r] = Standing("fresh", @.body)]
  <2>1. CASE then = "fallback"
    BY <2>1 DEF Answered, then, c, again
  <2>2. CASE then = "unprocessable"
    BY <2>2 DEF Answered, then, c
  <2>3. CASE then = "upstream"
    BY <2>3 DEF Answered, then, c
  <2>4. CASE then = "next"
    BY <2>4 DEF Answered, then, rest, c, known
  <2>5. QED
    BY <1>10, <2>1, <2>2, <2>3, <2>4
<1>12. Good(rest)
  BY <1>8 DEF rest
<1> HIDE DEF Good
<1>13. Fit(req'[r])
  BY <1>7, <1>9, <1>10, <1>11, <1>12
<1>14. QED
  BY <1>2, <1>13 DEF Fit, Good, c

LEMMA Enriched ==
  ASSUME NEW doc, Embeds(doc), NEW details, NEW ac
  PROVE  LET actor == enrich(doc, details, ac)
         IN /\ Embeds(actor) /\ actor.items = doc.items /\ actor.systemId = doc.systemId
            /\ DOMAIN actor = DOMAIN doc
            /\ Dnd!ItemIds(actor) = ItemIds(doc)
            /\ \A id : Dnd!ItemOf(actor, id) = ItemOf(doc, id)
<1> DEFINE actor == enrich(doc, details, ac)
<1>1. actor = doc \/ \E sys : actor = [doc EXCEPT !.sys = sys]
  BY DEF enrich, Dnd!enrich
<1>2. DOMAIN actor = DOMAIN doc /\ actor.items = doc.items /\ actor.systemId = doc.systemId
  BY <1>1 DEF Embeds
<1>3. Embeds(actor)
  BY <1>2, EmbedsEqual
<1> HIDE DEF actor
<1>4. Dnd!ItemIds(actor) = ItemIds(doc) /\ \A id : Dnd!ItemOf(actor, id) = ItemOf(doc, id)
  BY <1>2 DEF Dnd!ItemIds, ItemIds, Dnd!ItemOf, ItemOf, Dnd!ToSet, ToSet
<1>5. QED
  BY <1>2, <1>3, <1>4 DEF actor

-----------------------------------------------------------------------------
(* The inventory: every item has an id of its own, that of a request only  *)
(* after it was given its copy, and lies in a container, if at all.  A     *)
(* shelf is what is a container wherever it is on the sheet, now or later. *)

Stamped(doc, done) ==
  /\ Embeds(doc) /\ Typed(doc) /\ "" \notin ItemIds(doc)
  /\ \A r \in Requests : r \in ItemIds(doc) => Spots(done[r], Gives) # {}
Native(doc) ==
  \A i \in ToSet(doc.items) :
    i.id \in Requests \/ \E j \in ToSet(sc.doc.items) : j.id = i.id /\ j.type = i.type
Shelf(doc, done, to) ==
  /\ \A j \in ToSet(doc.items) : j.id = to => j.type = "container"
  /\ to \in Requests => Spots(done[to], Gives) # {}
Stocked(doc, done) ==
  /\ Stamped(doc, done) /\ Native(doc)
  /\ \A i \in ToSet(doc.items) : Shelf(doc, done, At(i, "container", ""))

\* Requests that have read the document, and the calls they are to make.
Seen(doc, done, q) ==
  q.stage = "details" =>
    /\ Embeds(q.known) /\ Typed(q.known)
    /\ \A i \in ToSet(q.known.items) : i.type = "container" => Shelf(doc, done, i.id)
Proper(doc, done, c) == Harmless(c) /\ \A to \in Put(c) : Shelf(doc, done, to)
Calls(doc, done, q) ==
  q.stage = "call" => \A k \in DOMAIN q.todo : Proper(doc, done, q.todo[k])
Sees(doc, done, q) == Seen(doc, done, q) /\ Calls(doc, done, q)

WellKept ==
  /\ Stocked(world.doc, performed)
  /\ \A r \in Requests : Sees(world.doc, performed, req[r])
  /\ \A c \in late : Proper(world.doc, performed, c)

\* What is a shelf stays one.
StillShelves(doc, done, v, then) == \A to : Shelf(doc, done, to) => Shelf(v, then, to)

LEMMA ShelvesKept ==
  ASSUME NEW doc, NEW done, NEW v, NEW then, StillShelves(doc, done, v, then)
  PROVE  /\ \A q : Sees(doc, done, q) => Sees(v, then, q)
         /\ \A c : Proper(doc, done, c) => Proper(v, then, c)
<1>1. \A c : Proper(doc, done, c) => Proper(v, then, c)
  BY DEF StillShelves, Proper
<1>2. \A q : Seen(doc, done, q) => Seen(v, then, q)
  BY DEF StillShelves, Seen
<1>3. QED
  BY <1>1, <1>2 DEF Sees, Calls

LEMMA OnNoShelf ==
  ASSUME NEW doc, NEW done, Stocked(doc, done)
  PROVE  /\ \A to : to = "" => Shelf(doc, done, to)
         /\ \A to : MayHold(sc.doc, to) => Shelf(doc, done, to)
         /\ \A i \in ToSet(doc.items) : i.type = "container" => Shelf(doc, done, i.id)
<1>1. "" \notin Requests
  BY WritesAssumption
<1>2. \A to : to = "" => Shelf(doc, done, to)
  BY <1>1 DEF Stocked, Stamped, Shelf, ItemIds
<1>3. \A to : MayHold(sc.doc, to) => Shelf(doc, done, to)
  BY DEF MayHold, Shelf, Stocked, Native
<1>4. ASSUME NEW i \in ToSet(doc.items), i.type = "container" PROVE Shelf(doc, done, i.id)
  <2>1. \A j \in ToSet(doc.items) : j.id = i.id => j = i
    BY DEF Stocked, Stamped, Embeds, DistinctIds
  <2>2. i.id \in ItemIds(doc)
    BY DEF ItemIds
  <2>3. QED
    BY <1>4, <2>1, <2>2 DEF Stocked, Stamped, Shelf
<1>5. QED
  BY <1>2, <1>3, <1>4

\* Items are moved to shelves, and a new one is that of a request that had none.
Newly(j, done, then) ==
  /\ Has(j, "type") /\ j.id \in Requests
  /\ Spots(done[j.id], Gives) = {} /\ Spots(then[j.id], Gives) # {}
  /\ MayHold(sc.doc, At(j, "container", ""))

LEMMA KinStocked ==
  ASSUME NEW doc, NEW done, Stocked(doc, done), NEW put, NEW new, NEW v, Kin(v, doc, put, new),
         NEW then,
         \A r \in Requests : Spots(done[r], Gives) # {} => Spots(then[r], Gives) # {},
         \A to \in put : Shelf(doc, done, to), \A j \in new : Newly(j, done, then)
  PROVE  Stocked(v, then) /\ StillShelves(doc, done, v, then)
<1>1. "" \notin Requests
  BY WritesAssumption
<1>2. StillShelves(doc, done, v, then)
  <2> SUFFICES ASSUME NEW to, Shelf(doc, done, to) PROVE Shelf(v, then, to)
    BY DEF StillShelves
  <2>1. to \in Requests => Spots(then[to], Gives) # {}
    BY DEF Shelf
  <2>2. ASSUME NEW j \in ToSet(v.items), j.id = to PROVE j.type = "container"
    <3>1. CASE j \in new
      BY <2>2, <3>1 DEF Newly, Shelf
    <3>2. CASE \E i \in ToSet(doc.items) : Heir(j, i, put)
      BY <2>2, <3>2 DEF Heir, Shelf
    <3>3. QED
      BY <3>1, <3>2 DEF Kin
  <2>3. QED
    BY <2>1, <2>2 DEF Shelf
<1>3. Stamped(v, then)
  <2>1. Embeds(v)
    BY DEF Kin
  <2>2. \A j \in ToSet(v.items) : /\ Has(j, "type") /\ j.id # ""
                                  /\ j.id \in Requests => Spots(then[j.id], Gives) # {}
    <3> SUFFICES ASSUME NEW j \in ToSet(v.items)
                 PROVE  /\ Has(j, "type") /\ j.id # ""
                        /\ j.id \in Requests => Spots(then[j.id], Gives) # {}
      OBVIOUS
    <3>1. CASE j \in new
      BY <1>1, <3>1 DEF Newly
    <3>2. CASE \E i \in ToSet(doc.items) : Heir(j, i, put)
      BY <3>2 DEF Heir, Stocked, Stamped, ItemIds
    <3>3. QED
      BY <3>1, <3>2 DEF Kin
  <2>3. QED
    BY <2>1, <2>2 DEF Stamped, Typed, ItemIds
<1>4. Native(v)
  <2> SUFFICES ASSUME NEW j \in ToSet(v.items), j.id \notin Requests
               PROVE  \E k \in ToSet(sc.doc.items) : k.id = j.id /\ k.type = j.type
    BY DEF Native
  <2>1. PICK i \in ToSet(doc.items) : Heir(j, i, put)
    BY DEF Kin, Newly
  <2>2. QED
    BY <2>1 DEF Heir, Stocked, Native
<1>5. ASSUME NEW j \in ToSet(v.items) PROVE Shelf(v, then, At(j, "container", ""))
  <2>1. CASE j \in new
    BY <1>2, <2>1, OnNoShelf DEF Newly, StillShelves
  <2>2. CASE \E i \in ToSet(doc.items) : Heir(j, i, put)
    <3>1. PICK i \in ToSet(doc.items) : Heir(j, i, put)
      BY <2>2
    <3>2. Shelf(doc, done, At(i, "container", ""))
      BY DEF Stocked
    <3>3. Shelf(doc, done, At(j, "container", ""))
      BY <3>1, <3>2 DEF Heir
    <3>4. QED
      BY <1>2, <3>3 DEF StillShelves
  <2>3. QED
    BY <2>1, <2>2 DEF Kin
<1>6. QED
  BY <1>2, <1>3, <1>4, <1>5 DEF Stocked

LEMMA WellKeptInit == Init => WellKept
<1> SUFFICES ASSUME Init PROVE WellKept
  OBVIOUS
<1>1. sc \in Scenarios /\ world.doc = sc.doc /\ late = {}
  BY DEF Init
<1>2. WellBuilt(sc.doc) /\ \A i \in ToSet(sc.doc.items) : MayHold(sc.doc, At(i, "container", ""))
  BY <1>1, WritesAssumption
<1>3. Stamped(sc.doc, performed) /\ Native(sc.doc)
  BY <1>2 DEF WellBuilt, Stamped, Native, Typed
<1>4. \A i \in ToSet(sc.doc.items) : Shelf(sc.doc, performed, At(i, "container", ""))
  BY <1>2 DEF MayHold, Shelf
<1>5. ASSUME NEW r \in Requests PROVE Sees(world.doc, performed, req[r])
  BY DEF Init, Standing, Sees, Seen, Calls
<1>6. QED
  BY <1>1, <1>3, <1>4, <1>5 DEF WellKept, Stocked

\* A call that is executed, in time or late.
LEMMA ExecutedStock ==
  ASSUME Inv, WellKept, NEW r \in Requests, NEW c, c.by = r, c.do \in Dos, Proper(world.doc, performed, c),
         Possible(world, c), c.do \in Gives => Spots(performed[r], Gives) = {},
         NEW hit, world' = Executed(world, c, hit),
         performed' = [performed EXCEPT ![r] = Append(@, c.do)]
  PROVE  /\ Outcome(world'.doc, world.doc, c)
         /\ Stocked(world'.doc, performed') /\ StillShelves(world.doc, performed, world'.doc, performed')
<1>1. Scratch(world) /\ Stocked(world.doc, performed)
  BY DEF Inv, Bounded, Scratch, WellKept
<1>2. c.do \in Gives => r \notin ItemIds(world.doc)
  BY <1>1 DEF Stocked, Stamped
<1>3. Outcome(world'.doc, world.doc, c)
  BY <1>1, ExecutedDoc
<1>4. Kin(world'.doc, world.doc, Put(c), New(c))
  BY <1>1, <1>2, <1>3, KinOutcome DEF Stocked, Stamped, Proper
<1>5. performed \in [Requests -> Seq(Dos)] /\ performed[r] \in Seq(Dos)
  BY DEF Inv, Bounded
<1>6. \A D : Spots(performed'[r], D) = Spots(performed[r], D) \cup (IF c.do \in D THEN {Len(performed[r]) + 1} ELSE {})
  BY <1>5, SpotsAppend
<1>7. \A q \in Requests \ {r} : performed'[q] = performed[q]
  BY <1>5
<1>8. \A q \in Requests : Spots(performed[q], Gives) # {} => Spots(performed'[q], Gives) # {}
  BY <1>6, <1>7
<1>9. ASSUME NEW j \in New(c) PROVE Newly(j, performed, performed')
  <2>1. c.do \in Gives /\ j = Field("id", r) ++ c.item
    BY DEF New
  <2>2. Spots(performed'[r], Gives) # {}
    BY <1>6, <2>1
  <2>3. Entry(c.item)
    BY <2>1 DEF Proper, Harmless
  <2>4. j.id = r /\ Has(j, "type") /\ At(j, "container", "") = At(c.item, "container", "")
    BY <2>1, <2>3 DEF Entry, Has, At, Field, ++
  <2>5. MayHold(sc.doc, At(c.item, "container", ""))
    BY <2>3 DEF Entry, Inv, Bounded
  <2>6. QED
    BY <2>1, <2>2, <2>4, <2>5 DEF Newly
<1>10. QED
  BY <1>1, <1>3, <1>4, <1>8, <1>9, KinStocked DEF Proper

\* What a request comes to ask for when it has read and decided.
LEMMA MovesToShelves ==
  ASSUME NEW doc, NEW done, Stocked(doc, done), NEW known, Embeds(known),
         \A i \in ToSet(known.items) : i.type = "container" => Shelf(doc, done, i.id),
         NEW details, NEW ac, NEW body, NEW c, Due(enrich(known, details, ac), body, c), Harmless(c)
  PROVE  Proper(doc, done, c)
<1>1. \A to : to = "" => Shelf(doc, done, to)
  BY OnNoShelf
<1>2. \A to : to \in ItemIds(known) /\ ItemOf(known, to).type = "container" => Shelf(doc, done, to)
  <2> SUFFICES ASSUME NEW to \in ItemIds(known), ItemOf(known, to).type = "container"
               PROVE  Shelf(doc, done, to)
    OBVIOUS
  <2>1. PICK i \in ToSet(known.items) : i.id = to
    BY DEF ItemIds
  <2>2. ItemOf(known, to) = i
    BY <2>1 DEF ItemOf, Embeds, DistinctIds
  <2>3. QED
    BY <2>1, <2>2
<1>3. PICK actor : actor = enrich(known, details, ac)
  OBVIOUS
<1>4. /\ Dnd!ItemIds(actor) = ItemIds(known)
      /\ \A id : Dnd!ItemOf(actor, id) = ItemOf(known, id)
  BY <1>3, Enriched
<1>5. Due(actor, body, c)
  BY <1>3
<1>6. ASSUME NEW to \in Put(c) PROVE Shelf(doc, done, to)
  <2>1. c.do = "updateItem" /\ "container" \in DOMAIN c.data /\ to = c.data["container"]
    BY <1>6 DEF Put, Has
  <2>2. \/ to = ""
        \/ to \in Dnd!ItemIds(actor) /\ Dnd!ItemOf(actor, to).type = "container"
    BY <1>5, <2>1 DEF Due, Roomy
  <2>3. CASE to = ""
    BY <1>1, <2>3
  <2>4. CASE to \in Dnd!ItemIds(actor) /\ Dnd!ItemOf(actor, to).type = "container"
    BY <1>2, <1>4, <2>4
  <2>5. QED
    BY <2>2, <2>3, <2>4
<1>7. QED
  BY <1>6 DEF Proper

LEMMA DecidesWell ==
  ASSUME Inv, WellKept, NEW r \in Requests, req[r].stage = "details", NEW details,
         Decision(r, enrich(req[r].known, details, sc.liveAc), req[r].body).code = 200
  PROVE  LET actor == enrich(req[r].known, details, sc.liveAc)
             todo == Decision(r, actor, req[r].body).todo
         IN /\ AllHarmless(todo) /\ AllDue(actor, req[r].body, todo)
            /\ \A k \in DOMAIN todo : Proper(world.doc, performed, todo[k])
<1> DEFINE actor == enrich(req[r].known, details, sc.liveAc)
           todo == Decision(r, actor, req[r].body).todo
<1>1. /\ Stocked(world.doc, performed) /\ Embeds(req[r].known)
      /\ \A i \in ToSet(req[r].known.items) : i.type = "container" => Shelf(world.doc, performed, i.id)
  BY DEF WellKept, Sees, Seen
<1>2. req[r].body.route \in {"intents", "actions", "items", "add", "remove"}
  BY DEF Inv, Orderly, Staged, Routes
<1>3. AllHarmless(todo) /\ AllDue(actor, req[r].body, todo)
  BY <1>2, DecisionsFit, DecisionsDue
<1>4. \A k \in DOMAIN todo : Harmless(todo[k]) /\ Due(actor, req[r].body, todo[k])
  BY <1>3 DEF AllHarmless, AllDue
<1> HIDE DEF todo
<1>5. \A k \in DOMAIN todo : Proper(world.doc, performed, todo[k])
  BY <1>1, <1>4, MovesToShelves
<1>6. QED
  BY <1>3, <1>5 DEF todo

LEMMA WellKeptStep == Inv /\ WellKept /\ [Next]_vars => WellKept'
<1> SUFFICES ASSUME Inv, WellKept, [Next]_vars PROVE WellKept'
  OBVIOUS
<1> DEFINE doc == world.doc
           done == performed
<1>1. /\ Stocked(doc, done) /\ (\A c \in late : Proper(doc, done, c))
      /\ \A q \in Requests : Sees(doc, done, req[q])
      /\ DOMAIN req = Requests
  BY DEF WellKept, Inv, Bounded
<1>a. sc' = sc
  BY DEF Next, vars, Receive, Decide, CallGoesWell, CallIsRefused, CallGoesWrong, EntryUnread, FreshRead,
         ExecuteLate, GmEdits
<1>b. /\ Stocked(world'.doc, performed')
      /\ \A c \in late' : Proper(world'.doc, performed', c)
      /\ \A q \in Requests : Sees(world'.doc, performed', req'[q])
      => WellKept'
  BY <1>a DEF WellKept, Stocked, Native
\* Where only a request moves on, it is to be looked at.
<1>2. ASSUME NEW r \in Requests, NEW q, Sees(doc, done, q), req' = [req EXCEPT ![r] = q],
             UNCHANGED <<world, late, performed>>
      PROVE  WellKept'
  <2>1. \A x \in Requests : Sees(doc, done, req'[x])
    BY <1>1, <1>2
  <2>2. QED
    BY <1>1, <1>2, <1>b, <2>1
<1>3. ASSUME NEW r \in Requests, Receive(r) PROVE WellKept'
  <2>1. UNCHANGED <<world, late, performed>>
    BY <1>3 DEF Receive, ghosts
  <2>2. \A body : Sees(doc, done, [Standing("call", body) EXCEPT !.todo = <<Roll(r, NoHeal)>>])
    BY DEF Roll, Sees, Seen, Calls, Proper, Harmless, Put, Standing, Gives
  <2>3. \A body, x : Sees(doc, done, [Standing("done", body) EXCEPT !.reply = x])
    BY DEF Standing, Sees, Seen, Calls
  <2>4. ASSUME NEW body PROVE Sees(doc, done, [Standing("details", body) EXCEPT !.known = world.doc])
    <3>1. Embeds(doc) /\ Typed(doc) /\ \A i \in ToSet(doc.items) : i.type = "container" => Shelf(doc, done, i.id)
      BY <1>1, OnNoShelf DEF Stocked, Stamped
    <3>2. PICK q : q = [Standing("details", body) EXCEPT !.known = world.doc]
      OBVIOUS
    <3>3. q.stage = "details" /\ q.known = doc
      BY <3>2 DEF Standing
    <3>4. QED
      BY <3>1, <3>2, <3>3 DEF Sees, Seen, Calls
  <2>5. PICK body :
          \/ req' = [req EXCEPT ![r] = [Standing("details", body) EXCEPT !.known = world.doc]]
          \/ req' = [req EXCEPT ![r] = [Standing("call", body) EXCEPT !.todo = <<Roll(r, NoHeal)>>]]
          \/ \E x : req' = [req EXCEPT ![r] = [Standing("done", body) EXCEPT !.reply = x]]
    BY <1>3 DEF Receive
  <2>6. CASE req' = [req EXCEPT ![r] = [Standing("details", body) EXCEPT !.known = world.doc]]
    <3>1. PICK q : q = [Standing("details", body) EXCEPT !.known = world.doc]
      OBVIOUS
    <3>2. QED
      BY <1>2, <2>1, <2>4, <2>6, <3>1
  <2>7. ASSUME NEW x, req' = [req EXCEPT ![r] = [Standing("done", body) EXCEPT !.reply = x]]
        PROVE  WellKept'
    <3>1. PICK q : q = [Standing("done", body) EXCEPT !.reply = x]
      OBVIOUS
    <3>2. QED
      BY <1>2, <2>1, <2>3, <2>7, <3>1
  <2>8. CASE req' = [req EXCEPT ![r] = [Standing("call", body) EXCEPT !.todo = <<Roll(r, NoHeal)>>]]
    <3>1. PICK q : q = [Standing("call", body) EXCEPT !.todo = <<Roll(r, NoHeal)>>]
      OBVIOUS
    <3>2. QED
      BY <1>2, <2>1, <2>2, <2>8, <3>1
  <2>9. QED
    BY <2>5, <2>6, <2>7, <2>8
<1>4. ASSUME NEW r \in Requests, Decide(r) PROVE WellKept'
  <2>1. PICK details : Act(r, Decision(r, enrich(req[r].known, details, sc.liveAc), req[r].body))
    BY <1>4 DEF Decide
  <2>2. req[r].stage = "details" /\ UNCHANGED <<world, late, performed>>
    BY <1>4 DEF Decide, ghosts
  <2> DEFINE d == Decision(r, enrich(req[r].known, details, sc.liveAc), req[r].body)
  <2>3. CASE d.code # 200
    <3>1. PICK q : q = [Standing("done", req[r].body) EXCEPT !.reply = d.code]
      OBVIOUS
    <3>2. req' = [req EXCEPT ![r] = q] /\ q.stage = "done"
      BY <1>1, <2>1, <2>3, <3>1 DEF Act, Reply, Standing
    <3>3. Sees(doc, done, q)
      BY <3>2 DEF Sees, Seen, Calls
    <3>4. QED
      BY <1>2, <2>2, <3>2, <3>3
  <2>4. CASE d.code = 200
    <3>1. \A k \in DOMAIN d.todo : Proper(world.doc, performed, d.todo[k])
      BY <2>2, <2>4, DecidesWell
    <3> DEFINE q == [Standing("call", req[r].body) EXCEPT !.known = req[r].known, !.todo = d.todo, !.gave = TRUE]
    <3>2. req' = [req EXCEPT ![r] = q]
      BY <1>1, <2>1, <2>4 DEF Act, Continue
    <3>3. q.todo = d.todo /\ q.stage = "call"
      BY DEF Standing
    <3> HIDE DEF q, d
    <3>4. Sees(doc, done, q)
      BY <3>1, <3>3 DEF Sees, Seen, Calls
    <3>5. QED
      BY <1>2, <2>2, <3>2, <3>4
  <2>5. QED
    BY <2>3, <2>4
<1>5. ASSUME NEW r \in Requests, EntryUnread(r) \/ FreshRead(r) PROVE WellKept'
  <2>1. PICK code : Reply(r, code)
    BY <1>5 DEF EntryUnread, FreshRead
  <2>2. PICK q : q = [Standing("done", req[r].body) EXCEPT !.reply = code]
    OBVIOUS
  <2>3. req' = [req EXCEPT ![r] = q] /\ q.stage = "done"
    BY <1>1, <2>1, <2>2 DEF Reply, Standing
  <2>4. UNCHANGED <<world, late, performed>>
    BY <1>5 DEF EntryUnread, FreshRead, ghosts
  <2>5. Sees(doc, done, q)
    BY <2>3 DEF Sees, Seen, Calls
  <2>6. QED
    BY <1>2, <2>3, <2>4, <2>5
\* A call is answered: what is left of the plan moves nothing any more.
<1>6. ASSUME NEW r \in Requests, req[r].stage = "call",
             Stocked(world'.doc, performed'), StillShelves(doc, done, world'.doc, performed'),
             NEW answer, NEW total, Answered(r, Head(req[r].todo), answer, total),
             late' = late \/ late' = late \cup {Head(req[r].todo)}
      PROVE  WellKept'
  <2>1. Proper(doc, done, Head(req[r].todo)) /\ AllHarmless(req[r].todo)
    <3>1. \A k \in DOMAIN req[r].todo : Proper(doc, done, req[r].todo[k])
      BY <1>1, <1>6 DEF Sees, Calls
    <3>2. Head(req[r].todo) = req[r].todo[1] /\ 1 \in DOMAIN req[r].todo
      BY <1>6, NextCall
    <3>3. QED
      BY <3>1, <3>2 DEF AllHarmless, Proper
  <2>2. /\ \A q \in Requests \ {r} : req'[q] = req[q]
        /\ req'[r].stage # "details"
        /\ req'[r].stage = "call" => AllLeft(r, Head(req[r].todo), total, req'[r].todo)
    BY <1>6, <2>1, AnswerLeaves
  <2>3. \A x : Left(r, Head(req[r].todo), total, x) => Proper(world'.doc, performed', x)
    <3> SUFFICES ASSUME NEW x, Left(r, Head(req[r].todo), total, x)
                 PROVE  Harmless(x) /\ x.do # "updateItem"
      BY DEF Proper, Put
    <3>1. \A heal : /\ HealUpdate(r, heal, total).do = "update"
                    /\ ~Has(HealUpdate(r, heal, total).update, "itemId")
      BY DEF HealUpdate, Has
    <3>2. CASE x.do = "roll"
      BY <3>2 DEF Harmless, Gives
    <3>3. CASE \E heal : x = HealUpdate(r, heal, total)
      BY <3>1, <3>3 DEF Harmless, Gives
    <3>4. QED
      BY <3>2, <3>3 DEF Left
  <2>4. \A q \in Requests \ {r} : Sees(world'.doc, performed', req'[q])
    BY <1>1, <1>6, <2>2, ShelvesKept
  <2>5. Sees(world'.doc, performed', req'[r])
    BY <2>2, <2>3 DEF Sees, Seen, Calls, AllLeft
  <2>6. \A c \in late' : Proper(world'.doc, performed', c)
    BY <1>1, <1>6, <2>1, ShelvesKept
  <2>7. QED
    BY <1>1, <1>6, <1>b, <2>4, <2>5, <2>6
\* What a call that is executed does, in time or late.
<1>7. ASSUME NEW r \in Requests, req[r].stage = "call", Possible(world, Head(req[r].todo)),
             NEW hit, Execute(Head(req[r].todo), hit)
      PROVE  Stocked(world'.doc, performed') /\ StillShelves(doc, done, world'.doc, performed')
  <2> DEFINE c == Head(req[r].todo)
  <2>1. c.by = r /\ c.do \in Dos /\ c = req[r].todo[1] /\ 1 \in DOMAIN req[r].todo
    BY <1>7, NextCall
  <2>2. Proper(doc, done, c)
    BY <1>1, <1>7, <2>1 DEF Sees, Calls
  <2>3. c.do \in Gives => Spots(performed[r], Gives) = {}
    BY <1>7, <2>1 DEF Inv, Orderly, Called, Gives, Pristine, Unspent, Spots
  <2>4. world' = Executed(world, c, hit) /\ performed' = [performed EXCEPT ![r] = Append(@, c.do)]
    BY <1>7, <2>1 DEF Execute
  <2> HIDE DEF c
  <2>5. QED
    BY <1>7, <2>1, <2>2, <2>3, <2>4, ExecutedStock DEF c
<1>8. UNCHANGED <<world, performed>> =>
        Stocked(world'.doc, performed') /\ StillShelves(doc, done, world'.doc, performed')
  BY <1>1 DEF StillShelves
<1>9. ASSUME NEW r \in Requests, CallGoesWell(r) PROVE WellKept'
  <2>1. PICK hit, total : /\ Possible(world, Head(req[r].todo)) /\ Execute(Head(req[r].todo), hit)
                          /\ Answered(r, Head(req[r].todo), "ok", total)
                          /\ req[r].stage = "call" /\ late' = late
    BY <1>9 DEF CallGoesWell
  <2>2. QED
    BY <1>6, <1>7, <2>1
<1>10. ASSUME NEW r \in Requests, CallIsRefused(r) PROVE WellKept'
  <2>1. PICK answer : /\ Answered(r, Head(req[r].todo), answer, NoNumber)
                      /\ req[r].stage = "call" /\ late' = late /\ UNCHANGED <<world, performed>>
    BY <1>10 DEF CallIsRefused, NotExecuted
  <2>2. QED
    BY <1>6, <1>8, <2>1
<1>11. ASSUME NEW r \in Requests, CallGoesWrong(r) PROVE WellKept'
  <2> DEFINE c == Head(req[r].todo)
  <2>1. PICK m : /\ IF m[2] THEN Possible(world, c) /\ Execute(c, {}) ELSE NotExecuted
                 /\ late' = IF m = <<"timeout", FALSE>> THEN late \cup {c} ELSE late
                 /\ Answered(r, c, m[1], NoNumber)
    BY <1>11 DEF CallGoesWrong
  <2>2. req[r].stage = "call"
    BY <1>11 DEF CallGoesWrong
  <2>3. Stocked(world'.doc, performed') /\ StillShelves(doc, done, world'.doc, performed')
    <3>1. CASE m[2]
      BY <1>7, <2>1, <2>2, <3>1
    <3>2. CASE ~m[2]
      BY <1>8, <2>1, <3>2 DEF NotExecuted
    <3>3. QED
      BY <3>1, <3>2
  <2>4. late' = late \/ late' = late \cup {c}
    BY <2>1
  <2>5. QED
    BY <1>6, <2>1, <2>2, <2>3, <2>4
<1>12. ASSUME NEW c \in late, ExecuteLate(c) PROVE WellKept'
  <2>1. c.by \in Requests /\ c.do \in Dos /\ Proper(doc, done, c)
    BY <1>1 DEF Inv, Bounded
  <2>2. req' = req /\ late' \subseteq late
    BY <1>12 DEF ExecuteLate
  <2>3. Stocked(world'.doc, performed') /\ StillShelves(doc, done, world'.doc, performed')
    <3>1. CASE Possible(world, c)
      <4>1. PICK hit : /\ world' = Executed(world, c, hit)
                       /\ performed' = [performed EXCEPT ![c.by] = Append(@, c.do)]
        BY <1>12, <3>1 DEF ExecuteLate
      <4>2. c.do \in Gives => Spots(performed[c.by], Gives) = {}
        BY <2>1 DEF Inv, Orderly, Once, LateOf
      <4>3. QED
        BY <2>1, <3>1, <4>1, <4>2, ExecutedStock
    <3>2. CASE ~Possible(world, c)
      BY <1>8, <1>12, <3>2 DEF ExecuteLate
    <3>3. QED
      BY <3>1, <3>2
  <2>4. (\A q \in Requests : Sees(world'.doc, performed', req'[q])) /\ \A x \in late' : Proper(world'.doc, performed', x)
    BY <1>1, <2>2, <2>3, ShelvesKept
  <2>5. QED
    BY <1>b, <2>3, <2>4
<1>13. ASSUME NEW u \in sc.edits, GmEdits(u) PROVE WellKept'
  <2>1. Has(u, "itemId") => ~Has(u.data, "id") /\ ~Has(u.data, "type") /\ MayHold(sc.doc, At(u.data, "container", ""))
    BY WritesAssumption DEF Inv, Bounded
  <2>2. world' = [world EXCEPT !.doc = Applied(@, u)] /\ UNCHANGED <<req, late, performed>>
    BY <1>13 DEF GmEdits, ghosts
  <2>3. world'.doc = Applied(world.doc, u)
    BY <2>2 DEF Inv, Bounded
  <2> DEFINE put == {At(u.data, "container", "")}
  <2>4. CASE Has(u, "itemId")
    <3>1. \A to \in put : Shelf(doc, done, to)
      BY <1>1, <2>1, <2>4, OnNoShelf
    <3>2. Kin(Applied(world.doc, u), world.doc, put, {})
      <4>1. DOMAIN u.data \cap Marks = {}
        BY <2>1, <2>4 DEF Has, Marks
      <4>2. Has(u.data, "container") => u.data["container"] \in put
        BY DEF Has, At
      <4> HIDE DEF put
      <4>3. QED
        BY <1>1, <4>1, <4>2, KinApplied DEF Stocked, Stamped
    <3> HIDE DEF put
    <3>3. Stocked(world'.doc, performed') /\ StillShelves(doc, done, world'.doc, performed')
      BY <1>1, <2>2, <2>3, <3>1, <3>2, KinStocked
    <3>4. QED
      BY <1>1, <1>b, <2>2, <3>3, ShelvesKept
  <2>5. CASE ~Has(u, "itemId")
    <3>1. Kin(Applied(world.doc, u), world.doc, {}, {})
      BY <1>1, <2>5, KinApplied DEF Stocked, Stamped
    <3>2. Stocked(world'.doc, performed') /\ StillShelves(doc, done, world'.doc, performed')
      BY <1>1, <2>2, <2>3, <3>1, KinStocked
    <3>3. QED
      BY <1>1, <1>b, <2>2, <3>2, ShelvesKept
  <2>6. QED
    BY <2>4, <2>5
<1>14. CASE UNCHANGED vars
  BY <1>1, <1>b, <1>14 DEF vars
<1>15. QED
  BY <1>3, <1>4, <1>5, <1>9, <1>10, <1>11, <1>12, <1>13, <1>14 DEF Next

LEMMA WellKeptAlways == Spec => []WellKept
  BY InvInit, InvStep, WellKeptInit, WellKeptStep, PTL DEF Spec

-----------------------------------------------------------------------------
(* The inventory of a sheet that is well stocked.                          *)

\* In a list of some items of a sheet each has a row, and no other item has.
LEMMA RowsOfItems ==
  ASSUME NEW doc, Embeds(doc), NEW items, items \subseteq Dnd!physicalItems(doc),
         NEW i \in Dnd!physicalItems(doc)
  PROVE  (\E row \in Dnd!RowsOf(doc, items) : row.id = i.id) <=> i \in items
<1>1. \A k : Dnd!inventoryListItem(doc, k).id = k.id
  BY DEF Dnd!inventoryListItem
<1>2. Dnd!physicalItems(doc) \subseteq ToSet(doc.items)
  BY DEF Dnd!physicalItems, Dnd!ItemsOf, Dnd!ToSet, ToSet
<1>3. \A k \in items : k.id = i.id => k = i
  BY <1>2 DEF Embeds, DistinctIds
<1>4. QED
  BY <1>1, <1>3 DEF Dnd!RowsOf

\* The lists of an inventory by the place each is of.
LEMMA ListsOf ==
  ASSUME NEW doc
  PROVE  LET view == Dnd!inventory(doc)
             containers == Dnd!ItemsOf(doc, {"container"})
         IN /\ view.carried = Dnd!RowsOf(doc, Dnd!LyingAt(doc, "") \ containers)
            /\ \A s \in view.sections : \E c \in containers :
                 s.header.id = c.id /\ s.items = Dnd!RowsOf(doc, Dnd!LyingAt(doc, c.id))
            /\ \A c \in containers : \E s \in view.sections :
                 s.header.id = c.id /\ s.items = Dnd!RowsOf(doc, Dnd!LyingAt(doc, c.id))
<1> DEFINE view == Dnd!inventory(doc)
           containers == Dnd!ItemsOf(doc, {"container"})
<1>1. \A c : LET s == Dnd!ContainerSection(doc, c)
             IN s.header.id = c.id /\ s.items = Dnd!RowsOf(doc, Dnd!LyingAt(doc, c.id))
  BY DEF Dnd!ContainerSection, Dnd!inventoryListItem
<1>2. /\ view.carried = Dnd!RowsOf(doc, Dnd!LyingAt(doc, "") \ containers)
      /\ view.sections = {Dnd!ContainerSection(doc, c) : c \in containers}
  BY DEF Dnd!inventory
<1> HIDE DEF view, containers
<1>3. \A s \in view.sections : \E c \in containers :
        s.header.id = c.id /\ s.items = Dnd!RowsOf(doc, Dnd!LyingAt(doc, c.id))
  BY <1>1, <1>2
<1>4. \A c \in containers : \E s \in view.sections :
        s.header.id = c.id /\ s.items = Dnd!RowsOf(doc, Dnd!LyingAt(doc, c.id))
  BY <1>1, <1>2
<1>5. QED
  BY <1>2, <1>3, <1>4 DEF view, containers

LEMMA StockIsShown ==
  ASSUME NEW doc, NEW done, Stocked(doc, done)
  PROVE  LET view == Dnd!inventory(doc)
             lists == {<<"", view.carried>>} \cup {<<s.header.id, s.items>> : s \in view.sections}
             Where(i) == {l \in lists : \E row \in l[2] : row.id = i.id}
         IN \A i \in Dnd!physicalItems(doc) :
              IF i.type = "container" /\ Dnd!locationOf(doc, i) = ""
              THEN Where(i) = {} /\ \E s \in view.sections : s.header.id = i.id
              ELSE \E l \in lists : Where(i) = {l}
<1> DEFINE view == Dnd!inventory(doc)
           containers == Dnd!ItemsOf(doc, {"container"})
           lists == {<<"", view.carried>>} \cup {<<s.header.id, s.items>> : s \in view.sections}
           Place(c) == Dnd!locationOf(doc, c)
           In(place) == Dnd!LyingAt(doc, place)
           Stack(place) == Dnd!RowsOf(doc, In(place))
           Where(i) == {l \in lists : \E row \in l[2] : row.id = i.id}
<1>1. PICK none : none = ""
  OBVIOUS
<1>2. Embeds(doc) /\ none \notin ItemIds(doc)
  BY <1>1 DEF Stocked, Stamped
<1>3. /\ Dnd!physicalItems(doc) \subseteq ToSet(doc.items)
      /\ containers = {c \in ToSet(doc.items) : c.type = "container"}
      /\ containers \subseteq Dnd!physicalItems(doc)
      /\ \A i \in ToSet(doc.items) : i.id \in ItemIds(doc)
  BY DEF Dnd!physicalItems, Dnd!ItemsOf, Dnd!ToSet, ToSet, Dnd!PHYSICAL_ITEM_TYPES, ItemIds
<1>4. \A place : In(place) = {i \in Dnd!physicalItems(doc) : Place(i) = place}
  BY DEF Dnd!LyingAt
\* A place is none, or the container of that id.
<1>5. ASSUME NEW i \in Dnd!physicalItems(doc), Place(i) # none
      PROVE  \E c \in containers : c.id = Place(i)
  <2> DEFINE to == Dnd!At(i, "container", "")
  <2>1. Place(i) = to /\ to \in Dnd!physicalIds(doc)
    BY <1>1, <1>5 DEF Dnd!locationOf
  <2>2. PICK c \in Dnd!physicalItems(doc) : c.id = to
    BY <2>1 DEF Dnd!physicalIds
  <2>3. to = At(i, "container", "")
    BY DEF At, Dnd!At
  <2>4. c.type = "container"
    BY <1>3, <2>2, <2>3 DEF Stocked, Shelf
  <2>5. QED
    BY <1>3, <2>1, <2>2, <2>4
<1>6. /\ view.carried = Dnd!RowsOf(doc, In(none) \ containers)
      /\ \A s \in view.sections : \E c \in containers : s.header.id = c.id /\ s.items = Stack(c.id)
      /\ \A c \in containers : \E s \in view.sections : s.header.id = c.id /\ s.items = Stack(c.id)
  BY <1>1, ListsOf
<1> HIDE DEF view, containers, Place, In
<1>7. /\ \A l \in lists : l = <<none, view.carried>> \/ \E c \in containers : l = <<c.id, Stack(c.id)>>
      /\ <<none, view.carried>> \in lists /\ \A c \in containers : <<c.id, Stack(c.id)>> \in lists
  BY <1>1, <1>6
<1> HIDE DEF lists
<1>8. ASSUME NEW i \in Dnd!physicalItems(doc)
      PROVE  /\ (\E row \in view.carried : row.id = i.id) <=> Place(i) = none /\ i \notin containers
             /\ \A place : (\E row \in Stack(place) : row.id = i.id) <=> Place(i) = place
  <2>1. In(none) \ containers \subseteq Dnd!physicalItems(doc) /\ \A place : In(place) \subseteq Dnd!physicalItems(doc)
    BY <1>4
  <2>2. (\E row \in view.carried : row.id = i.id) <=> i \in In(none) \ containers
    BY <1>2, <1>6, <2>1, RowsOfItems
  <2>3. \A place : (\E row \in Stack(place) : row.id = i.id) <=> i \in In(place)
    BY <1>2, <2>1, RowsOfItems
  <2>4. QED
    BY <1>4, <2>2, <2>3
<1> HIDE DEF Stack
<1>9. \A c \in containers : c.id # none
  BY <1>2, <1>3
<1>10. \A c \in containers : <<c.id, Stack(c.id)>>[2] = Stack(c.id) /\ <<none, view.carried>>[2] = view.carried
  OBVIOUS
<1>11. ASSUME NEW i \in Dnd!physicalItems(doc)
       PROVE  IF i.type = "container" /\ Place(i) = none
              THEN Where(i) = {} /\ \E s \in view.sections : s.header.id = i.id
              ELSE \E l \in lists : Where(i) = {l}
  <2>1. /\ \A c \in containers : <<c.id, Stack(c.id)>> \in Where(i) <=> Place(i) = c.id
        /\ <<none, view.carried>> \in Where(i) <=> Place(i) = none /\ i \notin containers
    BY <1>7, <1>8, <1>10
  <2>2. Where(i) \subseteq lists
    OBVIOUS
  <2> HIDE DEF Where
  <2>3. CASE i \in containers /\ Place(i) = none
    <3>1. Where(i) = {}
      BY <1>7, <1>9, <2>1, <2>2, <2>3
    <3>2. \E s \in view.sections : s.header.id = i.id
      BY <1>6, <2>3
    <3>3. i.type = "container"
      BY <1>3, <2>3
    <3>4. QED
      BY <2>3, <3>1, <3>2, <3>3
  <2>4. CASE i \notin containers /\ Place(i) = none
    <3>1. PICK l : l = <<none, view.carried>>
      OBVIOUS
    <3>2. Where(i) = {l} /\ l \in lists
      BY <1>7, <1>9, <2>1, <2>2, <2>4, <3>1
    <3>3. i.type # "container"
      BY <1>3, <2>4
    <3>4. QED
      BY <3>2, <3>3
  <2>5. CASE Place(i) # none
    <3>1. PICK c \in containers : c.id = Place(i)
      BY <1>5, <2>5
    <3>2. PICK l : l = <<c.id, Stack(c.id)>>
      OBVIOUS
    <3>3. l \in Where(i) /\ l \in lists
      BY <1>7, <2>1, <3>1, <3>2
    <3>4. ASSUME NEW k \in Where(i) PROVE k = l
      <4>1. CASE k = <<none, view.carried>>
        BY <2>1, <2>5, <4>1
      <4>2. CASE \E x \in containers : k = <<x.id, Stack(x.id)>>
        <5>1. PICK x \in containers : k = <<x.id, Stack(x.id)>>
          BY <4>2
        <5>2. x.id = c.id
          BY <2>1, <3>1, <5>1
        <5>3. QED
          BY <3>2, <5>1, <5>2
      <4>3. QED
        BY <1>7, <2>2, <4>1, <4>2
    <3>5. Where(i) = {l}
      BY <3>3, <3>4
    <3>6. QED
      BY <2>5, <3>3, <3>5
  <2>6. QED
    BY <2>3, <2>4, <2>5
<1>12. QED
  BY <1>1, <1>11 DEF view, lists, Where, Place

(***************************************************************************)
(* However items are moved, given and deleted, by requests that overlap,   *)
(* time out and come late, and by the GM, between requests the inventory   *)
(* shows each physical item exactly once: what is lain in is a container   *)
(* and stays one as long as it is there.                                   *)
(***************************************************************************)
THEOREM NothingIsLost == Spec => []ShownOnce
<1>1. WellKept => ShownOnce
  <2> SUFFICES ASSUME WellKept, world.doc.systemId = "dnd5e" PROVE ShownOnce
    BY DEF ShownOnce
  <2>1. Stocked(world.doc, performed)
    BY DEF WellKept
  <2>2. QED
    BY <2>1, StockIsShown DEF ShownOnce
<1>2. QED
  BY <1>1, WellKeptAlways, PTL

(***************************************************************************)
(* Whatever the requests and the GM have done, between requests a sheet    *)
(* honours what it offers: every action it lists is accepted with the      *)
(* parameters it allows, unless excused, and every stat rolls the bonus it *)
(* shows (the actions route against the character view).                   *)
(***************************************************************************)
THEOREM SheetsAreHonoured == Spec => []OffersAreHonoured
<1>1. WellKept => OffersAreHonoured
  <2> SUFFICES ASSUME WellKept, world.doc.systemId = "dnd5e" PROVE OffersAreHonoured
    BY DEF OffersAreHonoured
  <2> DEFINE actor == Character
  <2>1. Embeds(world.doc)
    BY DEF WellKept, Stocked, Stamped
  <2>2. Embeds(actor) /\ actor.systemId = "dnd5e"
    BY <2>1, Enriched DEF Character
  <2>3. DistinctIds(actor)
    BY <2>2 DEF Embeds
  <2> HIDE DEF actor
  <2>4. \A a \in actions(actor) : \A x \in Taps(a) : Excused(actor, a) \/ ~Refused(buildAction(actor, x, a))
    BY <2>2, <2>3, OffersAreAccepted
  <2>5. \A s \in toViewModel(actor).stats : \E a \in actions(actor) :
          a.id = s.actionId /\ buildAction(actor, Tap(a), a).formula.bonus = s.value
    BY <2>2, StatsAreRolled
  <2>6. QED
    BY <2>4, <2>5 DEF OffersAreHonoured, actor
<1>2. QED
  BY <1>1, WellKeptAlways, PTL

-----------------------------------------------------------------------------
(* A sheet that makes sense, and stays one.                                *)

HpFit(sys) == HitPointsSound(sys) /\ Whole(sys, HitPoints)
TracksFit(sys) == BoxesSound(sys) /\ Whole(sys, Tracks)
SlotFields == {"value", "max", "override"}
SlotsFit(sys, derived) ==
  /\ SlotsSound(sys, derived) /\ Whole(sys, SlotPaths(SlotFields))
  /\ \A p \in Dnd!SlotPools : \A f \in {"max", "override"} :
       Has(sys, Dnd!SlotPath(p, f)) /\ Has(derived, Dnd!SlotPath(p, "max")) =>
         sys[Dnd!SlotPath(p, f)] <= derived[Dnd!SlotPath(p, "max")]
ItemFit(i) == Whole(i, ItemCounters) /\ ItemSound(i)
SheetFit(sys, derived) == HpFit(sys) /\ TracksFit(sys) /\ SlotsFit(sys, derived)
GoodsFit(doc) == (\A i \in ToSet(doc.items) : ItemFit(i)) /\ Acyclic(doc)
Fit(doc, derived) == SheetFit(doc.sys, derived) /\ GoodsFit(doc)

LEMMA FitIsSound ==
  ASSUME NEW doc, NEW derived
  PROVE  Fit(doc, derived) <=> Sound(doc, derived) /\ Countable(doc, derived)
<1>1. Whole(doc.sys, SheetCounters) <=>
        Whole(doc.sys, HitPoints) /\ Whole(doc.sys, Tracks) /\ Whole(doc.sys, SlotPaths(SlotFields))
  BY DEF Whole, SheetCounters, SlotFields
<1>2. QED
  BY <1>1 DEF Fit, SheetFit, GoodsFit, HpFit, TracksFit, SlotsFit, ItemFit, Sound, Countable

\* The three kinds of counters of a sheet.
LEMMA PathsApart ==
  /\ HitPoints \cap Tracks = {} /\ HitPoints \cap SlotPaths(SlotFields) = {}
  /\ Tracks \cap SlotPaths(SlotFields) = {}
  /\ SheetCounters = HitPoints \cup Tracks \cup SlotPaths(SlotFields)
  /\ \A f \in {"value", "max", "temp"} : Dnd!HpPath(f) \in HitPoints
  /\ \A p \in Dnd!SlotPools : \A f \in SlotFields : Dnd!SlotPath(p, f) \in SlotPaths(SlotFields)
  /\ \A t \in {"health", "willpower"} : \A k \in {"superficial", "aggravated", "max"} :
       Vampire!Box(t, k) \in Tracks
<1>1. \A f, g, h : Dnd!HpPath(f) # Vampire!Box(g, h)
  BY DEF Dnd!HpPath, Vampire!Box
<1>2. \A f, g, h : Dnd!HpPath(f) # Dnd!SlotPath(g, h)
  BY DEF Dnd!HpPath, Dnd!SlotPath
<1>3. \A f, g, h, k : Vampire!Box(f, k) # Dnd!SlotPath(g, h)
  BY DEF Dnd!SlotPath, Vampire!Box
<1>4. HitPoints \cap Tracks = {}
  BY <1>1 DEF HitPoints, Tracks
<1>5. HitPoints \cap SlotPaths(SlotFields) = {}
  BY <1>2 DEF HitPoints, SlotPaths
<1>6. Tracks \cap SlotPaths(SlotFields) = {}
  BY <1>3 DEF Tracks, SlotPaths
<1>7. \A f \in {"value", "max", "temp"} : Dnd!HpPath(f) \in HitPoints
  BY DEF HitPoints
<1>8. \A p \in Dnd!SlotPools : \A f \in SlotFields : Dnd!SlotPath(p, f) \in SlotPaths(SlotFields)
  BY DEF SlotPaths
<1>9. \A t \in {"health", "willpower"} : \A k \in {"superficial", "aggravated", "max"} :
       Vampire!Box(t, k) \in Tracks
  BY DEF Tracks
<1>10. QED
  BY <1>4, <1>5, <1>6, <1>7, <1>8, <1>9 DEF SheetCounters, SlotFields

\* What is as it was on the paths that are counted is as sound as it was.
Alike(a, b, paths) ==
  \A p \in paths : (Has(a, p) <=> Has(b, p)) /\ (Has(a, p) => a[p] = b[p])

LEMMA AlikeFits ==
  ASSUME NEW a, NEW b
  PROVE  /\ Alike(a, b, HitPoints) /\ HpFit(a) => HpFit(b)
         /\ Alike(a, b, Tracks) /\ TracksFit(a) => TracksFit(b)
         /\ \A derived : Alike(a, b, SlotPaths(SlotFields)) /\ SlotsFit(a, derived) => SlotsFit(b, derived)
<1>1. \A paths : Alike(a, b, paths) => (Whole(a, paths) => Whole(b, paths))
                                       /\ \A p \in paths : \A x : At(b, p, x) = At(a, p, x) /\ Dnd!At(b, p, x) = Dnd!At(a, p, x)
  BY DEF Alike, Whole, At, Dnd!At, Has
<1>2. Alike(a, b, HitPoints) /\ HpFit(a) => HpFit(b)
  BY <1>1, PathsApart DEF HpFit, HitPointsSound
<1>3. Alike(a, b, Tracks) /\ TracksFit(a) => TracksFit(b)
  BY <1>1, PathsApart DEF TracksFit, BoxesSound
<1>4. ASSUME NEW derived, Alike(a, b, SlotPaths(SlotFields)), SlotsFit(a, derived) PROVE SlotsFit(b, derived)
  <2>1. \A p \in Dnd!SlotPools : Dnd!SlotValue(b, p) = Dnd!SlotValue(a, p)
    BY <1>1, <1>4, PathsApart DEF Dnd!SlotValue, SlotFields
  <2>2. SlotsSound(b, derived)
    BY <1>4, <2>1 DEF SlotsFit, SlotsSound
  <2>3. ASSUME NEW p \in Dnd!SlotPools, NEW f \in {"max", "override"},
               Has(b, Dnd!SlotPath(p, f)), Has(derived, Dnd!SlotPath(p, "max"))
        PROVE  b[Dnd!SlotPath(p, f)] <= derived[Dnd!SlotPath(p, "max")]
    <3>1. Dnd!SlotPath(p, f) \in SlotPaths(SlotFields)
      BY PathsApart DEF SlotFields
    <3>2. QED
      BY <1>4, <2>3, <3>1 DEF Alike, SlotsFit
  <2>4. QED
    BY <1>1, <1>4, <2>2, <2>3 DEF SlotsFit
<1>5. QED
  BY <1>2, <1>3, <1>4

\* An update of the sheet itself, of one kind of counters or of none.
LEMMA FitSheet ==
  ASSUME NEW sys, NEW derived, SheetFit(sys, derived), NEW data
  PROVE  /\ DOMAIN data \cap SheetCounters = {} => SheetFit(data ++ sys, derived)
         /\ DOMAIN data \subseteq HitPoints /\ HpFit(data ++ sys) => SheetFit(data ++ sys, derived)
         /\ DOMAIN data \subseteq Tracks /\ TracksFit(data ++ sys) => SheetFit(data ++ sys, derived)
         /\ DOMAIN data \subseteq SlotPaths(SlotFields) /\ SlotsFit(data ++ sys, derived)
              => SheetFit(data ++ sys, derived)
<1>1. \A paths : DOMAIN data \cap paths = {} => Alike(sys, data ++ sys, paths)
  BY DEF Alike, Has, ++
<1>2. /\ DOMAIN data \cap HitPoints = {} => HpFit(data ++ sys)
      /\ DOMAIN data \cap Tracks = {} => TracksFit(data ++ sys)
      /\ DOMAIN data \cap SlotPaths(SlotFields) = {} => SlotsFit(data ++ sys, derived)
  BY <1>1, AlikeFits DEF SheetFit
<1>3. DOMAIN data \cap SheetCounters = {} =>
        /\ DOMAIN data \cap HitPoints = {} /\ DOMAIN data \cap Tracks = {}
        /\ DOMAIN data \cap SlotPaths(SlotFields) = {}
  BY PathsApart
<1>4. DOMAIN data \subseteq HitPoints => DOMAIN data \cap Tracks = {} /\ DOMAIN data \cap SlotPaths(SlotFields) = {}
  BY PathsApart
<1>5. DOMAIN data \subseteq Tracks => DOMAIN data \cap HitPoints = {} /\ DOMAIN data \cap SlotPaths(SlotFields) = {}
  BY PathsApart
<1>6. DOMAIN data \subseteq SlotPaths(SlotFields) => DOMAIN data \cap HitPoints = {} /\ DOMAIN data \cap Tracks = {}
  BY PathsApart
<1>7. QED
  BY <1>2, <1>3, <1>4, <1>5, <1>6 DEF SheetFit

\* An item that is written to where nothing of it is counted.
LEMMA ItemSpared ==
  ASSUME NEW i, ItemFit(i), Has(i, "type"), NEW data, DOMAIN data \cap ({"type"} \cup ItemCounters) = {}
  PROVE  ItemFit(data ++ i)
<1> DEFINE j == data ++ i
           paths == {"type"} \cup ItemCounters
<1>1. \A p \in paths : (p \in DOMAIN j <=> p \in DOMAIN i) /\ (p \in DOMAIN i => j[p] = i[p])
  <2>1. \A p \in paths : p \notin DOMAIN data
    OBVIOUS
  <2> HIDE DEF paths
  <2>2. QED
    BY <2>1 DEF ++
<1>2. {"uses.max", "uses.spent", "levels", "hd.spent", "type"} \subseteq paths /\ ItemCounters \subseteq paths
  BY DEF ItemCounters
<1> HIDE DEF paths, j
<1>3. j.type = i.type
  BY <1>1, <1>2 DEF Has
<1>4. Whole(j, ItemCounters)
  BY <1>1, <1>2 DEF Whole, ItemFit
<1>5. /\ \A x : /\ Dnd!At(j, "uses.max", x) = Dnd!At(i, "uses.max", x)
                /\ At(j, "uses.spent", x) = At(i, "uses.spent", x)
                /\ Dnd!At(j, "levels", x) = Dnd!At(i, "levels", x)
                /\ Dnd!At(j, "hd.spent", x) = Dnd!At(i, "hd.spent", x)
      /\ "uses.max" \in DOMAIN i => j["uses.max"] = i["uses.max"]
  BY <1>1, <1>2 DEF At, Dnd!At
<1>6. Dnd!HasUses(i) => "uses.max" \in DOMAIN i
  <2>1. "uses.max" \notin DOMAIN i => Dnd!At(i, "uses.max", 0) = 0
    BY DEF Dnd!At
  <2>2. QED
    BY <2>1 DEF Dnd!HasUses
<1>7. ItemSound(j)
  BY <1>3, <1>5, <1>6 DEF ItemFit, ItemSound, Dnd!HasUses, Dnd!Used, Dnd!Levels
<1>8. QED
  BY <1>4, <1>7 DEF ItemFit, j

-----------------------------------------------------------------------------
(* No container in its own contents.                                       *)

LEMMA ParentIs ==
  ASSUME NEW doc, Embeds(doc), NEW i \in ToSet(doc.items)
  PROVE  Dnd!Parent(doc, i.id) = At(i, "container", "") /\ i.id \in ItemIds(doc)
<1>1. i.id \in ItemIds(doc)
  BY DEF ItemIds
<1>2. Dnd!ItemIds(doc) = ItemIds(doc)
  BY DEF Dnd!ItemIds, ItemIds, Dnd!ToSet, ToSet
<1>3. Dnd!ItemOf(doc, i.id) = i
  BY DEF Dnd!ItemOf, Dnd!ToSet, ToSet, Embeds, DistinctIds
<1>4. QED
  BY <1>1, <1>2, <1>3 DEF Dnd!Parent, Dnd!At, At

\* Fewer items that lie in others, each where it lay.
LEMMA AcyclicFewer ==
  ASSUME NEW doc, Acyclic(doc), NEW v, Lodged(v) \subseteq Lodged(doc),
         \A id \in Lodged(v) : Dnd!Parent(v, id) = Dnd!Parent(doc, id)
  PROVE  Acyclic(v)
BY DEF Acyclic

LEMMA AcyclicAlike ==
  ASSUME NEW doc, Embeds(doc), Acyclic(doc), NEW v, Embeds(v), ItemIds(v) \subseteq ItemIds(doc),
         \A j \in ToSet(v.items) : \E i \in ToSet(doc.items) :
           i.id = j.id /\ At(j, "container", "") = At(i, "container", "")
  PROVE  Acyclic(v)
<1>1. ASSUME NEW id \in ItemIds(v) PROVE Dnd!Parent(v, id) = Dnd!Parent(doc, id)
  <2>1. PICK j \in ToSet(v.items) : j.id = id
    BY DEF ItemIds
  <2>2. PICK i \in ToSet(doc.items) : i.id = j.id /\ At(j, "container", "") = At(i, "container", "")
    OBVIOUS
  <2>3. QED
    BY <2>1, <2>2, ParentIs
<1>2. Lodged(v) \subseteq Lodged(doc) /\ Lodged(v) \subseteq ItemIds(v)
  BY <1>1 DEF Lodged
<1>3. QED
  BY <1>1, <1>2, AcyclicFewer

\* A new item, which nothing lies in yet.
LEMMA AcyclicGiven ==
  ASSUME NEW doc, Embeds(doc), Acyclic(doc), NEW id, id \notin ItemIds(doc),
         \A i \in ToSet(doc.items) : At(i, "container", "") # id,
         NEW v, Embeds(v), NEW new, new.id = id, At(new, "container", "") # id,
         ToSet(v.items) = ToSet(doc.items) \cup {new}
  PROVE  Acyclic(v)
<1>1. ItemIds(v) = ItemIds(doc) \cup {id} /\ new \in ToSet(v.items)
  BY DEF ItemIds
<1>3. Dnd!Parent(v, id) # id
  BY <1>1, ParentIs
<1>4. ASSUME NEW k \in ItemIds(doc)
      PROVE  Dnd!Parent(v, k) = Dnd!Parent(doc, k) /\ Dnd!Parent(doc, k) # id
  <2>1. PICK i \in ToSet(doc.items) : i.id = k
    BY DEF ItemIds
  <2>2. Dnd!Parent(doc, k) = At(i, "container", "") /\ Dnd!Parent(v, k) = At(i, "container", "")
    BY <2>1, ParentIs
  <2>3. QED
    BY <2>2
<1>5. Lodged(v) \ {id} \subseteq Lodged(doc)
  BY <1>1, <1>4 DEF Lodged
<1>6. Lodged(doc) \subseteq ItemIds(doc)
  BY DEF Lodged
<1>7. ASSUME NEW S \in SUBSET Lodged(v), S # {} PROVE \E k \in S : Dnd!Parent(v, k) \notin S
  <2>1. CASE S = {id}
    BY <1>3, <2>1
  <2>2. CASE S # {id}
    <3>1. S \ {id} \in SUBSET Lodged(doc) /\ S \ {id} # {}
      BY <1>5, <1>7, <2>2
    <3>2. PICK k \in S \ {id} : Dnd!Parent(doc, k) \notin S \ {id}
      BY <3>1 DEF Acyclic
    <3>3. Dnd!Parent(v, k) = Dnd!Parent(doc, k) /\ Dnd!Parent(doc, k) # id
      BY <1>4, <1>6, <3>1, <3>2
    <3>4. QED
      BY <3>2, <3>3
  <2>3. QED
    BY <2>1, <2>2
<1>8. QED
  BY <1>7 DEF Acyclic

\* An item that is moved to where the walk up does not come by it.
LEMMA AcyclicMoved ==
  ASSUME NEW doc, Embeds(doc), Acyclic(doc), NEW id, NEW data, ~Has(data, "id"), Has(data, "container"),
         \/ data["container"] \notin ItemIds(doc)
         \/ id \notin Dnd!Above(doc, data["container"])
  PROVE  Acyclic(OnItem(doc, id, data))
<1> DEFINE v == OnItem(doc, id, data)
           to == data["container"]
<1>1. /\ Embeds(v) /\ ItemIds(v) = ItemIds(doc)
      /\ \A j : j \in ToSet(v.items) <=> \E i \in ToSet(doc.items) : j = Touched(i, id, data)
  <2>1. v = OnItem(doc, id, data)
    OBVIOUS
  <2> HIDE DEF v
  <2>2. QED
    BY <2>1, EmbedsOnItem
<1>2. \A i \in ToSet(doc.items) :
        LET j == Touched(i, id, data)
        IN j.id = i.id /\ At(j, "container", "") = IF i.id = id THEN to ELSE At(i, "container", "")
  <2>1. ASSUME NEW i \in ToSet(doc.items), i.id = id
        PROVE  (data ++ i).id = i.id /\ At(data ++ i, "container", "") = to
    BY <2>1 DEF Embeds, Has, ++, At
  <2>2. QED
    BY <2>1 DEF Touched
<1> HIDE DEF v
<1>3. ASSUME NEW k \in ItemIds(doc) PROVE Dnd!Parent(v, k) = IF k = id THEN to ELSE Dnd!Parent(doc, k)
  <2>1. PICK i \in ToSet(doc.items) : i.id = k
    BY DEF ItemIds
  <2>2. Touched(i, id, data) \in ToSet(v.items)
    BY <1>1
  <2>3. QED
    BY <1>1, <1>2, <2>1, <2>2, ParentIs
<1>4. Lodged(v) \subseteq ItemIds(doc)
  BY <1>1 DEF Lodged
<1>5. ASSUME NEW S \in SUBSET Lodged(v), S # {}, \A k \in S : Dnd!Parent(v, k) \in S PROVE FALSE
  <2>1. CASE id \notin S
    <3>1. \A k \in S : Dnd!Parent(v, k) = Dnd!Parent(doc, k)
      BY <1>3, <1>4, <1>5, <2>1
    <3>2. S \subseteq Lodged(doc)
      BY <1>1, <1>4, <1>5, <3>1 DEF Lodged
    <3>3. QED
      BY <1>5, <3>1, <3>2 DEF Acyclic
  <2>2. CASE id \in S
    <3> DEFINE T == S \cap Dnd!Above(doc, to)
    <3>1. to \in S /\ to \in ItemIds(doc)
      BY <1>3, <1>4, <1>5, <2>2
    <3>2. Dnd!ItemIds(doc) = ItemIds(doc)
      BY DEF Dnd!ItemIds, ItemIds, Dnd!ToSet, ToSet
    <3>3. to \in Dnd!Above(doc, to) /\ id \notin Dnd!Above(doc, to)
      BY <3>1, <3>2 DEF Dnd!Above
    <3>4. ASSUME NEW k \in T PROVE k \in Lodged(doc) /\ Dnd!Parent(doc, k) \in T
      <4>1. Dnd!Parent(v, k) = Dnd!Parent(doc, k) /\ Dnd!Parent(doc, k) \in S
        BY <1>3, <1>4, <1>5, <3>3
      <4>2. Dnd!Parent(doc, k) \in ItemIds(doc) /\ k \in ItemIds(doc)
        BY <1>4, <1>5, <4>1
      <4>3. Dnd!Parent(doc, k) \in Dnd!Above(doc, to)
        BY <3>2, <4>2 DEF Dnd!Above, Dnd!Closed
      <4>4. QED
        BY <4>1, <4>2, <4>3 DEF Lodged
    <3> HIDE DEF T
    <3>5. T # {}
      BY <3>1, <3>3 DEF T
    <3>6. QED
      BY <3>4, <3>5 DEF Acyclic
  <2>3. QED
    BY <2>1, <2>2
<1>6. QED
  BY <1>5 DEF Acyclic, v

-----------------------------------------------------------------------------
(* What Foundry does with a call that no number was computed for.          *)

\* Of the items only the fields that are not counted were written.
LEMMA FitAlike ==
  ASSUME NEW doc, Embeds(doc), NEW derived, Fit(doc, derived),
         NEW v, Embeds(v), v.sys = doc.sys, ToSet(v.items) \subseteq ToSet(doc.items)
  PROVE  Fit(v, derived)
<1>1. ItemIds(v) \subseteq ItemIds(doc)
  BY DEF ItemIds
<1>2. Acyclic(v)
  BY <1>1, AcyclicAlike DEF Fit, GoodsFit
<1>3. QED
  BY <1>2 DEF Fit, GoodsFit

LEMMA FitSys ==
  ASSUME NEW doc, Embeds(doc), NEW derived, Fit(doc, derived), NEW sys, SheetFit(sys, derived)
  PROVE  Fit([doc EXCEPT !.sys = sys], derived)
<1> DEFINE v == [doc EXCEPT !.sys = sys]
<1>1. DOMAIN v = DOMAIN doc /\ v.items = doc.items /\ v.sys = sys
  BY DEF Embeds
<1> HIDE DEF v
<1>2. Embeds(v) /\ ItemIds(v) = ItemIds(doc)
  BY <1>1, EmbedsEqual
<1>3. Acyclic(v)
  BY <1>1, <1>2, AcyclicAlike DEF Fit, GoodsFit
<1>4. Fit(v, derived)
  BY <1>1, <1>3 DEF Fit, GoodsFit
<1>5. QED
  BY <1>4 DEF v

LEMMA FitOnItem ==
  ASSUME NEW doc, Embeds(doc), NEW derived, Fit(doc, derived), NEW id, NEW data,
         ~Has(data, "id"), ~Has(data, "container"),
         \A i \in ToSet(doc.items) : i.id = id => ItemFit(data ++ i)
  PROVE  Fit(OnItem(doc, id, data), derived)
<1> DEFINE v == OnItem(doc, id, data)
<1>0. v = OnItem(doc, id, data)
  OBVIOUS
<1> HIDE DEF v
<1>1. /\ Embeds(v) /\ ItemIds(v) = ItemIds(doc)
      /\ DOMAIN v = DOMAIN doc /\ \A f \in DOMAIN doc \ {"items"} : v[f] = doc[f]
      /\ \A j : j \in ToSet(v.items) <=> \E i \in ToSet(doc.items) : j = Touched(i, id, data)
  BY <1>0, EmbedsOnItem
<1>2. v.sys = doc.sys
  BY <1>1 DEF Embeds
<1>3. \A i \in ToSet(doc.items) : /\ ItemFit(Touched(i, id, data))
                                  /\ Touched(i, id, data).id = i.id
                                  /\ At(Touched(i, id, data), "container", "") = At(i, "container", "")
  <2> SUFFICES ASSUME NEW i \in ToSet(doc.items)
               PROVE  /\ ItemFit(Touched(i, id, data)) /\ Touched(i, id, data).id = i.id
                      /\ At(Touched(i, id, data), "container", "") = At(i, "container", "")
    OBVIOUS
  <2>1. CASE i.id # id
    BY <2>1 DEF Touched, Fit, GoodsFit
  <2>2. CASE i.id = id
    <3>1. (data ++ i).id = i.id /\ At(data ++ i, "container", "") = At(i, "container", "")
      BY DEF Embeds, Has, At, ++
    <3>2. QED
      BY <2>2, <3>1 DEF Touched
  <2>3. QED
    BY <2>1, <2>2
<1>4. \A j \in ToSet(v.items) : ItemFit(j)
  BY <1>1, <1>3
<1>5. Acyclic(v)
  <2>1. \A j \in ToSet(v.items) : \E i \in ToSet(doc.items) :
           i.id = j.id /\ At(j, "container", "") = At(i, "container", "")
    <3>1. ASSUME NEW j \in ToSet(v.items)
          PROVE  \E i \in ToSet(doc.items) : i.id = j.id /\ At(j, "container", "") = At(i, "container", "")
      <4>1. PICK i \in ToSet(doc.items) : j = Touched(i, id, data)
        BY <1>1
      <4>2. QED
        BY <1>3, <4>1
    <3>2. QED
      BY <3>1
  <2>2. QED
    BY <1>1, <2>1, AcyclicAlike DEF Fit, GoodsFit
<1>6. Fit(v, derived)
  BY <1>2, <1>4, <1>5 DEF Fit, GoodsFit
<1>7. QED
  BY <1>6 DEF v

LEMMA FitSpared ==
  ASSUME NEW doc, Embeds(doc), Typed(doc), NEW derived, Fit(doc, derived), NEW id, NEW data,
         DOMAIN data \cap (Marks \cup ItemCounters \cup {"container"}) = {}
  PROVE  Fit(OnItem(doc, id, data), derived)
<1>1. ~Has(data, "id") /\ ~Has(data, "container") /\ DOMAIN data \cap ({"type"} \cup ItemCounters) = {}
  BY DEF Has, Marks
<1>2. \A i \in ToSet(doc.items) : ItemFit(data ++ i)
  BY <1>1, ItemSpared DEF Typed, Fit, GoodsFit
<1>3. QED
  BY <1>1, <1>2, FitOnItem

Copied(id, entry) == Field("id", id) ++ entry
Joins(new, doc, v) ==
  Embeds(v) /\ v.sys = doc.sys /\ ToSet(v.items) = ToSet(doc.items) \cup {new}
LEMMA GivenIs ==
  ASSUME NEW doc, Embeds(doc), NEW id, id \notin ItemIds(doc), NEW entry
  PROVE  Joins(Copied(id, entry), doc, Given(doc, id, entry))
<1>1. Embeds(Given(doc, id, entry)) /\ \A f \in DOMAIN doc \ {"items"} : Given(doc, id, entry)[f] = doc[f]
  BY EmbedsGiven
<1>2. ToSet(Given(doc, id, entry).items) = ToSet(doc.items) \cup {Copied(id, entry)}
  BY EmbedsGiven DEF Copied
<1>3. Given(doc, id, entry).sys = doc.sys
  BY <1>1 DEF Embeds
<1>4. QED
  BY <1>1, <1>2, <1>3 DEF Joins

\* A copy of an entry, under an id that no item has or lies in.
LEMMA FitGiven ==
  ASSUME NEW doc, Embeds(doc), NEW derived, Fit(doc, derived), NEW id, id \notin ItemIds(doc),
         \A i \in ToSet(doc.items) : At(i, "container", "") # id,
         NEW entry, Entry(entry), At(entry, "container", "") # id
  PROVE  Fit(Given(doc, id, entry), derived)
<1> DEFINE v == Given(doc, id, entry)
           new == Copied(id, entry)
<1>1. new.id = id /\ At(new, "container", "") = At(entry, "container", "")
  BY DEF Copied, Field, ++, At
<1>2. ItemFit(new)
  <2>1. DOMAIN Field("id", id) \cap ({"type"} \cup ItemCounters) = {}
    BY DEF Field, ItemCounters
  <2>2. QED
    BY <2>1, ItemSpared DEF Copied, Entry, ItemFit
<1>2a. Joins(new, doc, v)
  BY GivenIs
<1> HIDE DEF v, new
<1>3. Embeds(v) /\ v.sys = doc.sys /\ ToSet(v.items) = ToSet(doc.items) \cup {new}
  BY <1>2a DEF Joins
<1>5. Acyclic(v)
  BY <1>1, <1>3, AcyclicGiven DEF Fit, GoodsFit
<1>6. Fit(v, derived)
  BY <1>2, <1>3, <1>5 DEF Fit, GoodsFit
<1>7. QED
  BY <1>6 DEF v


\* A use that is left, and a slot, are paid with.
LEMMA FitSpent ==
  ASSUME NEW i, ItemFit(i), Has(i, "type"), Dnd!HasUses(i), ~Dnd!usesExhausted(i)
  PROVE  ItemFit(Field("uses.spent", At(i, "uses.spent", 0) + 1) ++ i)
<1> DEFINE n == At(i, "uses.spent", 0)
           j == Field("uses.spent", n + 1) ++ i
<1>1. /\ DOMAIN j = DOMAIN i \cup {"uses.spent"} /\ j["uses.spent"] = n + 1
      /\ \A p \in DOMAIN i \ {"uses.spent"} : j[p] = i[p]
  BY DEF Field, ++
<1>2. \A p \in {"type", "uses.max", "levels", "hd.spent"} : (p \in DOMAIN j <=> p \in DOMAIN i) /\ (p \in DOMAIN i => j[p] = i[p])
  BY <1>1
<1>3. "uses.max" \in DOMAIN i /\ i["uses.max"] \in Int /\ n \in 0..i["uses.max"] /\ n < i["uses.max"]
  <2>1. "uses.max" \notin DOMAIN i => Dnd!At(i, "uses.max", 0) = 0
    BY DEF Dnd!At
  <2>2. "uses.max" \in DOMAIN i
    BY <2>1 DEF Dnd!HasUses
  <2>3. i["uses.max"] \in Int
    BY <2>2 DEF ItemFit, Whole, ItemCounters
  <2>4. n \in 0..i["uses.max"]
    BY DEF ItemFit, ItemSound
  <2>5. Dnd!At(i, "uses.spent", 0) = n
    BY DEF Dnd!At, At
  <2>6. QED
    BY <2>2, <2>3, <2>4, <2>5 DEF Dnd!usesExhausted
<1>4. /\ j.type = i.type /\ At(j, "uses.spent", 0) = n + 1 /\ j["uses.max"] = i["uses.max"]
      /\ \A x : Dnd!At(j, "levels", x) = Dnd!At(i, "levels", x) /\ Dnd!At(j, "hd.spent", x) = Dnd!At(i, "hd.spent", x)
  BY <1>1, <1>2, <1>3 DEF Has, At, Dnd!At
<1> HIDE DEF j, n
<1>5. Whole(j, ItemCounters)
  <2>1. \A p \in ItemCounters : p = "uses.spent" \/ p \in {"type", "uses.max", "levels", "hd.spent"}
    BY DEF ItemCounters
  <2>2. \A p \in DOMAIN i \cap ItemCounters : i[p] \in Int
    BY DEF ItemFit, Whole
  <2>3. n + 1 \in Int
    BY <1>3
  <2>4. QED
    BY <1>1, <1>2, <2>1, <2>2, <2>3 DEF Whole
<1>6. ItemSound(j)
  <2>1. At(j, "uses.spent", 0) \in 0..j["uses.max"]
    BY <1>3, <1>4
  <2>2. j.type = "class" => Dnd!Used(j) \in 0..Dnd!Levels(j)
    BY <1>4 DEF ItemFit, ItemSound, Dnd!Used, Dnd!Levels
  <2>3. QED
    BY <2>1, <2>2 DEF ItemSound
<1>7. QED
  BY <1>5, <1>6 DEF ItemFit, j, n

LEMMA SlotsPaid ==
  ASSUME NEW sys, NEW derived, Whole(derived, SlotPaths({"max"})), SheetFit(sys, derived), NEW x, At(sys, Dnd!SlotPath(x, "value"), 0) > 0
  PROVE  SheetFit([sys EXCEPT ![Dnd!SlotPath(x, "value")] = @ - 1], derived)
<1> DEFINE path == Dnd!SlotPath(x, "value")
           new == [sys EXCEPT ![path] = @ - 1]
<1>1. path \in DOMAIN sys /\ sys[path] > 0
  BY DEF At
<1>2. \A q : (q \in DOMAIN new <=> q \in DOMAIN sys) /\ (q # path /\ q \in DOMAIN sys => new[q] = sys[q])
  OBVIOUS
<1>3. new[path] = sys[path] - 1
  BY <1>1
<1>4. path \notin HitPoints /\ path \notin Tracks
  BY DEF HitPoints, Tracks, Dnd!SlotPath, Dnd!HpPath, Vampire!Box
<1>5. \A p, f : Dnd!SlotPath(p, f) = path => p = x /\ f = "value"
  BY DEF Dnd!SlotPath
<1> HIDE DEF new, path
<1>6. HpFit(new) /\ TracksFit(new)
  <2>1. Alike(sys, new, HitPoints) /\ Alike(sys, new, Tracks)
    BY <1>2, <1>4 DEF Alike, Has
  <2>2. QED
    BY <2>1, AlikeFits DEF SheetFit
<1>7. SlotsFit(new, derived)
  <2>1. CASE x \notin Dnd!SlotPools
    <3>1. path \notin SlotPaths(SlotFields)
      BY <1>5, <2>1 DEF SlotPaths
    <3>2. Alike(sys, new, SlotPaths(SlotFields))
      BY <1>2, <3>1 DEF Alike, Has
    <3>3. QED
      BY <3>2, AlikeFits DEF SheetFit
  <2>2. CASE x \in Dnd!SlotPools
    <3>1. SlotsFit(sys, derived) /\ path = Dnd!SlotPath(x, "value")
      BY DEF SheetFit, path
    <3>2. sys[path] \in Int
      BY <1>1, <2>2, <3>1, PathsApart DEF SlotsFit, Whole, SlotFields
    <3>3. Dnd!SlotValue(sys, x) = sys[path] /\ Dnd!SlotValue(new, x) = sys[path] - 1
      BY <1>1, <1>2, <1>3, <3>1 DEF Dnd!SlotValue, Dnd!At
    <3>4. \A p \in Dnd!SlotPools \ {x} : Dnd!SlotValue(new, p) = Dnd!SlotValue(sys, p)
      BY <1>2, <1>5 DEF Dnd!SlotValue, Dnd!At
    <3>5. SlotsSound(new, derived)
      <4>1. ASSUME NEW p \in Dnd!SlotPools
            PROVE  Dnd!SlotValue(new, p) \in 0..At(derived, Dnd!SlotPath(p, "max"), Dnd!SlotValue(new, p))
        <5>1. Dnd!SlotValue(sys, p) \in 0..At(derived, Dnd!SlotPath(p, "max"), Dnd!SlotValue(sys, p))
          BY <3>1 DEF SlotsFit, SlotsSound
        <5>2. CASE p # x
          BY <3>4, <5>1, <5>2
        <5>3. CASE p = x
          <6>1. Has(derived, Dnd!SlotPath(p, "max")) => derived[Dnd!SlotPath(p, "max")] \in Int
            BY DEF Whole, SlotPaths, Has
          <6>2. Dnd!SlotValue(new, p) \in Int /\ Dnd!SlotValue(new, p) >= 0 /\ Dnd!SlotValue(new, p) = Dnd!SlotValue(sys, p) - 1
            BY <1>1, <3>2, <3>3, <5>3
          <6>3. CASE Has(derived, Dnd!SlotPath(p, "max"))
            BY <5>1, <6>1, <6>2, <6>3 DEF At, Has
          <6>4. CASE ~Has(derived, Dnd!SlotPath(p, "max"))
            BY <6>2, <6>4 DEF At, Has
          <6>5. QED
            BY <6>3, <6>4
        <5>4. QED
          BY <5>2, <5>3
      <4>2. QED
        BY <4>1 DEF SlotsSound
    <3>6. Whole(new, SlotPaths(SlotFields))
      BY <1>2, <1>3, <3>1, <3>2 DEF SlotsFit, Whole
    <3>7. ASSUME NEW p \in Dnd!SlotPools, NEW f \in {"max", "override"},
                 Has(new, Dnd!SlotPath(p, f)), Has(derived, Dnd!SlotPath(p, "max"))
          PROVE  new[Dnd!SlotPath(p, f)] <= derived[Dnd!SlotPath(p, "max")]
      <4>1. Dnd!SlotPath(p, f) # path
        BY <1>5
      <4>2. QED
        BY <1>2, <3>1, <3>7, <4>1 DEF SlotsFit, Has
    <3>8. QED
      BY <3>5, <3>6, <3>7 DEF SlotsFit
  <2>3. QED
    BY <2>1, <2>2
<1>8. QED
  BY <1>6, <1>7 DEF SheetFit, new, path

LEMMA FitUsed ==
  ASSUME NEW doc, Embeds(doc), Typed(doc), NEW derived, Whole(derived, SlotPaths({"max"})), Fit(doc, derived),
         NEW id, NEW slot, CanUse(doc, id, slot)
  PROVE  Fit(AfterUse(doc, id, slot), derived)
<1> DEFINE i == ItemOf(doc, id)
           used == IF Dnd!HasUses(i)
                   THEN OnItem(doc, id, Field("uses.spent", At(i, "uses.spent", 0) + 1)) ELSE doc
           S == Paying(doc, i, slot)
           pool == CHOOSE p \in S : p # PactSlot \/ S = {p}
<1>1. i \in ToSet(doc.items) /\ i.id = id /\ \A k \in ToSet(doc.items) : k.id = id => k = i
  <2>1. PICK k \in ToSet(doc.items) : k.id = id
    BY DEF CanUse, ItemIds
  <2>2. i = k
    BY <2>1 DEF ItemOf, Embeds, DistinctIds
  <2>3. QED
    BY <2>1, <2>2 DEF Embeds, DistinctIds
<1>2. ~Dnd!usesExhausted(i) /\ (Free(i) \/ S # {})
  BY DEF CanUse
<1>3. AfterUse(doc, id, slot) = IF Free(i) THEN used ELSE [used EXCEPT !.sys[pool] = @ - 1]
  BY DEF AfterUse
<1>4. S # {} => pool \in S
  <2>1. CASE \E p \in S : p # PactSlot
    BY <2>1
  <2>2. CASE \A p \in S : p = PactSlot
    <3>1. S # {} => S = {PactSlot}
      BY <2>2
    <3> HIDE DEF S
    <3>2. QED
      BY <3>1
  <2>3. QED
    BY <2>1, <2>2
<1>5. \A p \in S : \E x : p = Dnd!SlotPath(x, "value") /\ At(doc.sys, Dnd!SlotPath(x, "value"), 0) > 0
  BY DEF Paying, SlotOf, PactSlot
<1> HIDE DEF i, S, pool
<1>6. Embeds(used) /\ Fit(used, derived) /\ used.sys = doc.sys
  <2>1. CASE ~Dnd!HasUses(i)
    BY <2>1
  <2>2. CASE Dnd!HasUses(i)
    <3> DEFINE data == Field("uses.spent", At(i, "uses.spent", 0) + 1)
    <3>1. ~Has(data, "id") /\ ~Has(data, "container")
      BY DEF Has, Field
    <3>2. ItemFit(data ++ i)
      BY <1>1, <1>2, <2>2, FitSpent DEF Fit, GoodsFit, Typed
    <3>3. used = OnItem(doc, id, data)
      BY <2>2
    <3> HIDE DEF data, used
    <3>4. Fit(OnItem(doc, id, data), derived)
      BY <1>1, <3>1, <3>2, FitOnItem
    <3>5. Embeds(OnItem(doc, id, data)) /\ OnItem(doc, id, data).sys = doc.sys
      BY <3>1, EmbedsOnItem DEF Embeds
    <3>6. QED
      BY <3>3, <3>4, <3>5
  <2>3. QED
    BY <2>1, <2>2
<1> HIDE DEF used
<1>7. CASE Free(i)
  BY <1>3, <1>6, <1>7
<1>8. CASE ~Free(i)
  <2>1. PICK x : pool = Dnd!SlotPath(x, "value") /\ At(doc.sys, Dnd!SlotPath(x, "value"), 0) > 0
    BY <1>2, <1>4, <1>5, <1>8
  <2>2. SheetFit([doc.sys EXCEPT ![pool] = @ - 1], derived)
    BY <2>1, SlotsPaid DEF Fit
  <2>3. AfterUse(doc, id, slot) = [used EXCEPT !.sys = [doc.sys EXCEPT ![pool] = @ - 1]]
    <3>1. "sys" \in DOMAIN used
      BY <1>6 DEF Embeds
    <3>2. AfterUse(doc, id, slot) = [used EXCEPT !.sys[pool] = @ - 1]
      BY <1>3, <1>8
    <3>3. QED
      BY <1>6, <3>1, <3>2
  <2>4. QED
    BY <1>6, <2>2, <2>3, FitSys
<1>9. QED
  BY <1>7, <1>8

-----------------------------------------------------------------------------
LEMMA RangeTop == \A m \in Int : \A k \in 0..m : m >= 0
OBVIOUS

LEMMA DeathIsNotCounted == \A n : DOMAIN Field(<<"attributes", "death", "success">>, n) \cap SheetCounters = {}
<1> DEFINE path == <<"attributes", "death", "success">>
<1>1. path \notin HitPoints
  BY DEF HitPoints, Dnd!HpPath
<1>2. path \notin Tracks
  BY DEF Tracks, Vampire!Box
<1>3. path \notin SlotPaths(SlotFields)
  BY DEF SlotPaths, Dnd!SlotPath
<1> HIDE DEF path
<1>4. \A n : DOMAIN Field(path, n) \cap SheetCounters = {}
  BY <1>1, <1>2, <1>3, PathsApart DEF Field
<1>5. QED
  BY <1>4 DEF path

LEMMA FitHp ==
  ASSUME NEW sys, NEW derived, SheetFit(sys, derived),
         NEW n \in Int, n >= 0, Has(sys, Dnd!HpPath("max")) => n <= sys[Dnd!HpPath("max")]
  PROVE  SheetFit(Field(Dnd!HpPath("value"), n) ++ sys, derived)
<1> DEFINE hp == Dnd!HpPath("value")
           max == Dnd!HpPath("max")
           temp == Dnd!HpPath("temp")
           new == Field(hp, n) ++ sys
<1>1. hp # max /\ hp # temp /\ hp \in HitPoints /\ max \in HitPoints /\ temp \in HitPoints
  BY PathsApart DEF Dnd!HpPath
<1>2. DOMAIN Field(hp, n) \subseteq HitPoints
  BY <1>1 DEF Field
<1> HIDE DEF hp, max, temp
<1>3. /\ new[hp] = n /\ hp \in DOMAIN new /\ DOMAIN new = DOMAIN sys \cup {hp}
      /\ \A p : p # hp /\ p \in DOMAIN sys => new[p] = sys[p]
  BY DEF Field, ++
<1>a. new = Field(hp, n) ++ sys
  OBVIOUS
<1> HIDE DEF new
<1>4. Whole(new, HitPoints)
  BY <1>3 DEF SheetFit, HpFit, Whole
<1>5. Has(sys, max) => sys[max] \in Int
  BY <1>1 DEF SheetFit, HpFit, Whole, Has
<1>6. At(new, hp, 0) = n /\ At(new, temp, 0) = At(sys, temp, 0) /\ At(new, max, n) = At(sys, max, n)
  BY <1>1, <1>3 DEF At
<1>7. At(sys, temp, 0) \in Nat
  BY DEF SheetFit, HpFit, HitPointsSound, temp
<1>8. n \in 0..At(sys, max, n)
  <2>1. Has(sys, max) => n <= sys[max]
    BY DEF max
  <2>2. QED
    BY <1>5, <2>1 DEF At, Has
<1>9. HpFit(new)
  BY <1>4, <1>6, <1>7, <1>8 DEF HpFit, HitPointsSound, hp, max, temp
<1>10. QED
  BY <1>2, <1>9, <1>a, FitSheet DEF hp

LEMMA FitRested ==
  ASSUME NEW sys, NEW derived, SheetFit(sys, derived), NEW n \in Int,
         Has(sys, Dnd!HpPath("max")), sys[Dnd!HpPath("max")] = n
  PROVE  SheetFit(Field(Dnd!HpPath("value"), n) ++ sys, derived)
<1>1. PICK hp : hp = At(sys, Dnd!HpPath("value"), 0)
  OBVIOUS
<1>2. hp \in 0..At(sys, Dnd!HpPath("max"), hp)
  BY <1>1 DEF SheetFit, HpFit, HitPointsSound
<1>3. At(sys, Dnd!HpPath("max"), hp) = n
  BY DEF At, Has
<1>4. n >= 0
  BY <1>2, <1>3, RangeTop
<1>5. Has(sys, Dnd!HpPath("max")) => n <= sys[Dnd!HpPath("max")]
  <2>1. n <= n
    OBVIOUS
  <2>2. QED
    BY <2>1
<1>6. QED
  BY <1>4, <1>5, FitHp

\* A whole call, of those no number was computed for.
LEMMA FitOutcome ==
  ASSUME NEW doc, Embeds(doc), Typed(doc), NEW derived, Whole(derived, SlotPaths({"max"})), Fit(doc, derived),
         NEW c, Harmless(c), ~Computed(c),
         c.do \in Uses => CanUse(doc, c.itemId, c.slotKey),
         c.do \in Gives => /\ c.by \notin ItemIds(doc) /\ At(c.item, "container", "") # c.by
                           /\ \A i \in ToSet(doc.items) : At(i, "container", "") # c.by,
         NEW v, Outcome(v, doc, c)
  PROVE  Fit(v, derived)
<1>1. CASE c.do \in Uses /\ v = AfterUse(doc, c.itemId, c.slotKey)
  BY <1>1, FitUsed
<1>2. CASE \E p \in {"equipped", "attuned"} : v = OnItem(doc, c.itemId, Field(p, c.to))
  <2>1. \A p \in {"equipped", "attuned"} : DOMAIN Field(p, c.to) \cap (Marks \cup ItemCounters \cup {"container"}) = {}
    BY DEF Field, Marks, ItemCounters
  <2>2. QED
    BY <1>2, <2>1, FitSpared
<1>3. CASE c.do = "updateItem" /\ v = OnItem(doc, c.itemId, c.data)
  <2>1. DOMAIN c.data \cap (Marks \cup ItemCounters \cup {"container"}) = {}
    BY <1>3 DEF Harmless, Plain, Computed
  <2>2. QED
    BY <1>3, <2>1, FitSpared
<1>4. CASE c.do = "update"
  BY <1>4 DEF Computed
<1>5. CASE \E x : v = [doc EXCEPT !.effects = x]
  <2>1. DOMAIN v = DOMAIN doc /\ v.items = doc.items /\ v.sys = doc.sys
    BY <1>5 DEF Embeds
  <2>2. Embeds(v)
    BY <2>1, EmbedsEqual
  <2>3. QED
    BY <2>1, <2>2, FitAlike
<1>6. CASE \E k \in DOMAIN doc.items : v = [doc EXCEPT !.items = RemoveAt(@, k)]
  <2>1. PICK k \in DOMAIN doc.items : v = [doc EXCEPT !.items = RemoveAt(@, k)]
    BY <1>6
  <2>2. Embeds(v) /\ ToSet(v.items) \subseteq ToSet(doc.items) /\ v.sys = doc.sys
    BY <2>1, EmbedsRemoved DEF Embeds
  <2>3. QED
    BY <2>2, FitAlike
<1>7. CASE \E x : /\ v = [doc EXCEPT !.sys = x]
                  /\ \E n : x = Field(<<"attributes", "death", "success">>, n) ++ doc.sys
  <2>1. PICK x, n : v = [doc EXCEPT !.sys = x] /\ x = Field(<<"attributes", "death", "success">>, n) ++ doc.sys
    BY <1>7
  <2>2. PICK data : data = Field(<<"attributes", "death", "success">>, n)
    OBVIOUS
  <2>3. DOMAIN data \cap SheetCounters = {} /\ x = data ++ doc.sys
    BY <2>1, <2>2, DeathIsNotCounted
  <2>4. SheetFit(x, derived)
    BY <2>3, FitSheet DEF Fit
  <2>5. QED
    BY <2>1, <2>4, FitSys
<1>8. CASE \E x : /\ v = [doc EXCEPT !.sys = x] /\ Has(doc.sys, Dnd!HpPath("max"))
                  /\ x = Field(Dnd!HpPath("value"), doc.sys[Dnd!HpPath("max")]) ++ doc.sys
  <2>1. PICK x : /\ v = [doc EXCEPT !.sys = x] /\ Has(doc.sys, Dnd!HpPath("max"))
                 /\ x = Field(Dnd!HpPath("value"), doc.sys[Dnd!HpPath("max")]) ++ doc.sys
    BY <1>8
  <2>2. PICK n : n = doc.sys[Dnd!HpPath("max")]
    OBVIOUS
  <2>3. n \in Int
    BY <2>1, <2>2, PathsApart DEF Fit, SheetFit, HpFit, Whole, Has
  <2>5. SheetFit(x, derived)
    <3>1. SheetFit(doc.sys, derived)
      BY DEF Fit
    <3>2. SheetFit(Field(Dnd!HpPath("value"), n) ++ doc.sys, derived)
      BY <2>1, <2>2, <2>3, <3>1, FitRested
    <3>3. QED
      BY <2>1, <2>2, <3>2
  <2>6. QED
    BY <2>1, <2>5, FitSys
<1>9. CASE c.do \in Gives /\ v = Given(doc, c.by, c.item)
  <2>1. Entry(c.item)
    BY <1>9 DEF Harmless
  <2>2. QED
    BY <1>9, <2>1, FitGiven
<1>10. CASE v = doc
  BY <1>10
<1>11. QED
  BY <1>1, <1>2, <1>3, <1>4, <1>5, <1>6, <1>7, <1>8, <1>9, <1>10 DEF Outcome

-----------------------------------------------------------------------------
(* Numbers that are made of an actor's items, by induction over a set.     *)

LEMMA Induction ==
  ASSUME NEW S, 0 \in S, \A n \in Nat : n \in S => n + 1 \in S
  PROVE  Nat \subseteq S
<1> SUFFICES ASSUME Nat \ S # {} PROVE FALSE
  OBVIOUS
<1>1. IsWellFoundedOn(OpToRel(<, Nat), Nat)
  BY NatLessThanWellFounded
<1>2. PICK x \in Nat \ S : \A y \in Nat \ S : ~ (<<y, x>> \in OpToRel(<, Nat))
  BY <1>1, WFMin
<1>3. \A y \in Nat \ S : ~(y < x)
  BY <1>2 DEF OpToRel
<1>4. x - 1 \in Nat /\ x - 1 \notin Nat \ S
  BY <1>3
<1>5. QED
  BY <1>4

\* The partial sums of a list exist, and are whole.
LEMMA PartialSums ==
  ASSUME NEW n \in Nat, NEW list, \A k \in 1..n : list[k] \in Int
  PROVE  \E f : /\ f = [k \in 0..n |-> IF k = 0 THEN 0 ELSE f[k-1] + list[k]]
                /\ \A k \in 0..n : f[k] \in Int
<1> DEFINE Sums(f, m) == /\ f = [k \in 0..m |-> IF k = 0 THEN 0 ELSE f[k-1] + list[k]]
                         /\ \A k \in 0..m : f[k] \in Int
           S == {m \in Nat : m <= n => \E f : Sums(f, m)}
<1>1. 0 \in S
  <2>1. Sums([k \in 0..0 |-> 0], 0)
    OBVIOUS
  <2> HIDE DEF Sums
  <2>2. QED
    BY <2>1
<1>2. ASSUME NEW m \in Nat, m \in S PROVE m + 1 \in S
  <2> SUFFICES ASSUME m + 1 <= n PROVE \E f : Sums(f, m + 1)
    OBVIOUS
  <2>1. PICK f : Sums(f, m)
    BY <1>2
  <2> DEFINE g == [k \in 0..(m + 1) |-> IF k = m + 1 THEN f[m] + list[m + 1] ELSE f[k]]
  <2>2. \A k \in 0..m : f[k] \in Int /\ f[k] = IF k = 0 THEN 0 ELSE f[k-1] + list[k]
    BY <2>1
  <2>3. f[m] + list[m + 1] \in Int
    BY <2>2
  <2>4. \A k \in 0..(m + 1) : g[k] \in Int
    BY <2>2, <2>3
  <2>5. \A k \in 0..(m + 1) : g[k] = IF k = 0 THEN 0 ELSE g[k-1] + list[k]
    <3>1. ASSUME NEW k \in 0..(m + 1) PROVE g[k] = IF k = 0 THEN 0 ELSE g[k-1] + list[k]
      <4>1. CASE k = 0
        BY <2>2, <4>1
      <4>2. CASE k # 0 /\ k # m + 1
        BY <2>2, <4>2
      <4>3. CASE k = m + 1
        BY <4>3
      <4>4. QED
        BY <4>1, <4>2, <4>3
    <3>2. QED
      BY <3>1
  <2>6. g = [k \in 0..(m + 1) |-> IF k = 0 THEN 0 ELSE g[k-1] + list[k]]
    <3>1. DOMAIN g = 0..(m + 1) /\ g = [k \in 0..(m + 1) |-> g[k]]
      OBVIOUS
    <3> HIDE DEF g
    <3>2. QED
      BY <2>5, <3>1
  <2> HIDE DEF g
  <2>7. Sums(g, m + 1)
    BY <2>4, <2>6
  <2> HIDE DEF Sums
  <2>8. QED
    BY <2>7
<1>3. n \in S
  <2> HIDE DEF S
  <2>1. \A m \in Nat : m \in S => m + 1 \in S
    BY <1>2
  <2>2. QED
    BY <1>1, <2>1, Induction
<1>4. QED
  BY <1>3

LEMMA SumIsWhole ==
  ASSUME NEW list, list \in Seq(Int)
  PROVE  Dnd!Sum(list) \in Int
<1> DEFINE n == Len(list)
           Sums(f) == f = [k \in 0..n |-> IF k = 0 THEN 0 ELSE f[k-1] + list[k]]
           sums == CHOOSE f : Sums(f)
<1>1. n \in Nat /\ \A k \in 1..n : list[k] \in Int
  BY LenProperties
<1> HIDE DEF n
<1>2. \E f : Sums(f)
  <2>1. PICK f : /\ f = [k \in 0..n |-> IF k = 0 THEN 0 ELSE f[k-1] + list[k]]
                 /\ \A k \in 0..n : f[k] \in Int
    BY <1>1, PartialSums
  <2>2. Sums(f)
    BY <2>1
  <2> HIDE DEF Sums
  <2>3. QED
    BY <2>2
<1>3. Sums(sums)
  <2> HIDE DEF Sums
  <2>1. QED
    BY <1>2
<1>4. PICK f : Sums(f) /\ \A k \in 0..n : f[k] \in Int
  BY <1>1, PartialSums
<1>5. \A k \in 0..n : sums[k] \in Int
  <2> HIDE DEF sums
  <2> DEFINE S == {m \in Nat : m <= n => sums[m] \in Int}
  <2>1. \A k \in 0..n : sums[k] = IF k = 0 THEN 0 ELSE sums[k-1] + list[k]
    BY <1>3
  <2>2. 0 \in S
    BY <1>1, <2>1
  <2>3. ASSUME NEW m \in Nat, m \in S PROVE m + 1 \in S
    <3> SUFFICES ASSUME m + 1 <= n PROVE sums[m + 1] \in Int
      OBVIOUS
    <3>1. sums[m] \in Int /\ list[m + 1] \in Int
      BY <1>1, <2>3
    <3>2. sums[m + 1] = sums[m] + list[m + 1]
      BY <1>1, <2>1
    <3>3. QED
      BY <3>1, <3>2
  <2>4. Nat \subseteq S
    <3> HIDE DEF S
    <3>1. QED
      BY <2>2, <2>3, Induction
  <2>5. QED
    BY <1>1, <2>4
<1>6. Dnd!Sum(list) = sums[n]
  BY DEF Dnd!Sum, n
<1>7. QED
  BY <1>1, <1>5, <1>6

\* Of some of a list, one is the best by a number, and by another one then.
Among(C, s) == C # {} /\ \E n \in Nat : \A c \in C : \E k \in 1..n : c = s[k]
Numbered(C, f, g) == \A c \in C : f[c] \in Int /\ g[c] \in Int
Ranked(C, f, g) ==
  \E c \in C : \A o \in C : f[c] > f[o] \/ (f[c] = f[o] /\ g[c] >= g[o])

LEMMA BestOf ==
  ASSUME NEW C, NEW s, Among(C, s), NEW f, NEW g, Numbered(C, f, g)
  PROVE  Ranked(C, f, g)
<1>0. PICK n \in Nat : \A c \in C : \E k \in 1..n : c = s[k]
  BY DEF Among
<1> DEFINE Beats(c, o) == f[c] > f[o] \/ (f[c] = f[o] /\ g[c] >= g[o])
           First(m) == C \cap {s[k] : k \in 1..m}
           Best(m) == \E c \in First(m) : \A o \in First(m) : Beats(c, o)
           S == {m \in Nat : m <= n /\ First(m) # {} => Best(m)}
<1>1. \A c, o, p \in C : /\ Beats(c, c) /\ (Beats(c, o) \/ Beats(o, c))
                         /\ Beats(c, o) /\ Beats(o, p) => Beats(c, p)
  BY DEF Numbered
<1> HIDE DEF Beats
<1>2. 0 \in S
  OBVIOUS
<1>3. ASSUME NEW m \in Nat, m \in S PROVE m + 1 \in S
  <2> SUFFICES ASSUME m + 1 <= n, First(m + 1) # {} PROVE Best(m + 1)
    OBVIOUS
  <2>1. PICK x : x = s[m + 1]
    OBVIOUS
  <2>2. {s[k] : k \in 1..(m + 1)} = {s[k] : k \in 1..m} \cup {x}
    BY <2>1
  <2>3. First(m + 1) = IF x \in C THEN First(m) \cup {x} ELSE First(m)
    BY <2>2
  <2>4. First(m) # {} => Best(m)
    BY <1>3
  <2>5. \A c \in First(m) : c \in C
    OBVIOUS
  <2> HIDE DEF First
  <2>6. CASE x \notin C
    BY <2>3, <2>4, <2>6
  <2>7. CASE x \in C /\ First(m) = {}
    BY <1>1, <2>3, <2>7
  <2>8. CASE x \in C /\ First(m) # {}
    <3>1. PICK c \in First(m) : \A o \in First(m) : Beats(c, o)
      BY <2>4, <2>8
    <3>2. CASE Beats(c, x)
      BY <2>3, <2>8, <3>1, <3>2
    <3>3. CASE Beats(x, c)
      <4>1. \A o \in First(m + 1) : Beats(x, o)
        BY <1>1, <2>3, <2>5, <2>8, <3>1, <3>3
      <4>2. QED
        BY <2>3, <2>8, <4>1
    <3>4. QED
      BY <1>1, <2>5, <2>8, <3>2, <3>3
  <2>9. QED
    BY <2>6, <2>7, <2>8
<1>4. n \in S
  <2> HIDE DEF S
  <2>1. \A m \in Nat : m \in S => m + 1 \in S
    BY <1>3
  <2>2. QED
    BY <1>2, <2>1, Induction
<1>5. First(n) = C
  BY <1>0
<1> HIDE DEF First
<1>6. QED
  BY <1>4, <1>5 DEF Beats, Among, Ranked

-----------------------------------------------------------------------------
(* The dice and the uses of an item, within their bounds.                  *)

LEMMA OneOfItems ==
  ASSUME NEW doc, Embeds(doc), NEW derived, Fit(doc, derived), NEW i \in ToSet(doc.items), NEW path,
         path \notin {"id", "container"}, NEW n, ItemFit(Field(path, n) ++ i)
  PROVE  /\ Fit(Applied(doc, Dnd!OnOneItem(i.id, path, n)), derived)
         /\ Fit(Applied(doc, [itemId |-> i.id, data |-> Field(path, n)]), derived)
<1> DEFINE u == [itemId |-> i.id, data |-> Field(path, n)]
<1>1. Dnd!OnOneItem(i.id, path, n) = u
  BY DEF Dnd!OnOneItem, Dnd!Field, Field
<1>2. Applied(doc, u) = OnItem(doc, i.id, Field(path, n))
  BY DEF Applied, Has
<1>3. ~Has(Field(path, n), "id") /\ ~Has(Field(path, n), "container")
  BY DEF Has, Field
<1>4. \A k \in ToSet(doc.items) : k.id = i.id => k = i
  BY DEF Embeds, DistinctIds
<1> HIDE DEF u
<1>5. PICK data : data = Field(path, n)
  OBVIOUS
<1>6. Fit(OnItem(doc, i.id, data), derived)
  BY <1>3, <1>4, <1>5, FitOnItem
<1>7. QED
  BY <1>1, <1>2, <1>5, <1>6 DEF u

LEMMA FitUses ==
  ASSUME NEW i, ItemFit(i), Has(i, "type"), Dnd!HasUses(i), NEW n \in 0..i["uses.max"]
  PROVE  ItemFit(Field("uses.spent", n) ++ i)
<1> DEFINE j == Field("uses.spent", n) ++ i
<1>1. /\ DOMAIN j = DOMAIN i \cup {"uses.spent"} /\ j["uses.spent"] = n
      /\ \A p \in DOMAIN i \ {"uses.spent"} : j[p] = i[p]
  BY DEF Field, ++
<1>2. \A p \in {"type", "uses.max", "levels", "hd.spent"} : (p \in DOMAIN j <=> p \in DOMAIN i) /\ (p \in DOMAIN i => j[p] = i[p])
  BY <1>1
<1>3. "uses.max" \in DOMAIN i
  <2>1. "uses.max" \notin DOMAIN i => Dnd!At(i, "uses.max", 0) = 0
    BY DEF Dnd!At
  <2>2. QED
    BY <2>1 DEF Dnd!HasUses
<1>4. /\ j.type = i.type /\ At(j, "uses.spent", 0) = n /\ j["uses.max"] = i["uses.max"]
      /\ \A x : Dnd!At(j, "levels", x) = Dnd!At(i, "levels", x) /\ Dnd!At(j, "hd.spent", x) = Dnd!At(i, "hd.spent", x)
  BY <1>1, <1>2, <1>3 DEF Has, At, Dnd!At
<1> HIDE DEF j
<1>5. Whole(j, ItemCounters)
  <2>1. \A p \in ItemCounters : p = "uses.spent" \/ p \in {"type", "uses.max", "levels", "hd.spent"}
    BY DEF ItemCounters
  <2>2. \A p \in DOMAIN i \cap ItemCounters : i[p] \in Int
    BY DEF ItemFit, Whole
  <2>3. n \in Int
    OBVIOUS
  <2>4. QED
    BY <1>1, <1>2, <2>1, <2>2, <2>3 DEF Whole
<1>6. ItemSound(j)
  <2>1. At(j, "uses.spent", 0) \in 0..j["uses.max"]
    BY <1>3, <1>4
  <2>2. j.type = "class" => Dnd!Used(j) \in 0..Dnd!Levels(j)
    BY <1>4 DEF ItemFit, ItemSound, Dnd!Used, Dnd!Levels
  <2>3. QED
    BY <2>1, <2>2 DEF ItemSound
<1>7. QED
  BY <1>5, <1>6 DEF ItemFit, j

LEMMA FitDice ==
  ASSUME NEW i, ItemFit(i), Has(i, "type"), i.type = "class", NEW n \in 0..Dnd!Levels(i)
  PROVE  ItemFit(Field("hd.spent", n) ++ i)
<1> DEFINE j == Field("hd.spent", n) ++ i
<1>1. /\ DOMAIN j = DOMAIN i \cup {"hd.spent"} /\ j["hd.spent"] = n
      /\ \A p \in DOMAIN i \ {"hd.spent"} : j[p] = i[p]
  BY DEF Field, ++
<1>2. \A p \in {"type", "uses.max", "uses.spent", "levels"} : (p \in DOMAIN j <=> p \in DOMAIN i) /\ (p \in DOMAIN i => j[p] = i[p])
  BY <1>1
<1>3. /\ j.type = i.type /\ Dnd!At(j, "hd.spent", 0) = n
      /\ \A x : /\ Dnd!At(j, "levels", x) = Dnd!At(i, "levels", x) /\ At(j, "uses.spent", x) = At(i, "uses.spent", x)
                /\ Dnd!At(j, "uses.max", x) = Dnd!At(i, "uses.max", x)
      /\ "uses.max" \in DOMAIN i => j["uses.max"] = i["uses.max"]
  BY <1>1, <1>2 DEF Has, At, Dnd!At
<1> HIDE DEF j
<1>4. Dnd!HasUses(i) => "uses.max" \in DOMAIN i
  <2>1. "uses.max" \notin DOMAIN i => Dnd!At(i, "uses.max", 0) = 0
    BY DEF Dnd!At
  <2>2. QED
    BY <2>1 DEF Dnd!HasUses
<1>5. Whole(j, ItemCounters)
  <2>1. \A p \in ItemCounters : p = "hd.spent" \/ p \in {"type", "uses.max", "uses.spent", "levels"}
    BY DEF ItemCounters
  <2>2. \A p \in DOMAIN i \cap ItemCounters : i[p] \in Int
    BY DEF ItemFit, Whole
  <2>3. n \in Int
    OBVIOUS
  <2>4. QED
    BY <1>1, <1>2, <2>1, <2>2, <2>3 DEF Whole
<1>6. ItemSound(j)
  <2>1. Dnd!HasUses(j) => Dnd!HasUses(i)
    BY <1>3 DEF Dnd!HasUses
  <2>2. Dnd!HasUses(j) => At(j, "uses.spent", 0) \in 0..j["uses.max"]
    BY <1>3, <1>4, <2>1 DEF ItemFit, ItemSound
  <2>3. Dnd!Used(j) \in 0..Dnd!Levels(j)
    BY <1>3 DEF Dnd!Used, Dnd!Levels
  <2>4. QED
    BY <2>2, <2>3 DEF ItemSound
<1>7. QED
  BY <1>5, <1>6 DEF ItemFit, j

\* What is left of a class' dice.
LEMMA DiceOf ==
  ASSUME NEW i, ItemFit(i), i.type = "class"
  PROVE  /\ Dnd!Levels(i) \in Nat /\ Dnd!Used(i) \in 0..Dnd!Levels(i)
         /\ Dnd!Remaining(i) = Dnd!Levels(i) - Dnd!Used(i)
<1>1. Dnd!Levels(i) \in Int
  BY DEF Dnd!Levels, Dnd!At, ItemFit, Whole, ItemCounters
<1>2. Dnd!Used(i) \in 0..Dnd!Levels(i)
  BY DEF ItemFit, ItemSound
<1>3. PICK l \in Int, n \in Int : l = Dnd!Levels(i) /\ n = Dnd!Used(i) /\ 0 <= n /\ n <= l
  BY <1>1, <1>2
<1>4. Dnd!Remaining(i) = Dnd!Max({0, l - n})
  BY <1>3 DEF Dnd!Remaining
<1>5. l - n \in Int /\ l - n >= 0
  BY <1>3
<1>6. \A y \in Int : y >= 0 => Dnd!Max({0, y}) = y
  BY DEF Dnd!Max
<1>7. QED
  BY <1>2, <1>3, <1>4, <1>5, <1>6

LEMMA DiceAreWhole ==
  ASSUME NEW actor, Embeds(actor), \A i \in ToSet(actor.items) : ItemFit(i), NEW size
  PROVE  LET C == Dnd!OfDenomination(actor, size)
         IN /\ Dnd!Total(Dnd!Remaining, C, actor) \in Int
            /\ Dnd!Total(Dnd!Levels, C, actor) \in Int
<1> DEFINE C == Dnd!OfDenomination(actor, size)
           Unused(k) == IF actor.items[k] \in C THEN Dnd!Remaining(actor.items[k]) ELSE 0
           All(k) == IF actor.items[k] \in C THEN Dnd!Levels(actor.items[k]) ELSE 0
           left == [k \in DOMAIN actor.items |-> Unused(k)]
           all == [k \in DOMAIN actor.items |-> All(k)]
<1>1. \A c \in C : c.type = "class" /\ c \in ToSet(actor.items)
  BY DEF Dnd!OfDenomination, Dnd!classItems, Dnd!ItemsOf, Dnd!ToSet, ToSet
<1>2. Dnd!Total(Dnd!Remaining, C, actor) = Dnd!Sum(left) /\ Dnd!Total(Dnd!Levels, C, actor) = Dnd!Sum(all)
  BY DEF Dnd!Total
<1> HIDE DEF C
<1>3. \A k : Unused(k) \in Int /\ All(k) \in Int
  <2>1. \A c \in C : Dnd!Remaining(c) \in Int /\ Dnd!Levels(c) \in Int
    <3>1. ASSUME NEW c \in C PROVE Dnd!Remaining(c) \in Int /\ Dnd!Levels(c) \in Int
      <4>1. Dnd!Levels(c) \in Nat /\ Dnd!Used(c) \in 0..Dnd!Levels(c) /\ Dnd!Remaining(c) = Dnd!Levels(c) - Dnd!Used(c)
        BY <1>1, DiceOf
      <4>2. QED
        BY <4>1
    <3>2. QED
      BY <3>1
  <2>2. QED
    BY <2>1
<1> HIDE DEF Unused, All
<1>4. PICK n \in Nat : DOMAIN actor.items = 1..n
  BY LenProperties DEF Embeds
<1>5. left \in Seq(Int) /\ all \in Seq(Int)
  <2>1. left \in [1..n -> Int] /\ all \in [1..n -> Int]
    BY <1>3, <1>4
  <2>2. QED
    BY <2>1, SeqDef
<1> HIDE DEF left, all
<1>6. QED
  BY <1>2, <1>5, SumIsWhole DEF C

\* Dice are spent of one class, or regained, and never more than it has.
LEMMA FitHitDice ==
  ASSUME NEW doc, Embeds(doc), Typed(doc), NEW derived, Fit(doc, derived),
         NEW actor, actor.items = doc.items, NEW size \in Dnd!Denominations(actor),
         NEW current \in Int, NEW target \in Int
  PROVE  Fit(Applied(doc, Dnd!buildHitDiceUpdate(actor, size, current, target)), derived)
<1> DEFINE C == Dnd!OfDenomination(actor, size)
           left == [c \in C |-> Dnd!Remaining(c)]
           used == [c \in C |-> Dnd!Used(c)]
           levels == [c \in C |-> Dnd!Levels(c)]
           spent == CHOOSE c \in C : \A o \in C :
                      \/ Dnd!Remaining(c) > Dnd!Remaining(o)
                      \/ Dnd!Remaining(c) = Dnd!Remaining(o) /\ Dnd!Levels(c) >= Dnd!Levels(o)
           regained == CHOOSE c \in C : \A o \in C :
                      \/ Dnd!Used(c) > Dnd!Used(o)
                      \/ Dnd!Used(c) = Dnd!Used(o) /\ Dnd!Levels(c) >= Dnd!Levels(o)
           u == Dnd!buildHitDiceUpdate(actor, size, current, target)
<1>1. C # {} /\ \A c \in C : c.type = "class" /\ c \in ToSet(doc.items)
  BY DEF Dnd!Denominations, Dnd!OfDenomination, Dnd!classItems, Dnd!ItemsOf, Dnd!ToSet, ToSet
<1>2. u = IF target < current
          THEN Dnd!OnOneItem(spent.id, "hd.spent",
                 Dnd!Used(spent) + Dnd!Min({current - target, Dnd!Remaining(spent)}))
          ELSE Dnd!OnOneItem(regained.id, "hd.spent",
                 Dnd!Used(regained) - Dnd!Min({target - current, Dnd!Used(regained)}))
  BY DEF Dnd!buildHitDiceUpdate
<1> HIDE DEF C, u
<1>3. \A c \in C : /\ Dnd!Levels(c) \in Nat /\ Dnd!Used(c) \in 0..Dnd!Levels(c)
                   /\ Dnd!Remaining(c) = Dnd!Levels(c) - Dnd!Used(c)
  BY <1>1, DiceOf DEF Fit, GoodsFit
<1>4. \A c \in C : left[c] \in Int /\ used[c] \in Int /\ levels[c] \in Int
  BY <1>3
<1>5. PICK s : Among(C, s)
  <2>1. PICK n \in Nat : DOMAIN doc.items = 1..n
    BY LenProperties DEF Embeds
  <2>2. \A c \in C : \E k \in 1..n : c = doc.items[k]
    BY <1>1, <2>1 DEF ToSet
  <2>3. Among(C, doc.items)
    BY <1>1, <2>1, <2>2 DEF Among
  <2>4. QED
    BY <2>3
<1>6. spent \in C
  <2>1. \E c \in C : \A o \in C : left[c] > left[o] \/ (left[c] = left[o] /\ levels[c] >= levels[o])
    <3> HIDE DEF left, levels
    <3>1. Ranked(C, left, levels)
      BY <1>4, <1>5, BestOf DEF Numbered
    <3>2. QED
      BY <3>1 DEF Ranked
  <2>2. \E c \in C : \A o \in C :
                      \/ Dnd!Remaining(c) > Dnd!Remaining(o)
                      \/ Dnd!Remaining(c) = Dnd!Remaining(o) /\ Dnd!Levels(c) >= Dnd!Levels(o)
    BY <2>1
  <2>3. QED
    BY <2>2
<1>7. regained \in C
  <2>1. \E c \in C : \A o \in C : used[c] > used[o] \/ (used[c] = used[o] /\ levels[c] >= levels[o])
    <3> HIDE DEF used, levels
    <3>1. Ranked(C, used, levels)
      BY <1>4, <1>5, BestOf DEF Numbered
    <3>2. QED
      BY <3>1 DEF Ranked
  <2>2. \E c \in C : \A o \in C :
                      \/ Dnd!Used(c) > Dnd!Used(o)
                      \/ Dnd!Used(c) = Dnd!Used(o) /\ Dnd!Levels(c) >= Dnd!Levels(o)
    BY <2>1
  <2>3. QED
    BY <2>2
<1> HIDE DEF spent, regained
<1>8. ASSUME NEW c \in C, NEW m \in 0..Dnd!Levels(c)
      PROVE  Fit(Applied(doc, Dnd!OnOneItem(c.id, "hd.spent", m)), derived)
  <2>1. ItemFit(c) /\ Has(c, "type") /\ c.type = "class" /\ c \in ToSet(doc.items)
    BY <1>1 DEF Fit, GoodsFit, Typed
  <2>2. ItemFit(Field("hd.spent", m) ++ c)
    BY <1>8, <2>1, FitDice
  <2>3. PICK path : path = "hd.spent"
    OBVIOUS
  <2>4. path \notin {"id", "container"}
    BY <2>3
  <2>5. Fit(Applied(doc, Dnd!OnOneItem(c.id, path, m)), derived)
    BY <2>1, <2>2, <2>3, <2>4, OneOfItems
  <2>6. QED
    BY <2>3, <2>5
<1>9. CASE target < current
  <2>1. PICK m : m = Dnd!Used(spent) + Dnd!Min({current - target, Dnd!Remaining(spent)})
    OBVIOUS
  <2>2. m \in 0..Dnd!Levels(spent)
    <3>1. PICK l \in Nat, k \in Int, t \in Int :
             /\ l = Dnd!Levels(spent) /\ k = Dnd!Used(spent) /\ 0 <= k /\ k <= l
             /\ Dnd!Remaining(spent) = l - k /\ t = current - target /\ t > 0
      BY <1>3, <1>6, <1>9
    <3>2. m = k + Dnd!Min({t, l - k}) /\ l - k \in Int
      BY <2>1, <3>1
    <3>3. Dnd!Min({t, l - k}) = IF t <= l - k THEN t ELSE l - k
      BY <3>2, Least
    <3>4. QED
      BY <3>1, <3>2, <3>3
  <2>3. u = Dnd!OnOneItem(spent.id, "hd.spent", m)
    BY <1>2, <1>9, <2>1
  <2>4. QED
    BY <1>6, <1>8, <2>2, <2>3 DEF u
<1>10. CASE ~(target < current)
  <2>1. PICK m : m = Dnd!Used(regained) - Dnd!Min({target - current, Dnd!Used(regained)})
    OBVIOUS
  <2>2. m \in 0..Dnd!Levels(regained)
    <3>1. PICK l \in Nat, k \in Int, t \in Int :
             /\ l = Dnd!Levels(regained) /\ k = Dnd!Used(regained) /\ 0 <= k /\ k <= l
             /\ t = target - current /\ t >= 0
      BY <1>3, <1>7, <1>10
    <3>2. m = k - Dnd!Min({t, k})
      BY <2>1, <3>1
    <3>3. Dnd!Min({t, k}) = IF t <= k THEN t ELSE k
      BY <3>1, Least
    <3>4. QED
      BY <3>1, <3>2, <3>3
  <2>3. u = Dnd!OnOneItem(regained.id, "hd.spent", m)
    BY <1>2, <1>10, <2>1
  <2>4. QED
    BY <1>7, <1>8, <2>2, <2>3 DEF u
<1>11. QED
  BY <1>9, <1>10 DEF u

-----------------------------------------------------------------------------
(* What the intents of a dnd5e sheet write.                                *)

LEMMA ClampWithin ==
  ASSUME NEW v \in Int, NEW d, NEW high \in Int, "min" \in DOMAIN d, d["min"] = 0,
         "max" \in DOMAIN d, d["max"] = high
  PROVE  /\ Clamp(v, d) \in Int
         /\ high >= 0 => Clamp(v, d) \in 0..high /\ Dnd!Clamp(v, d) \in 0..high
<1> DEFINE above == IF v >= 0 THEN v ELSE 0
<1>1. \A y : /\ At(d, "min", y) = 0 /\ At(d, "max", y) = high
             /\ Dnd!At(d, "min", y) = 0 /\ Dnd!At(d, "max", y) = high
  BY DEF At, Dnd!At
<1>2. \A z \in Int : z = 0 => Max({v, z}) = above /\ Dnd!Max({v, z}) = above
  BY Greatest
<1>3. above \in Int /\ above >= 0
  OBVIOUS
<1>4. Clamp(v, d) = Min({above, high}) /\ Dnd!Clamp(v, d) = Dnd!Min({above, high})
  BY <1>1, <1>2 DEF Clamp, Dnd!Clamp
<1> HIDE DEF above
<1>5. /\ Min({above, high}) = IF above <= high THEN above ELSE high
      /\ Dnd!Min({above, high}) = IF above <= high THEN above ELSE high
  BY <1>3, Least
<1>6. QED
  BY <1>3, <1>4, <1>5

LEMMA ClampAbove ==
  ASSUME NEW v \in Int, NEW d, "min" \in DOMAIN d, d["min"] = 0, "max" \notin DOMAIN d
  PROVE  Clamp(v, d) \in Nat
<1> DEFINE above == IF v >= 0 THEN v ELSE 0
<1>1. \A y : At(d, "min", y) = 0 /\ At(d, "max", y) = y
  BY DEF At
<1>2. \A z \in Int : z = 0 => Max({v, z}) = above
  BY Greatest
<1>3. above \in Int /\ above >= 0
  OBVIOUS
<1>4. Clamp(v, d) = Min({above, above})
  BY <1>1, <1>2 DEF Clamp
<1> HIDE DEF above
<1>5. Min({above, above}) = above
  BY <1>3, Least
<1>6. QED
  BY <1>3, <1>4, <1>5

\* The fields of a counter.
LEMMA Fields ==
  ASSUME NEW id, NEW value
  PROVE  /\ LET d == Dnd!Counter(id, value)
            IN d.id = id /\ d.value = value /\ "min" \in DOMAIN d /\ d["min"] = 0 /\ "max" \notin DOMAIN d
         /\ \A max : LET d == Dnd!Bounded(id, value, max)
                     IN /\ d.id = id /\ d.value = value /\ "min" \in DOMAIN d /\ d["min"] = 0
                        /\ "max" \in DOMAIN d /\ d["max"] = max /\ d.max = max
BY CounterFields DEF Dnd!Counter

\* The counters there are.
LEMMA DndCounters ==
  ASSUME NEW actor, NEW d \in Dnd!dnd5eResources(actor)
  PROVE  \/ d = Dnd!Bounded(<<"hp">>, Hp(actor), HpMax(actor))
         \/ d = Dnd!Counter(<<"hp", "temp">>, Temp(actor))
         \/ \E v : d = Dnd!Bounded(<<"inspiration">>, v, 1)
         \/ \E v : d = Dnd!Bounded(<<"exhaustion">>, v, 6)
         \/ \E k, v : d = Dnd!Bounded(<<"deathsaves", k>>, v, 3)
         \/ \E n \in Dnd!Denominations(actor) :
              d = Dnd!Bounded(<<"hitdice", Dnd!ToString(n)>>,
                              Dnd!Total(Dnd!Remaining, Dnd!OfDenomination(actor, n), actor),
                              Dnd!Total(Dnd!Levels, Dnd!OfDenomination(actor, n), actor))
         \/ \E i \in ToSet(actor.items) : \E v : d = Dnd!Counter(<<"item", i.id, "qty">>, v)
         \/ \E i \in ToSet(actor.items) :
              Dnd!HasUses(i) /\ d = Dnd!Bounded(<<"item", i.id, "uses">>, Dnd!usesLeft(i), i["uses.max"])
         \/ \E p \in Dnd!SlotPools :
              d = Dnd!Bounded(<<"slots", p>>, Dnd!SlotValue(actor.sys, p), Dnd!SlotMax(actor.sys, p))
         \/ \E c, v : d = Dnd!Counter(<<"currency", c>>, v)
         \/ d = [id |-> <<"ac">>, value |-> Dnd!armorClass(actor), writable |-> FALSE]
<1>1. \/ d \in Dnd!Vitals(actor)
      \/ d \in Dnd!ItemCounters(actor)
      \/ \E p \in Dnd!spellSlots(actor.sys) :
           d = Dnd!Bounded(<<"slots", p>>, Dnd!SlotValue(actor.sys, p), Dnd!SlotMax(actor.sys, p))
      \/ \E c : d = Dnd!Counter(<<"currency", c>>, Dnd!At(actor.sys, <<"currency", c>>, 0))
      \/ d = [id |-> <<"ac">>, value |-> Dnd!armorClass(actor), writable |-> FALSE]
  BY Zenon DEF Dnd!dnd5eResources
<1>2. Dnd!spellSlots(actor.sys) \subseteq Dnd!SlotPools
  BY DEF Dnd!spellSlots
<1>3. ASSUME d \in Dnd!Vitals(actor)
      PROVE  \/ d = Dnd!Bounded(<<"hp">>, Hp(actor), HpMax(actor))
             \/ d = Dnd!Counter(<<"hp", "temp">>, Temp(actor))
             \/ \E v : d = Dnd!Bounded(<<"inspiration">>, v, 1)
             \/ \E v : d = Dnd!Bounded(<<"exhaustion">>, v, 6)
             \/ \E k, v : d = Dnd!Bounded(<<"deathsaves", k>>, v, 3)
             \/ \E n \in Dnd!Denominations(actor) :
                  d = Dnd!Bounded(<<"hitdice", Dnd!ToString(n)>>,
                                  Dnd!Total(Dnd!Remaining, Dnd!OfDenomination(actor, n), actor),
                                  Dnd!Total(Dnd!Levels, Dnd!OfDenomination(actor, n), actor))
  BY <1>3, Zenon DEF Dnd!Vitals, Hp, HpMax, Temp
<1>4. ASSUME d \in Dnd!ItemCounters(actor)
      PROVE  \/ \E i \in ToSet(actor.items) : \E v : d = Dnd!Counter(<<"item", i.id, "qty">>, v)
             \/ \E i \in ToSet(actor.items) :
                  Dnd!HasUses(i) /\ d = Dnd!Bounded(<<"item", i.id, "uses">>, Dnd!usesLeft(i), i["uses.max"])
  <2>1. Dnd!ToSet(actor.items) = ToSet(actor.items)
    BY DEF Dnd!ToSet, ToSet
  <2>2. QED
    BY <1>4, <2>1, Zenon DEF Dnd!ItemCounters
<1>5. QED
  BY <1>1, <1>2, <1>3, <1>4, Zenon

\* One of the sheet's own counters is written, or a path nothing is counted at.
LEMMA AppliedSheet ==
  ASSUME NEW doc, Embeds(doc), NEW derived, Fit(doc, derived), NEW data, SheetFit(data ++ doc.sys, derived)
  PROVE  Fit(Applied(doc, [data |-> data]), derived)
<1>1. Applied(doc, [data |-> data]) = [doc EXCEPT !.sys = data ++ doc.sys]
  BY DEF Applied, Has, Embeds
<1>2. PICK sys : sys = data ++ doc.sys
  OBVIOUS
<1>3. Fit([doc EXCEPT !.sys = sys], derived)
  BY <1>2, FitSys
<1>4. QED
  BY <1>1, <1>2, <1>3

LEMMA Uncounted ==
  /\ <<"attributes", "inspiration">> \notin SheetCounters
  /\ <<"attributes", "exhaustion">> \notin SheetCounters
  /\ \A k : <<"attributes", "death", k>> \notin SheetCounters
  /\ \A c : <<"currency", c>> \notin SheetCounters
  /\ <<"hunger", "value">> \notin SheetCounters
  /\ <<"humanity", "stains">> \notin SheetCounters
<1>1. \A p : p \in HitPoints => \E f : p = <<"attributes", "hp", f>>
  BY DEF HitPoints, Dnd!HpPath
<1>2. \A p : p \in Tracks => \E t \in {"health", "willpower"} : \E k : p = <<t, k>>
  BY DEF Tracks, Vampire!Box
<1>3. \A p : p \in SlotPaths(SlotFields) => \E x, f : p = <<"spells", x, f>>
  BY DEF SlotPaths, Dnd!SlotPath
<1>4. \A p : p \in SheetCounters =>
        \/ \E f : p = <<"attributes", "hp", f>>
        \/ \E t \in {"health", "willpower"} : \E k : p = <<t, k>>
        \/ \E x, f : p = <<"spells", x, f>>
  BY <1>1, <1>2, <1>3, PathsApart
<1>5. <<"attributes", "inspiration">> \notin SheetCounters
  BY <1>4
<1>6. <<"attributes", "exhaustion">> \notin SheetCounters
  BY <1>4
<1>7. \A k : <<"attributes", "death", k>> \notin SheetCounters
  BY <1>4
<1>8. \A c : <<"currency", c>> \notin SheetCounters
  BY <1>4
<1>9. <<"hunger", "value">> \notin SheetCounters
  BY <1>4
<1>10. <<"humanity", "stains">> \notin SheetCounters
  BY <1>4
<1>11. QED
  BY <1>5, <1>6, <1>7, <1>8, <1>9, <1>10

LEMMA FitElsewhere ==
  ASSUME NEW doc, Embeds(doc), NEW derived, Fit(doc, derived), NEW path, path \notin SheetCounters, NEW v
  PROVE  /\ Fit(Applied(doc, Dnd!OnActor(path, v)), derived)
         /\ Fit(Applied(doc, [data |-> Field(path, v)]), derived)
<1>1. PICK data : data = Field(path, v)
  OBVIOUS
<1>2. DOMAIN data \cap SheetCounters = {}
  BY <1>1 DEF Field
<1>3. SheetFit(data ++ doc.sys, derived)
  BY <1>2, FitSheet DEF Fit
<1>4. Fit(Applied(doc, [data |-> data]), derived)
  BY <1>3, AppliedSheet
<1>5. Dnd!OnActor(path, v) = [data |-> data]
  BY <1>1 DEF Dnd!OnActor, Dnd!Field, Field
<1>6. QED
  BY <1>1, <1>4, <1>5

LEMMA FitTemp ==
  ASSUME NEW sys, NEW derived, SheetFit(sys, derived), NEW n \in Nat
  PROVE  SheetFit(Field(Dnd!HpPath("temp"), n) ++ sys, derived)
<1> DEFINE hp == Dnd!HpPath("value")
           max == Dnd!HpPath("max")
           temp == Dnd!HpPath("temp")
           new == Field(temp, n) ++ sys
<1>1. hp # temp /\ max # temp /\ hp \in HitPoints /\ max \in HitPoints /\ temp \in HitPoints
  BY PathsApart DEF Dnd!HpPath
<1>2. DOMAIN Field(temp, n) \subseteq HitPoints
  BY <1>1 DEF Field
<1> HIDE DEF hp, max, temp
<1>3. /\ new[temp] = n /\ temp \in DOMAIN new /\ DOMAIN new = DOMAIN sys \cup {temp}
      /\ \A p : p # temp /\ p \in DOMAIN sys => new[p] = sys[p]
  BY DEF Field, ++
<1>a. new = Field(temp, n) ++ sys
  OBVIOUS
<1> HIDE DEF new
<1>4. Whole(new, HitPoints)
  BY <1>3 DEF SheetFit, HpFit, Whole
<1>5. At(new, temp, 0) = n /\ \A x : At(new, hp, x) = At(sys, hp, x) /\ At(new, max, x) = At(sys, max, x)
  BY <1>1, <1>3 DEF At
<1>6. HpFit(new)
  BY <1>4, <1>5 DEF SheetFit, HpFit, HitPointsSound, hp, max, temp
<1>7. QED
  BY <1>2, <1>6, <1>a, FitSheet DEF temp

\* A character as it is read: its items are those of the document, its hit
\* points as well, and it has no more slots than Foundry makes of them.
Likely(actor, doc, derived) ==
  /\ actor.items = doc.items
  /\ Hp(actor) = Hp(doc) /\ Temp(actor) = Temp(doc) /\ HpMax(actor) = HpMax(doc)
  /\ \A p \in Dnd!SlotPools :
       /\ Dnd!SlotValue(actor.sys, p) \in Nat /\ Dnd!SlotMax(actor.sys, p) \in Nat
       /\ Has(derived, Dnd!SlotPath(p, "max")) =>
            Dnd!SlotMax(actor.sys, p) <= derived[Dnd!SlotPath(p, "max")]

LEMMA HpOfFit ==
  ASSUME NEW doc, NEW derived, Fit(doc, derived)
  PROVE  /\ HpMax(doc) \in Nat /\ Hp(doc) \in 0..HpMax(doc) /\ Temp(doc) \in Nat
         /\ Has(doc.sys, Dnd!HpPath("max")) => HpMax(doc) = doc.sys[Dnd!HpPath("max")]
<1>1. /\ Hp(doc) = At(doc.sys, Dnd!HpPath("value"), 0) /\ Temp(doc) = At(doc.sys, Dnd!HpPath("temp"), 0)
      /\ HpMax(doc) = At(doc.sys, Dnd!HpPath("max"), Hp(doc))
  BY DEF Hp, Temp, HpMax, At, Dnd!At
<1> HIDE DEF Hp, Temp, HpMax
<1>2. Hp(doc) \in 0..HpMax(doc) /\ Temp(doc) \in Nat
  BY <1>1 DEF Fit, SheetFit, HpFit, HitPointsSound
<1>3. Hp(doc) \in Int
  BY <1>1, PathsApart DEF Fit, SheetFit, HpFit, Whole, At
<1>4. HpMax(doc) \in Int
  BY <1>1, <1>3, PathsApart DEF Fit, SheetFit, HpFit, Whole, At
<1>5. HpMax(doc) \in Nat
  BY <1>2, <1>4
<1>6. QED
  BY <1>1, <1>2, <1>5 DEF At, Has

LEMMA FitHpWritten ==
  ASSUME NEW doc, Embeds(doc), NEW derived, Fit(doc, derived), NEW n \in 0..HpMax(doc)
  PROVE  /\ SheetFit(Field(Dnd!HpPath("value"), n) ++ doc.sys, derived)
         /\ Fit(Applied(doc, Dnd!OnActor(Dnd!HpPath("value"), n)), derived)
<1>1. n \in Int /\ n >= 0 /\ n <= HpMax(doc)
  BY HpOfFit
<1>2. Has(doc.sys, Dnd!HpPath("max")) => n <= doc.sys[Dnd!HpPath("max")]
  BY <1>1, HpOfFit
<1>3. PICK data : data = Field(Dnd!HpPath("value"), n)
  OBVIOUS
<1>4. SheetFit(Field(Dnd!HpPath("value"), n) ++ doc.sys, derived)
  BY <1>1, <1>2, FitHp DEF Fit
<1>5. Fit(Applied(doc, [data |-> data]), derived)
  BY <1>3, <1>4, AppliedSheet
<1>6. Dnd!OnActor(Dnd!HpPath("value"), n) = [data |-> data]
  BY <1>3 DEF Dnd!OnActor, Dnd!Field, Field
<1>7. QED
  BY <1>4, <1>5, <1>6

LEMMA FitHpAndTemp ==
  ASSUME NEW doc, Embeds(doc), NEW derived, Fit(doc, derived), NEW n \in 0..HpMax(doc), NEW t \in Nat
  PROVE  Fit(Applied(doc, [data |-> Field(Dnd!HpPath("value"), n) ++ Field(Dnd!HpPath("temp"), t)]), derived)
<1>1. PICK a, b : a = Field(Dnd!HpPath("value"), n) /\ b = Field(Dnd!HpPath("temp"), t)
  OBVIOUS
<1>2. SheetFit(b ++ doc.sys, derived)
  BY <1>1, FitTemp DEF Fit
<1>3. PICK sys : sys = b ++ doc.sys
  OBVIOUS
<1>4. Has(sys, Dnd!HpPath("max")) => Has(doc.sys, Dnd!HpPath("max")) /\ sys[Dnd!HpPath("max")] = doc.sys[Dnd!HpPath("max")]
  BY <1>1, <1>3 DEF Has, Field, ++, Dnd!HpPath
<1>5. n \in Int /\ n >= 0 /\ n <= HpMax(doc)
  BY HpOfFit
<1>6. SheetFit(a ++ sys, derived)
  <2>1. Has(sys, Dnd!HpPath("max")) => n <= sys[Dnd!HpPath("max")]
    BY <1>4, <1>5, HpOfFit
  <2>2. SheetFit(Field(Dnd!HpPath("value"), n) ++ sys, derived)
    BY <1>2, <1>3, <1>5, <2>1, FitHp
  <2>3. QED
    BY <1>1, <2>2
<1>7. a ++ sys = (a ++ b) ++ doc.sys
  <2>1. a ++ (b ++ doc.sys) = (a ++ b) ++ doc.sys
    BY DEF ++
  <2>2. QED
    BY <1>3, <2>1
<1>8. PICK data : data = a ++ b
  OBVIOUS
<1>9. Fit(Applied(doc, [data |-> data]), derived)
  BY <1>6, <1>7, <1>8, AppliedSheet
<1>10. QED
  BY <1>1, <1>8, <1>9

\* The hit points: a literal write, or damage that the temporary ones absorb.
LEMMA FitHpUpdate ==
  ASSUME NEW doc, Embeds(doc), NEW derived, Fit(doc, derived),
         NEW actor, Likely(actor, doc, derived), NEW d, d = Dnd!Bounded(<<"hp">>, Hp(actor), HpMax(actor)),
         NEW intent, intent.kind = "delta" => intent.amount \in Int, NEW target \in 0..HpMax(doc)
  PROVE  Fit(Applied(doc, Dnd!HpUpdate(actor, d, intent, target)), derived)
<1>1. /\ d.value = Hp(doc) /\ "min" \in DOMAIN d /\ d["min"] = 0
      /\ "max" \in DOMAIN d /\ d["max"] = HpMax(doc)
  <2>1. PICK id, value, max : id = <<"hp">> /\ value = Hp(actor) /\ max = HpMax(actor)
    OBVIOUS
  <2>2. d = Dnd!Bounded(id, value, max)
    BY <2>1
  <2>3. Hp(actor) = Hp(doc) /\ HpMax(actor) = HpMax(doc)
    BY DEF Likely
  <2>4. d.value = value /\ "min" \in DOMAIN d /\ d["min"] = 0 /\ "max" \in DOMAIN d /\ d["max"] = max
    BY <2>2, CounterFields
  <2>5. QED
    BY <2>1, <2>3, <2>4
<1>2. CASE ~(intent.kind = "delta" /\ intent.amount < 0)
  <2>1. Dnd!HpUpdate(actor, d, intent, target) = Dnd!OnActor(Dnd!HpPath("value"), target)
    BY <1>2, Zenon DEF Dnd!HpUpdate
  <2>2. QED
    BY <2>1, FitHpWritten
<1>3. CASE intent.kind = "delta" /\ intent.amount < 0
  <2>1. PICK n, t \in Int : n = intent.amount /\ n \in Int /\ n < 0 /\ t = Temp(actor) /\ t >= 0
    BY <1>3, HpOfFit DEF Likely
  <2>2. PICK absorbed : absorbed = Dnd!Min({t, -n})
    OBVIOUS
  <2>3. absorbed \in Int /\ absorbed <= t
    <3>1. -n \in Int
      BY <2>1
    <3>2. Dnd!Min({t, -n}) = IF t <= -n THEN t ELSE -n
      BY <3>1, <2>1, Least
    <3>3. QED
      BY <2>1, <2>2, <3>1, <3>2
  <2>4. PICK value : value = Dnd!Clamp(d.value + intent.amount + absorbed, d)
    OBVIOUS
  <2>5. value \in 0..HpMax(doc)
    <3>1. Hp(doc) \in Int /\ HpMax(doc) \in Int /\ HpMax(doc) >= 0
      BY HpOfFit
    <3>2. PICK sum \in Int : sum = d.value + intent.amount + absorbed
      BY <1>1, <2>1, <2>3, <3>1
    <3>3. Dnd!Clamp(sum, d) \in 0..HpMax(doc)
      BY <1>1, <3>1, <3>2, ClampWithin
    <3>4. QED
      BY <2>4, <3>2, <3>3
  <2>6. Dnd!HpUpdate(actor, d, intent, target)
          = [data |-> Dnd!With(Dnd!Field(Dnd!HpPath("value"), value), absorbed > 0,
                               Dnd!Field(Dnd!HpPath("temp"), t - absorbed))]
    BY <1>3, <2>1, <2>2, <2>4, Zenon DEF Dnd!HpUpdate, Temp
  <2>7. PICK left : left = t - absorbed
    OBVIOUS
  <2>8. left \in Nat
    BY <2>1, <2>3, <2>7
  <2>9. CASE absorbed > 0
    <3>1. Dnd!HpUpdate(actor, d, intent, target)
            = [data |-> Field(Dnd!HpPath("value"), value) ++ Field(Dnd!HpPath("temp"), left)]
      BY <2>6, <2>7, <2>9 DEF Dnd!With, Dnd!Field, Field, Dnd!++, ++
    <3>2. QED
      BY <2>5, <2>8, <3>1, FitHpAndTemp
  <2>10. CASE ~(absorbed > 0)
    <3>1. Dnd!HpUpdate(actor, d, intent, target) = Dnd!OnActor(Dnd!HpPath("value"), value)
      BY <2>6, <2>10 DEF Dnd!With, Dnd!OnActor
    <3>2. QED
      BY <2>5, <3>1, FitHpWritten
  <2>11. QED
    BY <2>9, <2>10
<1>4. QED
  BY <1>2, <1>3

\* Slots, of a pool of the sheet.
LEMMA FitSlots ==
  ASSUME NEW doc, Embeds(doc), NEW derived, Fit(doc, derived), NEW p \in Dnd!SlotPools, NEW n \in Nat,
         Has(derived, Dnd!SlotPath(p, "max")) =>
           /\ derived[Dnd!SlotPath(p, "max")] \in Int /\ n <= derived[Dnd!SlotPath(p, "max")]
  PROVE  Fit(Applied(doc, Dnd!OnActor(Dnd!SlotPath(p, "value"), n)), derived)
<1> DEFINE path == Dnd!SlotPath(p, "value")
           sys == doc.sys
           new == Field(path, n) ++ sys
<1>1. path \in SlotPaths(SlotFields)
  BY PathsApart DEF SlotFields
<1>2. /\ new[path] = n /\ path \in DOMAIN new /\ DOMAIN new = DOMAIN sys \cup {path}
      /\ \A q : q # path /\ q \in DOMAIN sys => new[q] = sys[q]
  BY DEF Field, ++
<1>3. DOMAIN Field(path, n) \subseteq SlotPaths(SlotFields)
  BY <1>1 DEF Field
<1>4. \A q, f : Dnd!SlotPath(q, f) = path => q = p /\ f = "value"
  BY DEF Dnd!SlotPath
<1>5. SlotsFit(sys, derived)
  BY DEF Fit, SheetFit
<1>6. path = Dnd!SlotPath(p, "value") /\ new = Field(path, n) ++ doc.sys
  OBVIOUS
<1> HIDE DEF path, new, sys
<1>7. Dnd!SlotValue(new, p) = n /\ \A q \in Dnd!SlotPools \ {p} : Dnd!SlotValue(new, q) = Dnd!SlotValue(sys, q)
  BY <1>2, <1>4, <1>6 DEF Dnd!SlotValue, Dnd!At
<1>8. SlotsSound(new, derived)
  <2>1. ASSUME NEW q \in Dnd!SlotPools
        PROVE  Dnd!SlotValue(new, q) \in 0..At(derived, Dnd!SlotPath(q, "max"), Dnd!SlotValue(new, q))
    <3>1. CASE q # p
      BY <1>5, <1>7, <3>1 DEF SlotsFit, SlotsSound
    <3>2. CASE q = p
      <4>1. PICK m : m = At(derived, Dnd!SlotPath(q, "max"), Dnd!SlotValue(new, q))
        OBVIOUS
      <4>2. m \in Int /\ n <= m
        BY <1>7, <3>2, <4>1 DEF At, Has
      <4>3. QED
        BY <1>7, <3>2, <4>1, <4>2
    <3>3. QED
      BY <3>1, <3>2
  <2>2. QED
    BY <2>1 DEF SlotsSound
<1>9. Whole(new, SlotPaths(SlotFields))
  BY <1>2, <1>5 DEF SlotsFit, Whole
<1>10. ASSUME NEW q \in Dnd!SlotPools, NEW f \in {"max", "override"},
              Has(new, Dnd!SlotPath(q, f)), Has(derived, Dnd!SlotPath(q, "max"))
       PROVE  new[Dnd!SlotPath(q, f)] <= derived[Dnd!SlotPath(q, "max")]
  <2>1. Dnd!SlotPath(q, f) # path
    BY <1>4
  <2>2. QED
    BY <1>2, <1>5, <1>10, <2>1 DEF SlotsFit, Has
<1>11. SlotsFit(new, derived)
  BY <1>8, <1>9, <1>10 DEF SlotsFit
<1>12. PICK data : data = Field(path, n)
  OBVIOUS
<1>13. SheetFit(data ++ doc.sys, derived)
  BY <1>3, <1>6, <1>11, <1>12, FitSheet DEF Fit
<1>14. Fit(Applied(doc, [data |-> data]), derived)
  BY <1>13, AppliedSheet
<1>15. Dnd!OnActor(path, n) = [data |-> data]
  BY <1>12 DEF Dnd!OnActor, Dnd!Field, Field
<1>16. QED
  BY <1>6, <1>14, <1>15

\* Where a counter is stored.
LEMMA DndPaths ==
  /\ Dnd!PathOf(<<"hp", "temp">>) = Dnd!HpPath("temp")
  /\ Dnd!PathOf(<<"exhaustion">>) = <<"attributes", "exhaustion">>
  /\ \A k : Dnd!PathOf(<<"deathsaves", k>>) = <<"attributes", "death", k>>
  /\ \A p : Dnd!PathOf(<<"slots", p>>) = Dnd!SlotPath(p, "value")
  /\ \A c : Dnd!PathOf(<<"currency", c>>) = <<"currency", c>>
<1>1. ASSUME NEW id
      PROVE  /\ id = <<"hp", "temp">> /\ id[1] \notin {"deathsaves", "exhaustion", "slots", "currency"}
                  => Dnd!PathOf(id) = Dnd!HpPath("temp")
             /\ id # <<"hp", "temp">> /\ id[1] = "exhaustion" => Dnd!PathOf(id) = <<"attributes", "exhaustion">>
             /\ id # <<"hp", "temp">> /\ id[1] = "deathsaves" => Dnd!PathOf(id) = <<"attributes", "death", id[2]>>
             /\ id # <<"hp", "temp">> /\ id[1] = "slots" => Dnd!PathOf(id) = Dnd!SlotPath(id[2], "value")
             /\ id # <<"hp", "temp">> /\ id[1] = "currency" => Dnd!PathOf(id) = <<"currency", id[2]>>
  BY Zenon DEF Dnd!PathOf
<1>2. Dnd!PathOf(<<"hp", "temp">>) = Dnd!HpPath("temp")
  BY <1>1
<1>3. Dnd!PathOf(<<"exhaustion">>) = <<"attributes", "exhaustion">>
  BY <1>1
<1>4. \A k : Dnd!PathOf(<<"deathsaves", k>>) = <<"attributes", "death", k>>
  BY <1>1
<1>5. \A p : Dnd!PathOf(<<"slots", p>>) = Dnd!SlotPath(p, "value")
  BY <1>1
<1>6. \A c : Dnd!PathOf(<<"currency", c>>) = <<"currency", c>>
  BY <1>1
<1>7. QED
  BY <1>2, <1>3, <1>4, <1>5, <1>6

\* What is written for each.
LEMMA WriteOfHp ==
  ASSUME NEW actor, NEW d, NEW intent, NEW target, NEW id, d.id = id,
         id = <<"hp">>, id[1] = "hp"
  PROVE  Dnd!dnd5eWrite(actor, d, intent, target) = Dnd!HpUpdate(actor, d, intent, target)
BY Zenon DEF Dnd!dnd5eWrite

LEMMA WriteOfInspiration ==
  ASSUME NEW actor, NEW d, NEW intent, NEW target, NEW id, d.id = id,
         id # <<"hp">>, id[1] = "inspiration"
  PROVE  Dnd!dnd5eWrite(actor, d, intent, target) = Dnd!OnActor(<<"attributes", "inspiration">>, target = 1)
BY Zenon DEF Dnd!dnd5eWrite

LEMMA WriteOfQuantity ==
  ASSUME NEW actor, NEW d, NEW intent, NEW target, NEW id, d.id = id,
         id # <<"hp">>, id[1] = "item", id[3] = "qty"
  PROVE  Dnd!dnd5eWrite(actor, d, intent, target) = Dnd!OnOneItem(id[2], "quantity", target)
BY Zenon DEF Dnd!dnd5eWrite

LEMMA WriteOfUses ==
  ASSUME NEW actor, NEW d, NEW intent, NEW target, NEW id, d.id = id,
         id # <<"hp">>, id[1] = "item", id[3] = "uses"
  PROVE  Dnd!dnd5eWrite(actor, d, intent, target) = Dnd!OnOneItem(id[2], "uses.spent", d.max - target)
BY Zenon DEF Dnd!dnd5eWrite

LEMMA WriteOfDice ==
  ASSUME NEW actor, NEW d, NEW intent, NEW target, NEW id, d.id = id,
         id # <<"hp">>, id[1] = "hitdice",
         NEW size, size = CHOOSE n \in Dnd!Denominations(actor) : Dnd!ToString(n) = id[2]
  PROVE  Dnd!dnd5eWrite(actor, d, intent, target) = Dnd!buildHitDiceUpdate(actor, size, d.value, target)
BY Zenon DEF Dnd!dnd5eWrite

LEMMA WriteOfPath ==
  ASSUME NEW actor, NEW d, NEW intent, NEW target, NEW id, d.id = id,
         id # <<"hp">>, id[1] \in {"hp", "exhaustion", "deathsaves", "slots", "currency"}
  PROVE  Dnd!dnd5eWrite(actor, d, intent, target) = Dnd!OnActor(Dnd!PathOf(id), target)
BY Zenon DEF Dnd!dnd5eWrite

\* What an intent asks for, before it is clamped.
Wish(d, intent) == IF intent.kind = "set" THEN intent.value ELSE d.value + intent.amount
Numeric(intent) ==
  /\ intent.kind \in {"set", "delta"}
  /\ intent.kind = "set" => intent.value \in Int
  /\ intent.kind = "delta" => intent.amount \in Int

LEMMA WishIsWhole ==
  ASSUME NEW d, NEW intent, Numeric(intent), d.value \in Int
  PROVE  Wish(d, intent) \in Int
BY DEF Wish, Numeric

\* A counter of the sheet whose maximum is a number.
LEMMA TargetWithin ==
  ASSUME NEW id, NEW value \in Int, NEW max \in Int, NEW intent, Numeric(intent)
  PROVE  LET d == Dnd!Bounded(id, value, max)
         IN /\ Clamp(Wish(d, intent), d) \in Int
            /\ max >= 0 => Clamp(Wish(d, intent), d) \in 0..max
<1>1. PICK d : d = Dnd!Bounded(id, value, max)
  OBVIOUS
<1>2. d.value = value /\ "min" \in DOMAIN d /\ d["min"] = 0 /\ "max" \in DOMAIN d /\ d["max"] = max
  BY <1>1, CounterFields
<1>3. Wish(d, intent) \in Int
  BY <1>2, WishIsWhole
<1>4. Clamp(Wish(d, intent), d) \in Int /\ (max >= 0 => Clamp(Wish(d, intent), d) \in 0..max)
  BY <1>2, <1>3, ClampWithin
<1>5. QED
  BY <1>1, <1>4

LEMMA TargetAbove ==
  ASSUME NEW id, NEW value \in Int, NEW intent, Numeric(intent)
  PROVE  LET d == Dnd!Counter(id, value) IN Clamp(Wish(d, intent), d) \in Nat
<1>1. PICK d : d = Dnd!Counter(id, value)
  OBVIOUS
<1>2. d.value = value /\ "min" \in DOMAIN d /\ d["min"] = 0 /\ "max" \notin DOMAIN d
  BY <1>1 DEF Dnd!Counter
<1>3. Wish(d, intent) \in Int
  BY <1>2, WishIsWhole
<1>4. Clamp(Wish(d, intent), d) \in Nat
  BY <1>2, <1>3, ClampAbove
<1>5. QED
  BY <1>1, <1>4

LEMMA HpIntent ==
  ASSUME NEW doc, Embeds(doc), NEW derived, Fit(doc, derived),
         NEW actor, Likely(actor, doc, derived), NEW d, d = Dnd!Bounded(<<"hp">>, Hp(actor), HpMax(actor)),
         NEW intent, Numeric(intent)
  PROVE  Fit(Applied(doc, Dnd!dnd5eWrite(actor, d, intent, Clamp(Wish(d, intent), d))), derived)
<1>1. PICK id, value, max : id = <<"hp">> /\ value = Hp(actor) /\ max = HpMax(actor)
  OBVIOUS
<1>2. d = Dnd!Bounded(id, value, max)
  BY <1>1
<1>3. d.id = id
  BY <1>2, CounterFields
<1>4. value \in Int /\ max \in Int /\ max >= 0 /\ max = HpMax(doc)
  BY <1>1, HpOfFit DEF Likely
<1>5. PICK target : target = Clamp(Wish(d, intent), d)
  OBVIOUS
<1>6. target \in 0..HpMax(doc)
  BY <1>2, <1>4, <1>5, TargetWithin
<1>7. Dnd!dnd5eWrite(actor, d, intent, target) = Dnd!HpUpdate(actor, d, intent, target)
  <2>1. id[1] = "hp"
    BY <1>1
  <2>2. QED
    BY <1>1, <1>3, <2>1, WriteOfHp
<1>8. Fit(Applied(doc, Dnd!HpUpdate(actor, d, intent, target)), derived)
  BY <1>6, FitHpUpdate DEF Numeric
<1>9. QED
  BY <1>5, <1>7, <1>8

LEMMA TempIntent ==
  ASSUME NEW doc, Embeds(doc), NEW derived, Fit(doc, derived),
         NEW actor, Likely(actor, doc, derived), NEW d, d = Dnd!Counter(<<"hp", "temp">>, Temp(actor)),
         NEW intent, Numeric(intent)
  PROVE  Fit(Applied(doc, Dnd!dnd5eWrite(actor, d, intent, Clamp(Wish(d, intent), d))), derived)
<1>1. PICK id, value : id = <<"hp", "temp">> /\ value = Temp(actor)
  OBVIOUS
<1>2. d = Dnd!Counter(id, value)
  BY <1>1
<1>3. d.id = id
  BY <1>2 DEF Dnd!Counter
<1>4. value \in Int
  BY <1>1, HpOfFit DEF Likely
<1>5. PICK target : target = Clamp(Wish(d, intent), d)
  OBVIOUS
<1>6. target \in Nat
  BY <1>2, <1>4, <1>5, TargetAbove
<1>7. Dnd!dnd5eWrite(actor, d, intent, target) = Dnd!OnActor(Dnd!HpPath("temp"), target)
  <2>1. id # <<"hp">> /\ id[1] = "hp"
    BY <1>1
  <2>2. Dnd!dnd5eWrite(actor, d, intent, target) = Dnd!OnActor(Dnd!PathOf(id), target)
    BY <1>3, <2>1, WriteOfPath
  <2>3. QED
    BY <1>1, <2>2, DndPaths
<1>8. PICK data : data = Field(Dnd!HpPath("temp"), target)
  OBVIOUS
<1>9. SheetFit(data ++ doc.sys, derived)
  BY <1>6, <1>8, FitTemp DEF Fit
<1>10. Fit(Applied(doc, [data |-> data]), derived)
  BY <1>9, AppliedSheet
<1>11. Dnd!OnActor(Dnd!HpPath("temp"), target) = [data |-> data]
  BY <1>8 DEF Dnd!OnActor, Dnd!Field, Field
<1>12. QED
  BY <1>5, <1>7, <1>10, <1>11

LEMMA ElsewhereIntent ==
  ASSUME NEW doc, Embeds(doc), NEW derived, Fit(doc, derived), NEW actor, NEW d, NEW intent, NEW target,
         \/ d.id = <<"inspiration">> \/ d.id = <<"exhaustion">>
         \/ \E k : d.id = <<"deathsaves", k>> \/ d.id = <<"currency", k>>
  PROVE  Fit(Applied(doc, Dnd!dnd5eWrite(actor, d, intent, target)), derived)
<1> DEFINE w == Dnd!dnd5eWrite(actor, d, intent, target)
<1>0. PICK id : id = d.id
  OBVIOUS
<1>1. \E path, v : path \notin SheetCounters /\ w = Dnd!OnActor(path, v)
  <2>1. CASE id = <<"inspiration">>
    <3>1. id # <<"hp">> /\ id[1] = "inspiration"
      BY <2>1
    <3>2. w = Dnd!OnActor(<<"attributes", "inspiration">>, target = 1)
      BY <1>0, <3>1, WriteOfInspiration
    <3> HIDE DEF w
    <3>3. QED
      BY <3>2, Uncounted
  <2>2. CASE id = <<"exhaustion">>
    <3>1. id # <<"hp">> /\ id[1] = "exhaustion"
      BY <2>2
    <3>2. w = Dnd!OnActor(Dnd!PathOf(id), target)
      BY <1>0, <3>1, WriteOfPath
    <3>3. Dnd!PathOf(id) = <<"attributes", "exhaustion">>
      BY <2>2, DndPaths
    <3> HIDE DEF w
    <3>4. QED
      BY <3>2, <3>3, Uncounted
  <2>3. CASE \E k : id = <<"deathsaves", k>> \/ id = <<"currency", k>>
    <3>1. PICK k : id = <<"deathsaves", k>> \/ id = <<"currency", k>>
      BY <2>3
    <3>2. id # <<"hp">> /\ id[1] \in {"deathsaves", "currency"}
      BY <3>1
    <3>3. w = Dnd!OnActor(Dnd!PathOf(id), target)
      BY <1>0, <3>2, WriteOfPath
    <3>4. Dnd!PathOf(id) = <<"attributes", "death", k>> \/ Dnd!PathOf(id) = <<"currency", k>>
      BY <3>1, DndPaths
    <3> HIDE DEF w
    <3>5. QED
      BY <3>3, <3>4, Uncounted
  <2>4. QED
    BY <1>0, <2>1, <2>2, <2>3
<1> HIDE DEF w
<1>2. Fit(Applied(doc, w), derived)
  BY <1>1, FitElsewhere
<1>3. QED
  BY <1>2 DEF w

LEMMA SlotIntent ==
  ASSUME NEW doc, Embeds(doc), NEW derived, Whole(derived, SlotPaths({"max"})), Fit(doc, derived),
         NEW actor, Likely(actor, doc, derived), NEW p \in Dnd!SlotPools,
         NEW d, d = Dnd!Bounded(<<"slots", p>>, Dnd!SlotValue(actor.sys, p), Dnd!SlotMax(actor.sys, p)),
         NEW intent, Numeric(intent)
  PROVE  Fit(Applied(doc, Dnd!dnd5eWrite(actor, d, intent, Clamp(Wish(d, intent), d))), derived)
<1>1. PICK id, value, max : id = <<"slots", p>> /\ value = Dnd!SlotValue(actor.sys, p) /\ max = Dnd!SlotMax(actor.sys, p)
  OBVIOUS
<1>2. d = Dnd!Bounded(id, value, max)
  BY <1>1
<1>3. d.id = id
  BY <1>2, CounterFields
<1>4. value \in Int /\ max \in Int /\ max >= 0
      /\ (Has(derived, Dnd!SlotPath(p, "max")) => max <= derived[Dnd!SlotPath(p, "max")])
  BY <1>1 DEF Likely
<1>5. PICK target : target = Clamp(Wish(d, intent), d)
  OBVIOUS
<1>6. target \in 0..max
  BY <1>2, <1>4, <1>5, TargetWithin
<1>7. Dnd!dnd5eWrite(actor, d, intent, target) = Dnd!OnActor(Dnd!SlotPath(p, "value"), target)
  <2>1. id # <<"hp">> /\ id[1] = "slots"
    BY <1>1
  <2>2. Dnd!dnd5eWrite(actor, d, intent, target) = Dnd!OnActor(Dnd!PathOf(id), target)
    BY <1>3, <2>1, WriteOfPath
  <2>3. QED
    BY <1>1, <2>2, DndPaths
<1>8. Has(derived, Dnd!SlotPath(p, "max")) =>
        derived[Dnd!SlotPath(p, "max")] \in Int /\ target <= derived[Dnd!SlotPath(p, "max")]
  <2>1. Has(derived, Dnd!SlotPath(p, "max")) => derived[Dnd!SlotPath(p, "max")] \in Int
    BY DEF Whole, SlotPaths, Has
  <2>2. target \in Int /\ target <= max
    BY <1>4, <1>6
  <2>3. QED
    BY <1>4, <2>1, <2>2
<1>9. target \in Nat
  BY <1>4, <1>6
<1>10. Fit(Applied(doc, Dnd!OnActor(Dnd!SlotPath(p, "value"), target)), derived)
  BY <1>8, <1>9, FitSlots
<1>11. QED
  BY <1>5, <1>7, <1>10

LEMMA QuantityIntent ==
  ASSUME NEW doc, Embeds(doc), Typed(doc), NEW derived, Fit(doc, derived), NEW actor, NEW i \in ToSet(doc.items),
         NEW d, d.id = <<"item", i.id, "qty">>, NEW intent, NEW target
  PROVE  Fit(Applied(doc, Dnd!dnd5eWrite(actor, d, intent, target)), derived)
<1>1. PICK id : id = d.id
  OBVIOUS
<1>2. id # <<"hp">> /\ id[1] = "item" /\ id[3] = "qty" /\ id[2] = i.id
  BY <1>1
<1>3. Dnd!dnd5eWrite(actor, d, intent, target) = Dnd!OnOneItem(i.id, "quantity", target)
  BY <1>1, <1>2, WriteOfQuantity
<1>4. PICK path : path = "quantity"
  OBVIOUS
<1>5. ItemFit(Field(path, target) ++ i)
  <2>1. DOMAIN Field(path, target) \cap ({"type"} \cup ItemCounters) = {}
    BY <1>4 DEF Field, ItemCounters
  <2>2. QED
    BY <2>1, ItemSpared DEF Fit, GoodsFit, Typed
<1>6. path \notin {"id", "container"}
  BY <1>4
<1>7. Fit(Applied(doc, Dnd!OnOneItem(i.id, path, target)), derived)
  BY <1>5, <1>6, OneOfItems
<1>8. QED
  BY <1>3, <1>4, <1>7

LEMMA UsesIntent ==
  ASSUME NEW doc, Embeds(doc), Typed(doc), NEW derived, Fit(doc, derived), NEW actor, NEW i \in ToSet(doc.items),
         Dnd!HasUses(i), NEW d, d = Dnd!Bounded(<<"item", i.id, "uses">>, Dnd!usesLeft(i), i["uses.max"]),
         NEW intent, Numeric(intent)
  PROVE  Fit(Applied(doc, Dnd!dnd5eWrite(actor, d, intent, Clamp(Wish(d, intent), d))), derived)
<1>1. PICK id, value, max : id = <<"item", i.id, "uses">> /\ value = Dnd!usesLeft(i) /\ max = i["uses.max"]
  OBVIOUS
<1>2. d = Dnd!Bounded(id, value, max)
  BY <1>1
<1>3. d.id = id /\ d.max = max
  BY <1>2, CounterFields
<1>4. ItemFit(i) /\ Has(i, "type")
  BY DEF Fit, GoodsFit, Typed
<1>5. max \in Int /\ max > 0 /\ Dnd!At(i, "uses.spent", 0) \in Int
  <2>1. "uses.max" \notin DOMAIN i => Dnd!At(i, "uses.max", 0) = 0
    BY DEF Dnd!At
  <2>2. "uses.max" \in DOMAIN i
    BY <2>1 DEF Dnd!HasUses
  <2>3. max \in Int
    BY <1>1, <1>4, <2>2 DEF ItemFit, Whole, ItemCounters
  <2>4. Dnd!At(i, "uses.spent", 0) \in Int
    BY <1>4 DEF ItemFit, Whole, ItemCounters, Dnd!At
  <2>5. QED
    BY <1>1, <2>2, <2>3, <2>4 DEF Dnd!HasUses, Dnd!At
<1>6. value \in Int
  <2>1. PICK left \in Int : left = i["uses.max"] - Dnd!At(i, "uses.spent", 0)
    BY <1>1, <1>5
  <2>2. value = Dnd!Max({0, left})
    BY <1>1, <2>1 DEF Dnd!usesLeft
  <2>3. \A y \in Int : Dnd!Max({0, y}) = IF 0 >= y THEN 0 ELSE y
    BY DEF Dnd!Max
  <2>4. QED
    BY <2>2, <2>3
<1>7. PICK target : target = Clamp(Wish(d, intent), d)
  OBVIOUS
<1>8. target \in 0..max
  BY <1>2, <1>5, <1>6, <1>7, TargetWithin
<1>9. id # <<"hp">> /\ id[1] = "item" /\ id[3] = "uses" /\ id[2] = i.id
  BY <1>1
<1>10. PICK n : n = max - target
  OBVIOUS
<1>11. n \in 0..max
  BY <1>5, <1>8, <1>10
<1>12. Dnd!dnd5eWrite(actor, d, intent, target) = Dnd!OnOneItem(i.id, "uses.spent", n)
  BY <1>3, <1>9, <1>10, WriteOfUses
<1>13. PICK path : path = "uses.spent"
  OBVIOUS
<1>14. ItemFit(Field(path, n) ++ i)
  BY <1>1, <1>4, <1>11, <1>13, FitUses
<1>15. path \notin {"id", "container"}
  BY <1>13
<1>16. Fit(Applied(doc, Dnd!OnOneItem(i.id, path, n)), derived)
  BY <1>14, <1>15, OneOfItems
<1>17. QED
  BY <1>7, <1>12, <1>13, <1>16

LEMMA DiceIntent ==
  ASSUME NEW doc, Embeds(doc), Typed(doc), NEW derived, Fit(doc, derived),
         NEW actor, Embeds(actor), actor.items = doc.items, NEW n \in Dnd!Denominations(actor),
         NEW d, d = Dnd!Bounded(<<"hitdice", Dnd!ToString(n)>>,
                                Dnd!Total(Dnd!Remaining, Dnd!OfDenomination(actor, n), actor),
                                Dnd!Total(Dnd!Levels, Dnd!OfDenomination(actor, n), actor)),
         NEW intent, Numeric(intent)
  PROVE  Fit(Applied(doc, Dnd!dnd5eWrite(actor, d, intent, Clamp(Wish(d, intent), d))), derived)
<1>1. PICK id, value, max : /\ id = <<"hitdice", Dnd!ToString(n)>>
                            /\ value = Dnd!Total(Dnd!Remaining, Dnd!OfDenomination(actor, n), actor)
                            /\ max = Dnd!Total(Dnd!Levels, Dnd!OfDenomination(actor, n), actor)
  OBVIOUS
<1>2. d = Dnd!Bounded(id, value, max)
  BY <1>1
<1>3. d.id = id /\ d.value = value
  BY <1>2, CounterFields
<1>4. value \in Int /\ max \in Int
  BY <1>1, DiceAreWhole DEF Fit, GoodsFit
<1>5. PICK target : target = Clamp(Wish(d, intent), d)
  OBVIOUS
<1>6. target \in Int
  BY <1>2, <1>4, <1>5, TargetWithin
<1>7. PICK size : size = CHOOSE m \in Dnd!Denominations(actor) : Dnd!ToString(m) = d.id[2]
  OBVIOUS
<1>8. size \in Dnd!Denominations(actor)
  <2>1. Dnd!ToString(n) = d.id[2]
    BY <1>1, <1>3
  <2>2. QED
    BY <1>7, <2>1
<1>9. id # <<"hp">> /\ id[1] = "hitdice"
  BY <1>1
<1>10. Dnd!dnd5eWrite(actor, d, intent, target) = Dnd!buildHitDiceUpdate(actor, size, d.value, target)
  BY <1>3, <1>7, <1>9, WriteOfDice
<1>11. Fit(Applied(doc, Dnd!buildHitDiceUpdate(actor, size, value, target)), derived)
  BY <1>4, <1>6, <1>8, FitHitDice
<1>12. QED
  BY <1>3, <1>5, <1>10, <1>11

\* The id of a counter, whatever it shows.
LEMMA IdOf ==
  ASSUME NEW x, NEW id, NEW v, NEW m, x = Dnd!Bounded(id, v, m) \/ x = Dnd!Counter(id, v)
  PROVE  x.id = id
BY CounterFields

SimpleId(id) ==
  \/ id = <<"inspiration">> \/ id = <<"exhaustion">>
  \/ \E k : id = <<"deathsaves", k>> \/ id = <<"currency", k>>
OtherId(id) ==
  \/ id = <<"hp">> \/ id = <<"hp", "temp">>
  \/ \E k : id = <<"hitdice", k>> \/ id = <<"slots", k>>
  \/ \E k, f : id = <<"item", k, f>>

LEMMA SimpleIds ==
  ASSUME NEW x,
         \/ \E v : x = Dnd!Bounded(<<"inspiration">>, v, 1)
         \/ \E v : x = Dnd!Bounded(<<"exhaustion">>, v, 6)
         \/ \E k, v : x = Dnd!Bounded(<<"deathsaves", k>>, v, 3)
         \/ \E c, v : x = Dnd!Counter(<<"currency", c>>, v)
  PROVE  SimpleId(x.id)
<1>1. CASE \E v : x = Dnd!Bounded(<<"inspiration">>, v, 1)
  <2>1. PICK v : x = Dnd!Bounded(<<"inspiration">>, v, 1)
    BY <1>1
  <2>2. PICK id, m : id = <<"inspiration">> /\ m = 1
    OBVIOUS
  <2>3. x = Dnd!Bounded(id, v, m)
    BY <2>1, <2>2
  <2>4. x.id = id
    BY <2>3, IdOf
  <2>5. QED
    BY <2>2, <2>4 DEF SimpleId
<1>2. CASE \E v : x = Dnd!Bounded(<<"exhaustion">>, v, 6)
  <2>1. PICK v : x = Dnd!Bounded(<<"exhaustion">>, v, 6)
    BY <1>2
  <2>2. PICK id, m : id = <<"exhaustion">> /\ m = 6
    OBVIOUS
  <2>3. x = Dnd!Bounded(id, v, m)
    BY <2>1, <2>2
  <2>4. x.id = id
    BY <2>3, IdOf
  <2>5. QED
    BY <2>2, <2>4 DEF SimpleId
<1>3. CASE \E k, v : x = Dnd!Bounded(<<"deathsaves", k>>, v, 3)
  <2>1. PICK k, v : x = Dnd!Bounded(<<"deathsaves", k>>, v, 3)
    BY <1>3
  <2>2. PICK id, m : id = <<"deathsaves", k>> /\ m = 3
    OBVIOUS
  <2>3. x = Dnd!Bounded(id, v, m)
    BY <2>1, <2>2
  <2>4. x.id = id
    BY <2>3, IdOf
  <2>5. QED
    BY <2>2, <2>4 DEF SimpleId
<1>4. CASE \E c, v : x = Dnd!Counter(<<"currency", c>>, v)
  <2>1. PICK c, v : x = Dnd!Counter(<<"currency", c>>, v)
    BY <1>4
  <2>2. PICK id : id = <<"currency", c>>
    OBVIOUS
  <2>3. x = Dnd!Counter(id, v)
    BY <2>1, <2>2
  <2>4. x.id = id
    BY <2>3, IdOf
  <2>5. QED
    BY <2>2, <2>4 DEF SimpleId
<1>5. QED
  BY <1>1, <1>2, <1>3, <1>4

LEMMA OtherIds ==
  ASSUME NEW x,
         \/ \E v, m : x = Dnd!Bounded(<<"hp">>, v, m)
         \/ \E v : x = Dnd!Counter(<<"hp", "temp">>, v)
         \/ \E n, v, m : x = Dnd!Bounded(<<"hitdice", n>>, v, m)
         \/ \E i, v : x = Dnd!Counter(<<"item", i, "qty">>, v)
         \/ \E i, v, m : x = Dnd!Bounded(<<"item", i, "uses">>, v, m)
         \/ \E p, v, m : x = Dnd!Bounded(<<"slots", p>>, v, m)
  PROVE  OtherId(x.id)
<1>1. CASE \E v, m : x = Dnd!Bounded(<<"hp">>, v, m)
  <2>1. PICK v, m : x = Dnd!Bounded(<<"hp">>, v, m)
    BY <1>1
  <2>2. PICK id : id = <<"hp">>
    OBVIOUS
  <2>3. x.id = id
    BY <2>1, <2>2, IdOf
  <2>4. QED
    BY <2>2, <2>3 DEF OtherId
<1>2. CASE \E v : x = Dnd!Counter(<<"hp", "temp">>, v)
  <2>1. PICK v : x = Dnd!Counter(<<"hp", "temp">>, v)
    BY <1>2
  <2>2. PICK id : id = <<"hp", "temp">>
    OBVIOUS
  <2>3. x.id = id
    BY <2>1, <2>2, IdOf
  <2>4. QED
    BY <2>2, <2>3 DEF OtherId
<1>3. CASE \E n, v, m : x = Dnd!Bounded(<<"hitdice", n>>, v, m)
  <2>1. PICK n, v, m : x = Dnd!Bounded(<<"hitdice", n>>, v, m)
    BY <1>3
  <2>2. PICK id : id = <<"hitdice", n>>
    OBVIOUS
  <2>3. x.id = id
    BY <2>1, <2>2, IdOf
  <2>4. QED
    BY <2>2, <2>3 DEF OtherId
<1>4. CASE \E i, v : x = Dnd!Counter(<<"item", i, "qty">>, v)
  <2>1. PICK i, v : x = Dnd!Counter(<<"item", i, "qty">>, v)
    BY <1>4
  <2>2. PICK id : id = <<"item", i, "qty">>
    OBVIOUS
  <2>3. x.id = id
    BY <2>1, <2>2, IdOf
  <2>4. QED
    BY <2>2, <2>3 DEF OtherId
<1>5. CASE \E i, v, m : x = Dnd!Bounded(<<"item", i, "uses">>, v, m)
  <2>1. PICK i, v, m : x = Dnd!Bounded(<<"item", i, "uses">>, v, m)
    BY <1>5
  <2>2. PICK id : id = <<"item", i, "uses">>
    OBVIOUS
  <2>3. x.id = id
    BY <2>1, <2>2, IdOf
  <2>4. QED
    BY <2>2, <2>3 DEF OtherId
<1>6. CASE \E p, v, m : x = Dnd!Bounded(<<"slots", p>>, v, m)
  <2>1. PICK p, v, m : x = Dnd!Bounded(<<"slots", p>>, v, m)
    BY <1>6
  <2>2. PICK id : id = <<"slots", p>>
    OBVIOUS
  <2>3. x.id = id
    BY <2>1, <2>2, IdOf
  <2>4. QED
    BY <2>2, <2>3 DEF OtherId
<1>7. QED
  BY <1>1, <1>2, <1>3, <1>4, <1>5, <1>6

\* The armor class alone is not written.
LEMMA DndIds ==
  ASSUME NEW actor, NEW x \in Dnd!dnd5eResources(actor), x.writable
  PROVE  SimpleId(x.id) \/ OtherId(x.id)
<1>1. ASSUME x = [id |-> <<"ac">>, value |-> Dnd!armorClass(actor), writable |-> FALSE]
      PROVE  FALSE
  BY <1>1
<1>2. CASE x = Dnd!Bounded(<<"hp">>, Hp(actor), HpMax(actor))
  BY <1>2, OtherIds, Zenon
<1>3. CASE x = Dnd!Counter(<<"hp", "temp">>, Temp(actor))
  BY <1>3, OtherIds, Zenon
<1>4. CASE \E v : x = Dnd!Bounded(<<"inspiration">>, v, 1)
  BY <1>4, SimpleIds, Zenon
<1>5. CASE \E v : x = Dnd!Bounded(<<"exhaustion">>, v, 6)
  BY <1>5, SimpleIds, Zenon
<1>6. CASE \E k, v : x = Dnd!Bounded(<<"deathsaves", k>>, v, 3)
  BY <1>6, SimpleIds, Zenon
<1>7. CASE \E n \in Dnd!Denominations(actor) :
              x = Dnd!Bounded(<<"hitdice", Dnd!ToString(n)>>,
                              Dnd!Total(Dnd!Remaining, Dnd!OfDenomination(actor, n), actor),
                              Dnd!Total(Dnd!Levels, Dnd!OfDenomination(actor, n), actor))
  BY <1>7, OtherIds, Zenon
<1>8. CASE \E i \in ToSet(actor.items) : \E v : x = Dnd!Counter(<<"item", i.id, "qty">>, v)
  BY <1>8, OtherIds, Zenon
<1>9. CASE \E i \in ToSet(actor.items) :
              Dnd!HasUses(i) /\ x = Dnd!Bounded(<<"item", i.id, "uses">>, Dnd!usesLeft(i), i["uses.max"])
  BY <1>9, OtherIds, Zenon
<1>10. CASE \E p \in Dnd!SlotPools :
              x = Dnd!Bounded(<<"slots", p>>, Dnd!SlotValue(actor.sys, p), Dnd!SlotMax(actor.sys, p))
  BY <1>10, OtherIds, Zenon
<1>11. CASE \E c, v : x = Dnd!Counter(<<"currency", c>>, v)
  BY <1>11, SimpleIds, Zenon
<1>12. QED
  BY <1>1, <1>2, <1>3, <1>4, <1>5, <1>6, <1>7, <1>8, <1>9, <1>10, <1>11, DndCounters, Zenon

LEMMA ArmorClassIsApart ==
  ASSUME NEW id, id = <<"ac">>
  PROVE  ~SimpleId(id) /\ ~OtherId(id)
BY DEF SimpleId, OtherId

LEMMA DndIntentFits ==
  ASSUME NEW doc, Embeds(doc), Typed(doc), NEW derived, Whole(derived, SlotPaths({"max"})), Fit(doc, derived),
         NEW actor, Embeds(actor), Likely(actor, doc, derived),
         NEW d \in Dnd!dnd5eResources(actor), NEW x \in Dnd!dnd5eResources(actor), d.id = x.id, x.writable,
         NEW intent, Numeric(intent)
  PROVE  Fit(Applied(doc, Dnd!dnd5eWrite(actor, d, intent, Clamp(Wish(d, intent), d))), derived)
<1> DEFINE target == Clamp(Wish(d, intent), d)
           Good == Fit(Applied(doc, Dnd!dnd5eWrite(actor, d, intent, Clamp(Wish(d, intent), d))), derived)
<1>0. actor.items = doc.items
  BY DEF Likely
<1>1. SUFFICES Good
  OBVIOUS
<1>2. CASE d = Dnd!Bounded(<<"hp">>, Hp(actor), HpMax(actor))
  BY <1>2, HpIntent
<1>3. CASE d = Dnd!Counter(<<"hp", "temp">>, Temp(actor))
  BY <1>3, TempIntent
<1>4. CASE \/ \E v : d = Dnd!Bounded(<<"inspiration">>, v, 1)
           \/ \E v : d = Dnd!Bounded(<<"exhaustion">>, v, 6)
           \/ \E k, v : d = Dnd!Bounded(<<"deathsaves", k>>, v, 3)
           \/ \E c, v : d = Dnd!Counter(<<"currency", c>>, v)
  <2>1. SimpleId(d.id)
    BY <1>4, SimpleIds
  <2>2. QED
    BY <2>1, ElsewhereIntent DEF SimpleId
<1>5. CASE \E n \in Dnd!Denominations(actor) :
              d = Dnd!Bounded(<<"hitdice", Dnd!ToString(n)>>,
                              Dnd!Total(Dnd!Remaining, Dnd!OfDenomination(actor, n), actor),
                              Dnd!Total(Dnd!Levels, Dnd!OfDenomination(actor, n), actor))
  BY <1>0, <1>5, DiceIntent
<1>6. CASE \E i \in ToSet(actor.items) : \E v : d = Dnd!Counter(<<"item", i.id, "qty">>, v)
  <2>1. PICK i \in ToSet(doc.items) : \E v : d = Dnd!Counter(<<"item", i.id, "qty">>, v)
    BY <1>0, <1>6
  <2>2. d.id = <<"item", i.id, "qty">>
    BY <2>1, CounterFields
  <2>3. QED
    BY <2>2, QuantityIntent
<1>7. CASE \E i \in ToSet(actor.items) :
              Dnd!HasUses(i) /\ d = Dnd!Bounded(<<"item", i.id, "uses">>, Dnd!usesLeft(i), i["uses.max"])
  BY <1>0, <1>7, UsesIntent
<1>8. CASE \E p \in Dnd!SlotPools :
              d = Dnd!Bounded(<<"slots", p>>, Dnd!SlotValue(actor.sys, p), Dnd!SlotMax(actor.sys, p))
  BY <1>8, SlotIntent
<1>9. CASE d = [id |-> <<"ac">>, value |-> Dnd!armorClass(actor), writable |-> FALSE]
  <2>1. PICK id : id = <<"ac">>
    OBVIOUS
  <2>2. x.id = id
    BY <2>1, <1>9
  <2>3. SimpleId(x.id) \/ OtherId(x.id)
    BY DndIds
  <2>4. FALSE
    BY <2>1, <2>2, <2>3, ArmorClassIsApart
  <2>5. QED
    BY <2>4
<1> HIDE DEF Good
<1>10. QED
  BY <1>1, <1>2, <1>3, <1>4, <1>5, <1>6, <1>7, <1>8, <1>9, DndCounters, Zenon

\* A number of boxes that the other kind leaves room for.
LEMMA BoxesApart ==
  ASSUME NEW t \in {"health", "willpower"}, NEW k \in {"superficial", "aggravated"},
         NEW u \in {"health", "willpower"}, NEW l \in {"superficial", "aggravated", "max"}
  PROVE  Vampire!Box(u, l) = Vampire!Box(t, k) <=> u = t /\ l = k
BY DEF Vampire!Box

LEMMA RoomForBoxes ==
  ASSUME NEW n \in Nat, NEW b, NEW a, NEW max \in Int, NEW other, n + other <= max, other \in Nat,
         \/ a = n /\ b = other
         \/ a = other /\ b = n
  PROVE  {a, b} \subseteq Nat /\ a + b <= max
OBVIOUS

LEMMA FitBoxes ==
  ASSUME NEW sys, NEW derived, SheetFit(sys, derived),
         NEW t \in {"health", "willpower"}, NEW k \in {"superficial", "aggravated"}, NEW n \in Nat,
         n + At(sys, Vampire!Box(t, Vampire!Other(k)), 0) <= At(sys, Vampire!Box(t, "max"), 0)
  PROVE  SheetFit(Field(Vampire!Box(t, k), n) ++ sys, derived)
<1> DEFINE N(u, l) == At(sys, Vampire!Box(u, l), 0)
<1>1. PICK box : box = Vampire!Box(t, k)
  OBVIOUS
<1>2. PICK new : new = Field(box, n) ++ sys
  OBVIOUS
<1>3. box \in Tracks /\ DOMAIN Field(box, n) \subseteq Tracks
  BY <1>1, PathsApart DEF Field
<1>4. /\ new[box] = n /\ box \in DOMAIN new /\ DOMAIN new = DOMAIN sys \cup {box}
      /\ \A p : p # box /\ p \in DOMAIN sys => new[p] = sys[p]
  BY <1>2 DEF Field, ++
<1>5. Whole(new, Tracks)
  BY <1>3, <1>4 DEF SheetFit, TracksFit, Whole
<1>6. ASSUME NEW u \in {"health", "willpower"}, NEW l \in {"superficial", "aggravated", "max"}
      PROVE  At(new, Vampire!Box(u, l), 0) = IF u = t /\ l = k THEN n ELSE N(u, l)
  <2>1. Vampire!Box(u, l) = box <=> u = t /\ l = k
    BY <1>1, BoxesApart
  <2>2. QED
    BY <1>4, <2>1 DEF At
<1>7. ASSUME NEW u \in {"health", "willpower"}
      PROVE  {N(u, "superficial"), N(u, "aggravated")} \subseteq Nat
             /\ N(u, "superficial") + N(u, "aggravated") <= N(u, "max")
  BY DEF SheetFit, TracksFit, BoxesSound
<1>8. N(t, "max") \in Int
  BY PathsApart DEF SheetFit, TracksFit, Whole, At
<1>9. n + N(t, Vampire!Other(k)) <= N(t, "max")
  OBVIOUS
<1> HIDE DEF N
<1>10. ASSUME NEW u \in {"health", "willpower"}
       PROVE  LET M(kind) == At(new, Vampire!Box(u, kind), 0)
              IN {M("superficial"), M("aggravated")} \subseteq Nat /\ M("superficial") + M("aggravated") <= M("max")
  <2>1. PICK a, b, m : /\ a = At(new, Vampire!Box(u, "superficial"), 0)
                       /\ b = At(new, Vampire!Box(u, "aggravated"), 0)
                       /\ m = At(new, Vampire!Box(u, "max"), 0)
    OBVIOUS
  <2>2. SUFFICES {a, b} \subseteq Nat /\ a + b <= m
    BY <2>1
  <2>3. m = N(u, "max")
    BY <2>1, <1>6
  <2>4. CASE u # t
    <3>1. a = N(u, "superficial") /\ b = N(u, "aggravated")
      BY <2>1, <2>4, <1>6
    <3>2. QED
      BY <3>1, <2>3, <1>7
  <2>5. CASE u = t /\ k = "superficial"
    <3>1. a = n /\ b = N(t, "aggravated") /\ m = N(t, "max")
      BY <2>1, <2>3, <2>5, <1>6
    <3>2. n + N(t, "aggravated") <= N(t, "max") /\ N(t, "aggravated") \in Nat
      BY <2>5, <1>7, <1>9 DEF Vampire!Other
    <3>3. QED
      BY <3>1, <3>2, <1>8, RoomForBoxes
  <2>6. CASE u = t /\ k = "aggravated"
    <3>1. a = N(t, "superficial") /\ b = n /\ m = N(t, "max")
      BY <2>1, <2>3, <2>6, <1>6
    <3>2. n + N(t, "superficial") <= N(t, "max") /\ N(t, "superficial") \in Nat
      BY <2>6, <1>7, <1>9 DEF Vampire!Other
    <3>3. QED
      BY <3>1, <3>2, <1>8, RoomForBoxes
  <2>7. QED
    BY <2>4, <2>5, <2>6
<1>11. TracksFit(new)
  BY <1>5, <1>10 DEF TracksFit, BoxesSound
<1>12. QED
  BY <1>1, <1>2, <1>3, <1>11, FitSheet

\* What a counter of a vampire's sheet is.
LEMMA VampireCounters ==
  ASSUME NEW doc, NEW d \in Vampire!wod5eResources(doc)
  PROVE  \/ \E t \in {"health", "willpower"}, k \in {"superficial", "aggravated"} : d.id = <<t, k>>
         \/ d.id = <<"hunger">> \/ d.id = <<"humanity", "stains">>
         \/ d.id = <<"humanity">> /\ d.writable = FALSE
         \/ d.id = <<"bloodpotency">> /\ d.writable = FALSE
         \/ \E i \in ToSet(doc.items) : d.id = <<"item", i.id, "qty">>
<1>1. \/ d \in Vampire!trackBoxResources(doc, "health")
      \/ d \in Vampire!trackBoxResources(doc, "willpower")
      \/ d = [id |-> <<"hunger">>, value |-> Vampire!Number(doc, <<"hunger", "value">>), writable |-> TRUE,
              min |-> 0, max |-> 5]
      \/ d = [id |-> <<"humanity", "stains">>, value |-> Vampire!Number(doc, <<"humanity", "stains">>),
              writable |-> TRUE, min |-> 0, max |-> 10]
      \/ d = [id |-> <<"humanity">>, value |-> Vampire!At(doc.sys, <<"humanity", "value">>, 7),
              writable |-> FALSE, min |-> 0, max |-> 10]
      \/ d = [id |-> <<"bloodpotency">>, value |-> Vampire!Number(doc, <<"blood", "potency">>),
              writable |-> FALSE, min |-> 0]
      \/ \E i \in Vampire!ToSet(doc.items) :
           d = [id |-> <<"item", i.id, "qty">>, value |-> i.quantity, writable |-> TRUE, min |-> 0, max |-> 999]
  <2>1. CASE d \in {[id |-> <<"item", i.id, "qty">>, value |-> i.quantity, writable |-> TRUE,
                     min |-> 0, max |-> 999] : i \in {j \in Vampire!ToSet(doc.items) : Vampire!Stacked(j)}}
    BY <2>1
  <2>2. CASE d \in {[id |-> <<"hunger">>, value |-> Vampire!Number(doc, <<"hunger", "value">>), writable |-> TRUE,
                     min |-> 0, max |-> 5],
                    [id |-> <<"humanity", "stains">>, value |-> Vampire!Number(doc, <<"humanity", "stains">>),
                     writable |-> TRUE, min |-> 0, max |-> 10],
                    [id |-> <<"humanity">>, value |-> Vampire!At(doc.sys, <<"humanity", "value">>, 7),
                     writable |-> FALSE, min |-> 0, max |-> 10],
                    [id |-> <<"bloodpotency">>, value |-> Vampire!Number(doc, <<"blood", "potency">>),
                     writable |-> FALSE, min |-> 0]}
    BY <2>2, Zenon
  <2>3. CASE d \in Vampire!trackBoxResources(doc, "health") \cup Vampire!trackBoxResources(doc, "willpower")
    BY <2>3, Zenon
  <2>4. QED
    BY <2>1, <2>2, <2>3, Zenon DEF Vampire!wod5eResources
<1>2. \A t : d \in Vampire!trackBoxResources(doc, t) =>
        \E k \in {"superficial", "aggravated"} : d.id = <<t, k>>
  BY DEF Vampire!trackBoxResources
<1>3. Vampire!ToSet(doc.items) = ToSet(doc.items)
  BY DEF Vampire!ToSet, ToSet
<1>4. CASE d \in Vampire!trackBoxResources(doc, "health")
  BY <1>2, <1>4
<1>5. CASE d \in Vampire!trackBoxResources(doc, "willpower")
  BY <1>2, <1>5
<1>6. CASE d = [id |-> <<"hunger">>, value |-> Vampire!Number(doc, <<"hunger", "value">>), writable |-> TRUE,
                min |-> 0, max |-> 5]
  BY <1>6
<1>7. CASE d = [id |-> <<"humanity", "stains">>, value |-> Vampire!Number(doc, <<"humanity", "stains">>),
                writable |-> TRUE, min |-> 0, max |-> 10]
  BY <1>7
<1>8. CASE d = [id |-> <<"humanity">>, value |-> Vampire!At(doc.sys, <<"humanity", "value">>, 7),
                writable |-> FALSE, min |-> 0, max |-> 10]
  BY <1>8
<1>9. CASE d = [id |-> <<"bloodpotency">>, value |-> Vampire!Number(doc, <<"blood", "potency">>),
                writable |-> FALSE, min |-> 0]
  BY <1>9
<1>10. CASE \E i \in Vampire!ToSet(doc.items) :
              d = [id |-> <<"item", i.id, "qty">>, value |-> i.quantity, writable |-> TRUE, min |-> 0, max |-> 999]
  BY <1>3, <1>10
<1>11. QED
  BY <1>1, <1>4, <1>5, <1>6, <1>7, <1>8, <1>9, <1>10, Zenon

\* What is written for it.
LEMMA WriteOfItem ==
  ASSUME NEW d, NEW intent, NEW target, NEW id, d.id = id, id[1] = "item",
         ~Refused(Vampire!wod5eWrite(d, intent, target))
  PROVE  Vampire!wod5eWrite(d, intent, target) = [itemId |-> id[2], data |-> Field("quantity", target)]
BY DEF Vampire!wod5eWrite, Refused, Has, Vampire!Refusal, Vampire!Field, Field

LEMMA WriteOfHunger ==
  ASSUME NEW d, NEW intent, NEW target, NEW id, d.id = id, id[1] # "item", id = <<"hunger">>,
         ~Refused(Vampire!wod5eWrite(d, intent, target))
  PROVE  Vampire!wod5eWrite(d, intent, target) = [data |-> Field(<<"hunger", "value">>, target)]
BY DEF Vampire!wod5eWrite, Refused, Has, Vampire!Refusal, Vampire!Field, Field

LEMMA WriteOfStains ==
  ASSUME NEW d, NEW intent, NEW target, NEW id, d.id = id, id[1] = "humanity", id[2] = "stains", id # <<"hunger">>,
         ~Refused(Vampire!wod5eWrite(d, intent, target))
  PROVE  Vampire!wod5eWrite(d, intent, target) = [data |-> Field(<<"humanity", "stains">>, target)]
BY DEF Vampire!wod5eWrite, Vampire!Box, Refused, Has, Vampire!Refusal, Vampire!Field, Field

LEMMA VampireIds ==
  /\ \A id, t, k : id = <<t, k>> => id # <<"humanity">> /\ id # <<"bloodpotency">>
  /\ \A id, a, b : id = <<"item", a, b>> => id # <<"humanity">> /\ id # <<"bloodpotency">>
  /\ \A id : id = <<"hunger">> => id # <<"humanity">> /\ id # <<"bloodpotency">>
  /\ \A id : id = <<"humanity", "stains">> => id # <<"humanity">> /\ id # <<"bloodpotency">>
OBVIOUS

LEMMA VampireIntentFits ==
  ASSUME NEW doc, Embeds(doc), Typed(doc), doc.systemId = "wod5e", NEW derived, Fit(doc, derived),
         NEW d \in resources(doc), NEW x \in resources(doc), d.id = x.id, x.writable,
         NEW intent, Numeric(intent), ~Refused(buildUpdate(doc, d, intent))
  PROVE  Fit(Applied(doc, buildUpdate(doc, d, intent)), derived)
<1>1. PICK target : buildUpdate(doc, d, intent) = Vampire!wod5eWrite(d, intent, target)
  BY DEF buildUpdate
<1>2. d \in Vampire!wod5eResources(doc) /\ x \in Vampire!wod5eResources(doc)
  BY DEF resources
<1>3. PICK id : id = d.id
  OBVIOUS
<1>4. id # <<"humanity">> /\ id # <<"bloodpotency">>
  <2>1. x.writable /\ x.id = id
    BY <1>3
  <2>2. QED
    BY <1>2, <2>1, VampireCounters, VampireIds
<1>5. CASE \E t \in {"health", "willpower"}, k \in {"superficial", "aggravated"} : id = <<t, k>>
  <2>1. PICK t \in {"health", "willpower"}, k \in {"superficial", "aggravated"} : id = <<t, k>>
    BY <1>5
  <2>2. \A l : Vampire!Number(doc, Vampire!Box(t, l)) = At(doc.sys, Vampire!Box(t, l), 0)
    BY DEF Vampire!Number, Vampire!At, At
  <2>3. {At(doc.sys, Vampire!Box(t, "superficial"), 0), At(doc.sys, Vampire!Box(t, "aggravated"), 0)} \subseteq Nat
        /\ At(doc.sys, Vampire!Box(t, "superficial"), 0) + At(doc.sys, Vampire!Box(t, "aggravated"), 0)
             <= At(doc.sys, Vampire!Box(t, "max"), 0)
    BY DEF Fit, SheetFit, TracksFit, BoxesSound
  <2>4. At(doc.sys, Vampire!Box(t, "max"), 0) \in Int
    BY PathsApart DEF Fit, SheetFit, TracksFit, Whole, At
  <2>5. PICK o \in {"superficial", "aggravated"} : o = Vampire!Other(k)
    BY DEF Vampire!Other
  <2>6. PICK m, b, a : /\ m = At(doc.sys, Vampire!Box(t, "max"), 0)
                       /\ b = At(doc.sys, Vampire!Box(t, o), 0) /\ a = At(doc.sys, Vampire!Box(t, k), 0)
    OBVIOUS
  <2>7. a \in Nat /\ b \in Nat /\ m \in Int /\ b <= m
    <3>1. CASE o = "superficial"
      BY <2>3, <2>4, <2>6, <3>1
    <3>2. CASE o = "aggravated"
      BY <2>3, <2>4, <2>6, <3>2
    <3>3. QED
      BY <3>1, <3>2
  <2>8. m \in Nat /\ b \in 0..m
    BY <2>7
  <2>9. \E boxes \in Nat :
          /\ buildUpdate(doc, d, intent) = [data |-> Field(Vampire!Box(t, k), boxes)]
          /\ boxes + b <= m
    <3>1. /\ Vampire!Number(doc, Vampire!Box(t, "max")) = m
          /\ Vampire!Number(doc, Vampire!Box(t, Vampire!Other(k))) = b
          /\ Vampire!Number(doc, Vampire!Box(t, k)) = a
      BY <2>2, <2>5, <2>6
    <3>2. d.id = <<t, k>> /\ a \in Int
      BY <1>3, <2>1, <2>7
    <3>3. QED
      BY <3>1, <3>2, <2>8, BoxesFitTheTrack DEF Numeric
  <2>10. PICK boxes \in Nat :
          /\ buildUpdate(doc, d, intent) = [data |-> Field(Vampire!Box(t, k), boxes)]
          /\ boxes + b <= m
    BY <2>9
  <2>11. SheetFit(Field(Vampire!Box(t, k), boxes) ++ doc.sys, derived)
    BY <2>5, <2>6, <2>10, FitBoxes DEF Fit
  <2>12. QED
    BY <2>10, <2>11, AppliedSheet
<1>6. CASE id = <<"hunger">>
  <2>1. id[1] # "item"
    BY <1>6
  <2>2. buildUpdate(doc, d, intent) = [data |-> Field(<<"hunger", "value">>, target)]
    BY <1>1, <1>3, <1>6, <2>1, WriteOfHunger
  <2>3. PICK path : path = <<"hunger", "value">>
    OBVIOUS
  <2>4. path \notin SheetCounters
    BY <2>3, Uncounted
  <2>5. QED
    BY <2>2, <2>3, <2>4, FitElsewhere
<1>7. CASE id = <<"humanity", "stains">>
  <2>1. id[1] = "humanity" /\ id[2] = "stains" /\ id # <<"hunger">>
    BY <1>7
  <2>2. buildUpdate(doc, d, intent) = [data |-> Field(<<"humanity", "stains">>, target)]
    BY <1>1, <1>3, <2>1, WriteOfStains
  <2>3. PICK path : path = <<"humanity", "stains">>
    OBVIOUS
  <2>4. path \notin SheetCounters
    BY <2>3, Uncounted
  <2>5. QED
    BY <2>2, <2>3, <2>4, FitElsewhere
<1>8. CASE \E i \in ToSet(doc.items) : id = <<"item", i.id, "qty">>
  <2>1. PICK i \in ToSet(doc.items) : id = <<"item", i.id, "qty">>
    BY <1>8
  <2>2. id[1] = "item" /\ id[2] = i.id
    BY <2>1
  <2>3. PICK path : path = "quantity"
    OBVIOUS
  <2>4. buildUpdate(doc, d, intent) = [itemId |-> i.id, data |-> Field(path, target)]
    BY <1>1, <1>3, <2>2, <2>3, WriteOfItem
  <2>5. ItemFit(Field(path, target) ++ i)
    <3>1. DOMAIN Field(path, target) \cap ({"type"} \cup ItemCounters) = {}
      BY <2>3 DEF Field, ItemCounters
    <3>2. QED
      BY <3>1, ItemSpared DEF Fit, GoodsFit, Typed
  <2>6. path \notin {"id", "container"}
    BY <2>3
  <2>7. QED
    BY <2>4, <2>5, <2>6, OneOfItems
<1>9. QED
  BY <1>2, <1>3, <1>4, <1>5, <1>6, <1>7, <1>8, VampireCounters

\* What a read shows of a pool of slots: how many are left as one document or
\* another has it, and the maximum that is derived, or that of the document.
SlotRead(s, known, now, derived, p) ==
  LET v == Dnd!SlotPath(p, "value")
      m == Dnd!SlotPath(p, "max")
      o == Dnd!SlotPath(p, "override")
  IN /\ At(s, v, 0) \in {At(known, v, 0), At(now, v, 0)}
     /\ (Has(s, o) <=> Has(known, o)) /\ (Has(s, o) => s[o] = known[o])
     /\ \/ Has(derived, m) /\ Has(s, m) /\ s[m] = derived[m]
        \/ (Has(s, m) <=> Has(known, m)) /\ (Has(s, m) => s[m] = known[m])

LEMMA GreaterOfTwo ==
  ASSUME NEW a \in Nat, NEW b \in Int
  PROVE  /\ Dnd!Max({a, b}) \in Nat
         /\ \A high \in Int : a <= high /\ b <= high => Dnd!Max({a, b}) <= high
<1>1. Dnd!Max({a, b}) \in {a, b} /\ Dnd!Max({a, b}) >= a
  BY DEF Dnd!Max
<1>2. QED
  BY <1>1

LEMMA LikelySlots ==
  ASSUME NEW known, NEW now, NEW derived, Whole(derived, SlotPaths({"max"})),
         SlotsFit(known, derived), SlotsFit(now, derived), NEW s, NEW p \in Dnd!SlotPools,
         SlotRead(s, known, now, derived, p)
  PROVE  /\ Dnd!SlotValue(s, p) \in Nat /\ Dnd!SlotMax(s, p) \in Nat
         /\ Has(derived, Dnd!SlotPath(p, "max")) => Dnd!SlotMax(s, p) <= derived[Dnd!SlotPath(p, "max")]
<1>1. PICK v, m, o : v = Dnd!SlotPath(p, "value") /\ m = Dnd!SlotPath(p, "max") /\ o = Dnd!SlotPath(p, "override")
  OBVIOUS
<1>2. /\ At(s, v, 0) \in {At(known, v, 0), At(now, v, 0)}
      /\ (Has(s, o) <=> Has(known, o)) /\ (Has(s, o) => s[o] = known[o])
      /\ \/ Has(derived, m) /\ Has(s, m) /\ s[m] = derived[m]
         \/ (Has(s, m) <=> Has(known, m)) /\ (Has(s, m) => s[m] = known[m])
  BY <1>1 DEF SlotRead
<1>3. Has(derived, m) => derived[m] \in Int
  BY <1>1 DEF Whole, SlotPaths, Has
<1>4. ASSUME NEW sys, SlotsFit(sys, derived)
      PROVE  /\ At(sys, v, 0) \in Nat /\ (Has(derived, m) => At(sys, v, 0) <= derived[m])
             /\ (Has(sys, m) => sys[m] \in Int) /\ (Has(sys, o) => sys[o] \in Int)
             /\ Has(derived, m) => /\ Has(sys, m) => sys[m] <= derived[m]
                                   /\ Has(sys, o) => sys[o] <= derived[m]
  <2>1. At(sys, v, 0) \in 0..At(derived, m, At(sys, v, 0))
    BY <1>1, <1>4 DEF SlotsFit, SlotsSound, Dnd!SlotValue, Dnd!At, At
  <2>2. (Has(sys, m) => sys[m] \in Int) /\ (Has(sys, o) => sys[o] \in Int)
    BY <1>1, <1>4, PathsApart DEF SlotsFit, Whole, SlotFields, Has
  <2>3. Has(derived, m) => /\ Has(sys, m) => sys[m] <= derived[m]
                           /\ Has(sys, o) => sys[o] <= derived[m]
    BY <1>1, <1>4 DEF SlotsFit
  <2>4. At(sys, v, 0) \in Int
    BY <1>1, <1>4, PathsApart DEF SlotsFit, Whole, SlotFields, At
  <2>5. At(sys, v, 0) \in Nat /\ (Has(derived, m) => At(sys, v, 0) <= derived[m])
    <3>1. CASE Has(derived, m)
      <4>1. At(derived, m, At(sys, v, 0)) = derived[m]
        BY <3>1 DEF At, Has
      <4>2. QED
        BY <1>3, <2>1, <3>1, <4>1
    <3>2. CASE ~Has(derived, m)
      <4>1. At(derived, m, At(sys, v, 0)) = At(sys, v, 0)
        BY <3>2 DEF At, Has
      <4>2. QED
        BY <2>1, <2>4, <3>2, <4>1
    <3>3. QED
      BY <3>1, <3>2
  <2>6. QED
    BY <2>2, <2>3, <2>5
<1>5. PICK n : n = At(s, v, 0)
  OBVIOUS
<1>6. n \in Nat /\ (Has(derived, m) => n <= derived[m])
  BY <1>2, <1>4, <1>5
<1>7. PICK top : top = At(s, m, At(s, o, n))
  OBVIOUS
<1>8. top \in Int /\ (Has(derived, m) => top <= derived[m])
  <2>1. CASE Has(s, m)
    <3>1. top = s[m]
      BY <1>7, <2>1 DEF At, Has
    <3>2. (s[m] = derived[m] /\ Has(derived, m)) \/ (s[m] = known[m] /\ Has(known, m))
      <4>1. CASE Has(derived, m) /\ Has(s, m) /\ s[m] = derived[m]
        BY <4>1
      <4>2. CASE (Has(s, m) <=> Has(known, m)) /\ (Has(s, m) => s[m] = known[m])
        BY <4>2, <2>1
      <4>3. QED
        BY <1>2, <4>1, <4>2
    <3>3. CASE s[m] = derived[m] /\ Has(derived, m)
      BY <1>3, <3>1, <3>3
    <3>4. CASE s[m] = known[m] /\ Has(known, m)
      BY <1>4, <3>1, <3>4
    <3>5. QED
      BY <3>2, <3>3, <3>4
  <2>2. CASE ~Has(s, m) /\ Has(s, o)
    <3>1. top = s[o]
      BY <1>7, <2>2 DEF At, Has
    <3>2. QED
      BY <1>2, <1>4, <2>2, <3>1
  <2>3. CASE ~Has(s, m) /\ ~Has(s, o)
    <3>1. top = n
      BY <1>7, <2>3 DEF At, Has
    <3>2. QED
      BY <1>6, <3>1
  <2>4. QED
    BY <2>1, <2>2, <2>3
<1>9. Dnd!SlotValue(s, p) = n
  BY <1>1, <1>5 DEF Dnd!SlotValue, Dnd!At, At
<1>10. Dnd!SlotMax(s, p) = Dnd!Max({n, top})
  BY <1>1, <1>7, <1>9 DEF Dnd!SlotMax, Dnd!At, At
<1>11. QED
  BY <1>1, <1>3, <1>6, <1>8, <1>9, <1>10, GreaterOfTwo


Details(derived, ac) ==
  /\ Whole(derived, SlotPaths({"max"}))
  /\ DOMAIN derived \cap (HitPoints \cup SlotPaths({"value", "override"})) = {}
  /\ DOMAIN ac \cap (HitPoints \cup SlotPaths({"value", "max", "override"})) = {}

LEMMA SlotPathsApart ==
  ASSUME NEW p \in Dnd!SlotPools
  PROVE  /\ Dnd!SlotPath(p, "value") # Dnd!SlotPath(p, "max") /\ Dnd!SlotPath(p, "value") # Dnd!SlotPath(p, "override")
         /\ Dnd!SlotPath(p, "max") # Dnd!SlotPath(p, "override")
         /\ \A q \in Dnd!SlotPools : Dnd!SlotPath(q, "value") # Dnd!SlotPath(p, "max")
                                  /\ Dnd!SlotPath(q, "value") # Dnd!SlotPath(p, "override")
         /\ Dnd!SlotPath(p, "value") \in SlotPaths({"value", "override"})
         /\ Dnd!SlotPath(p, "override") \in SlotPaths({"value", "override"})
         /\ \A f \in {"value", "max", "override"} : Dnd!SlotPath(p, f) \in SlotPaths({"value", "max", "override"})
BY DEF Dnd!SlotPath, SlotPaths

LEMMA SlotValuesOf ==
  ASSUME NEW now
  PROVE  /\ \A v : v \in DOMAIN SlotValues(now) <=>
                    v \in DOMAIN now.sys /\ \E p \in Dnd!SlotPools : v = Dnd!SlotPath(p, "value")
         /\ \A p \in DOMAIN SlotValues(now) : SlotValues(now)[p] = now.sys[p]
BY DEF SlotValues

LEMMA ReadSlots ==
  ASSUME NEW known, NEW now, NEW derived, NEW ac, Details(derived, ac), NEW p \in Dnd!SlotPools,
         NEW s, \/ s = known.sys
                \/ s = (SlotValues(now) ++ derived) ++ known.sys
                \/ s = (ac ++ (SlotValues(now) ++ derived)) ++ known.sys
  PROVE  SlotRead(s, known.sys, now.sys, derived, p)
<1>1. PICK v, m, o : v = Dnd!SlotPath(p, "value") /\ m = Dnd!SlotPath(p, "max") /\ o = Dnd!SlotPath(p, "override")
  OBVIOUS
<1>2. PICK slots : slots = SlotValues(now)
  OBVIOUS
<1>3. /\ v \notin DOMAIN derived /\ o \notin DOMAIN derived
      /\ v \notin DOMAIN ac /\ m \notin DOMAIN ac /\ o \notin DOMAIN ac
  BY <1>1, SlotPathsApart DEF Details
<1>4. /\ v \in DOMAIN slots <=> v \in DOMAIN now.sys
      /\ v \in DOMAIN slots => slots[v] = now.sys[v]
      /\ m \notin DOMAIN slots /\ o \notin DOMAIN slots
  <2>1. \A x : x \in DOMAIN slots <=>
                 x \in DOMAIN now.sys /\ \E q \in Dnd!SlotPools : x = Dnd!SlotPath(q, "value")
    BY <1>2, SlotValuesOf
  <2>2. \A x \in DOMAIN slots : slots[x] = now.sys[x]
    BY <1>2, SlotValuesOf
  <2>3. \A q \in Dnd!SlotPools : m # Dnd!SlotPath(q, "value") /\ o # Dnd!SlotPath(q, "value")
    BY <1>1, SlotPathsApart
  <2>4. QED
    BY <1>1, <2>1, <2>2, <2>3
<1>5. SUFFICES /\ At(s, v, 0) \in {At(known.sys, v, 0), At(now.sys, v, 0)}
               /\ (Has(s, o) <=> Has(known.sys, o)) /\ (Has(s, o) => s[o] = known.sys[o])
               /\ \/ Has(derived, m) /\ Has(s, m) /\ s[m] = derived[m]
                  \/ (Has(s, m) <=> Has(known.sys, m)) /\ (Has(s, m) => s[m] = known.sys[m])
  BY <1>1 DEF SlotRead
<1>6. CASE s = known.sys
  BY <1>6
<1>7. CASE s = (slots ++ derived) ++ known.sys
  BY <1>3, <1>4, <1>7 DEF At, Has, ++
<1>8. CASE s = (ac ++ (slots ++ derived)) ++ known.sys
  <2>1. PICK x : x = ac ++ (slots ++ derived)
    OBVIOUS
  <2>2. /\ v \in DOMAIN x <=> v \in DOMAIN slots
        /\ v \in DOMAIN x => x[v] = slots[v]
        /\ o \notin DOMAIN x
    BY <1>3, <1>4, <2>1 DEF ++
  <2>3. /\ m \in DOMAIN x <=> m \in DOMAIN derived
        /\ m \in DOMAIN x => x[m] = derived[m]
    BY <1>3, <1>4, <2>1 DEF ++
  <2>4. s = x ++ known.sys
    BY <1>8, <2>1
  <2>5. At(s, v, 0) \in {At(known.sys, v, 0), At(now.sys, v, 0)}
    BY <1>4, <2>2, <2>4 DEF At, Has, ++
  <2>6. (Has(s, o) <=> Has(known.sys, o)) /\ (Has(s, o) => s[o] = known.sys[o])
    BY <2>2, <2>4 DEF Has, ++
  <2>7. \/ Has(derived, m) /\ Has(s, m) /\ s[m] = derived[m]
        \/ (Has(s, m) <=> Has(known.sys, m)) /\ (Has(s, m) => s[m] = known.sys[m])
    BY <2>3, <2>4 DEF Has, ++
  <2>8. QED
    BY <2>5, <2>6, <2>7
<1>9. QED
  BY <1>2, <1>6, <1>7, <1>8

LEMMA ReadHp ==
  ASSUME NEW known, NEW now, NEW derived, NEW ac, Details(derived, ac), NEW p \in HitPoints,
         NEW s, \/ s = known.sys
                \/ s = (SlotValues(now) ++ derived) ++ known.sys
                \/ s = (ac ++ (SlotValues(now) ++ derived)) ++ known.sys
  PROVE  \A x : At(s, p, x) = At(known.sys, p, x)
<1>1. PICK slots : slots = SlotValues(now)
  OBVIOUS
<1>2. p \notin DOMAIN derived /\ p \notin DOMAIN ac
  BY DEF Details
<1>3. p \notin DOMAIN slots
  <2>1. \A q \in Dnd!SlotPools : Dnd!SlotPath(q, "value") # p
    BY PathsApart DEF SlotFields
  <2>2. \A x : x \in DOMAIN slots => \E q \in Dnd!SlotPools : x = Dnd!SlotPath(q, "value")
    BY <1>1, SlotValuesOf
  <2>3. QED
    BY <2>1, <2>2
<1>4. CASE s = known.sys
  BY <1>4
<1>5. CASE s = (slots ++ derived) ++ known.sys
  BY <1>2, <1>3, <1>5 DEF At, ++
<1>6. CASE s = (ac ++ (slots ++ derived)) ++ known.sys
  <2>1. PICK t : t = ac ++ (slots ++ derived)
    OBVIOUS
  <2>2. p \notin DOMAIN t
    BY <1>2, <1>3, <2>1 DEF ++
  <2>3. s = t ++ known.sys
    BY <1>6, <2>1
  <2>4. QED
    BY <2>2, <2>3 DEF At, ++
<1>7. QED
  BY <1>1, <1>4, <1>5, <1>6

\* So it is a likely one.
LEMMA LikelyRead ==
  ASSUME NEW known, Embeds(known), NEW now, NEW derived, NEW ac, Details(derived, ac),
         Fit(known, derived), Fit(now, derived),
         NEW details, details \in {SlotValues(now) ++ derived, << >>}, known.systemId # "wod5e"
  PROVE  Likely(enrich(known, details, ac), known, derived)
<1>1. PICK actor : actor = enrich(known, details, ac)
  OBVIOUS
<1>2. actor.items = known.items
  BY <1>1, Enriched
<1>3. PICK s : s = actor.sys
  OBVIOUS
<1>4. \/ s = known.sys
      \/ s = (SlotValues(now) ++ derived) ++ known.sys
      \/ s = (ac ++ (SlotValues(now) ++ derived)) ++ known.sys
  <2>1. \A a, b : Dnd!++(a, b) = a ++ b
    BY DEF Dnd!++, ++
  <2>2. actor = [known EXCEPT !.sys = IF details = << >> THEN @
                   ELSE IF Dnd!hasAcEffect(known) THEN (ac ++ details) ++ @ ELSE details ++ @]
    BY <1>1, <2>1 DEF enrich, Dnd!enrich
  <2>3. s = IF details = << >> THEN known.sys
            ELSE IF Dnd!hasAcEffect(known) THEN (ac ++ details) ++ known.sys ELSE details ++ known.sys
    BY <1>3, <2>2 DEF Embeds
  <2>4. QED
    BY <2>3
<1>5. \A p \in HitPoints : \A x : At(s, p, x) = At(known.sys, p, x)
  BY <1>4, ReadHp
<1>6. Hp(actor) = Hp(known) /\ Temp(actor) = Temp(known) /\ HpMax(actor) = HpMax(known)
  <2>1. \A f \in {"value", "max", "temp"} : \A x :
          Dnd!At(actor.sys, Dnd!HpPath(f), x) = Dnd!At(known.sys, Dnd!HpPath(f), x)
    BY <1>3, <1>5, PathsApart DEF Dnd!At, At
  <2>2. QED
    BY <2>1 DEF Hp, Temp, HpMax
<1>7. ASSUME NEW p \in Dnd!SlotPools
      PROVE  /\ Dnd!SlotValue(s, p) \in Nat /\ Dnd!SlotMax(s, p) \in Nat
             /\ Has(derived, Dnd!SlotPath(p, "max")) => Dnd!SlotMax(s, p) <= derived[Dnd!SlotPath(p, "max")]
  <2>1. SlotRead(s, known.sys, now.sys, derived, p)
    BY <1>4, ReadSlots
  <2>2. SlotsFit(known.sys, derived) /\ SlotsFit(now.sys, derived)
    BY DEF Fit, SheetFit
  <2>3. QED
    BY <2>1, <2>2, LikelySlots DEF Details
<1>8. QED
  BY <1>1, <1>2, <1>3, <1>6, <1>7 DEF Likely

-----------------------------------------------------------------------------
(* What is computed from a document that makes sense leaves one that does. *)

HealFits(known, derived, heal) ==
  /\ Embeds(known) /\ Fit(known, derived)
  /\ heal.current \in Nat /\ heal.max \in Nat
  /\ Has(known.sys, Dnd!HpPath("max")) => heal.max <= known.sys[Dnd!HpPath("max")]
NoTotal(u) == ~Has(u, "itemId") /\ At(u.data, Dnd!HpPath("value"), 0) = NoNumber

\* A call computed from a document makes sense of it, or has no number to write.
Wise(known, derived, c) ==
  /\ c.do = "update" => Fit(Applied(known, c.update), derived) \/ NoTotal(c.update)
  /\ c.do = "updateItem" /\ "container" \in DOMAIN c.data => Fit(OnItem(known, c.itemId, c.data), derived)
  /\ c.do = "roll" /\ c.heal # NoHeal => HealFits(known, derived, c.heal)

LEMMA HealedWithin ==
  ASSUME NEW current \in Nat, NEW max \in Nat, NEW total \in Int
  PROVE  LET n == Min({max, current + Max({0, total})}) IN n \in Nat /\ n <= max
<1>1. Max({0, total}) \in Nat
  <2>1. Max({0, total}) \in {0, total} /\ Max({0, total}) >= 0
    BY DEF Max
  <2>2. QED
    BY <2>1
<1>2. PICK m \in Nat : m = current + Max({0, total})
  BY <1>1
<1>3. Min({max, m}) \in {max, m} /\ Min({max, m}) <= max
  BY DEF Min
<1>4. QED
  BY <1>2, <1>3

LEMMA HealIsWise ==
  ASSUME NEW known, NEW derived, NEW heal, HealFits(known, derived, heal), NEW r, NEW total \in Int
  PROVE  Wise(known, derived, HealUpdate(r, heal, total))
<1>1. PICK n : n = IF total = NoNumber THEN NoNumber ELSE Min({heal.max, heal.current + Max({0, total})})
  OBVIOUS
<1>2. PICK u : u = [data |-> Field(Dnd!HpPath("value"), n)]
  OBVIOUS
<1>3. HealUpdate(r, heal, total) = [do |-> "update", by |-> r, update |-> u]
  BY <1>1, <1>2 DEF HealUpdate
<1>4. ~Has(u, "itemId") /\ At(u.data, Dnd!HpPath("value"), 0) = n
  BY <1>2 DEF Has, At, Field
<1>5. CASE total = NoNumber
  <2>1. NoTotal(u)
    BY <1>1, <1>4, <1>5 DEF NoTotal
  <2>2. QED
    BY <1>3, <2>1 DEF Wise
<1>6. CASE total # NoNumber
  <2>1. n \in Nat /\ n <= heal.max
    BY <1>1, <1>6, HealedWithin DEF HealFits
  <2>2. Has(known.sys, Dnd!HpPath("max")) => n <= known.sys[Dnd!HpPath("max")]
    <3>1. ASSUME Has(known.sys, Dnd!HpPath("max")) PROVE n <= known.sys[Dnd!HpPath("max")]
      <4>1. known.sys[Dnd!HpPath("max")] \in Int
        BY <3>1, PathsApart DEF HealFits, Fit, SheetFit, HpFit, Whole, Has
      <4>2. heal.max <= known.sys[Dnd!HpPath("max")] /\ heal.max \in Nat
        BY <3>1 DEF HealFits
      <4>3. QED
        BY <2>1, <4>1, <4>2
    <3>2. QED
      BY <3>1
  <2>3. SheetFit(Field(Dnd!HpPath("value"), n) ++ known.sys, derived)
    BY <2>1, <2>2, FitHp DEF HealFits, Fit
  <2>4. Fit(Applied(known, u), derived)
    BY <1>2, <2>3, AppliedSheet DEF HealFits
  <2>5. QED
    BY <1>3, <2>4 DEF Wise
<1>7. QED
  BY <1>5, <1>6

\* A use pays with slots and uses, never with hit points.
LEMMA UseSparesHp ==
  ASSUME NEW doc, Embeds(doc), NEW id, NEW slot, CanUse(doc, id, slot), NEW f \in {"value", "max", "temp"}
  PROVE  LET v == AfterUse(doc, id, slot)
         IN /\ Has(v.sys, Dnd!HpPath(f)) <=> Has(doc.sys, Dnd!HpPath(f))
            /\ Has(doc.sys, Dnd!HpPath(f)) => v.sys[Dnd!HpPath(f)] = doc.sys[Dnd!HpPath(f)]
<1> DEFINE i == ItemOf(doc, id)
           used == IF Dnd!HasUses(i)
                   THEN OnItem(doc, id, Field("uses.spent", At(i, "uses.spent", 0) + 1)) ELSE doc
           S == Paying(doc, i, slot)
           pool == CHOOSE p \in S : p # PactSlot \/ S = {p}
           v == AfterUse(doc, id, slot)
<1>1. Free(i) \/ S # {}
  BY DEF CanUse
<1>2. v = IF Free(i) THEN used ELSE [used EXCEPT !.sys[pool] = @ - 1]
  BY DEF AfterUse
<1>3. S # {} => pool \in S
  <2>1. CASE \E p \in S : p # PactSlot
    BY <2>1
  <2>2. CASE \A p \in S : p = PactSlot
    <3>1. S # {} => S = {PactSlot}
      BY <2>2
    <3> HIDE DEF S
    <3>2. QED
      BY <3>1
  <2>3. QED
    BY <2>1, <2>2
<1>4. \A p \in S : \E x : p = Dnd!SlotPath(x, "value")
  BY DEF Paying, SlotOf, PactSlot
<1>5. \A x : Dnd!SlotPath(x, "value") # Dnd!HpPath(f)
  BY DEF Dnd!SlotPath, Dnd!HpPath
<1>6. used.sys = doc.sys /\ "sys" \in DOMAIN used
  BY DEF OnItem, Embeds
<1> HIDE DEF i, S, pool, used, v
<1>7. v.sys = doc.sys \/ \E p : p # Dnd!HpPath(f) /\ v.sys = [doc.sys EXCEPT ![p] = @ - 1]
  <2>1. CASE Free(i)
    BY <1>2, <1>6, <2>1
  <2>2. CASE ~Free(i)
    <3>1. pool # Dnd!HpPath(f)
      BY <1>1, <1>3, <1>4, <1>5, <2>2
    <3>2. v.sys = [doc.sys EXCEPT ![pool] = @ - 1]
      BY <1>2, <1>6, <2>2
    <3>3. QED
      BY <3>1, <3>2
  <2>3. QED
    BY <2>1, <2>2
<1>8. /\ Has(v.sys, Dnd!HpPath(f)) <=> Has(doc.sys, Dnd!HpPath(f))
      /\ Has(doc.sys, Dnd!HpPath(f)) => v.sys[Dnd!HpPath(f)] = doc.sys[Dnd!HpPath(f)]
  <2>1. CASE v.sys = doc.sys
    BY <2>1
  <2>2. CASE \E p : p # Dnd!HpPath(f) /\ v.sys = [doc.sys EXCEPT ![p] = @ - 1]
    BY <2>2 DEF Has
  <2>3. QED
    BY <1>7, <2>1, <2>2
<1>9. QED
  BY <1>8 DEF v

LEMMA FitMoved ==
  ASSUME NEW doc, Embeds(doc), NEW derived, Fit(doc, derived), NEW id, NEW data, ~Has(data, "id"),
         \A i \in ToSet(doc.items) : ItemFit(data ++ i), Acyclic(OnItem(doc, id, data))
  PROVE  Fit(OnItem(doc, id, data), derived)
<1> DEFINE v == OnItem(doc, id, data)
<1>0. v = OnItem(doc, id, data)
  OBVIOUS
<1> HIDE DEF v
<1>1. /\ Embeds(v) /\ ItemIds(v) = ItemIds(doc)
      /\ DOMAIN v = DOMAIN doc /\ \A f \in DOMAIN doc \ {"items"} : v[f] = doc[f]
      /\ \A j : j \in ToSet(v.items) <=> \E i \in ToSet(doc.items) : j = Touched(i, id, data)
  BY <1>0, EmbedsOnItem
<1>2. v.sys = doc.sys
  BY <1>1 DEF Embeds
<1>3. \A j \in ToSet(v.items) : ItemFit(j)
  BY <1>1 DEF Touched, Fit, GoodsFit
<1>4. QED
  BY <1>0, <1>2, <1>3 DEF Fit, GoodsFit

\* An item that is moved within what the document has room for.
LEMMA MoveIsWise ==
  ASSUME NEW known, Embeds(known), Typed(known), "" \notin ItemIds(known), NEW derived, Fit(known, derived),
         NEW actor, actor.items = known.items,
         NEW id, NEW data, Roomy(actor, id, data), "container" \in DOMAIN data
  PROVE  Fit(OnItem(known, id, data), derived)
<1>1. DOMAIN data = {"container"}
  BY DEF Roomy
<1>2. ~Has(data, "id") /\ Has(data, "container") /\ DOMAIN data \cap ({"type"} \cup ItemCounters) = {}
  BY <1>1 DEF Has, ItemCounters
<1>3. data["container"] \notin ItemIds(known) \/ id \notin Dnd!Above(known, data["container"])
  <2>1. CASE data["container"] = ""
    BY <2>1
  <2>2. CASE id \notin Dnd!Above(actor, data["container"])
    <3>1. \A x : Dnd!Parent(actor, x) = Dnd!Parent(known, x)
      <4>1. ASSUME NEW x PROVE Dnd!Parent(actor, x) = Dnd!Parent(known, x)
        <5>1. Dnd!ItemOf(actor, x) = Dnd!ItemOf(known, x)
          BY Zenon DEF Dnd!ItemOf
        <5>2. Dnd!ItemIds(actor) = Dnd!ItemIds(known)
          BY Zenon DEF Dnd!ItemIds
        <5>3. QED
          BY <5>1, <5>2, Zenon DEF Dnd!Parent
      <4>2. QED
        BY <4>1
    <3>2. Dnd!ItemIds(actor) = Dnd!ItemIds(known)
      BY Zenon DEF Dnd!ItemIds
    <3>3. \A S : Dnd!Closed(actor, S) <=> Dnd!Closed(known, S)
      BY <3>1, <3>2 DEF Dnd!Closed
    <3>4. Dnd!Above(actor, data["container"]) = Dnd!Above(known, data["container"])
      BY <3>2, <3>3 DEF Dnd!Above
    <3>5. QED
      BY <2>2, <3>4
  <2>3. QED
    BY <2>1, <2>2 DEF Roomy
<1>4. Acyclic(OnItem(known, id, data))
  BY <1>2, <1>3, AcyclicMoved DEF Fit, GoodsFit
<1>5. \A i \in ToSet(known.items) : ItemFit(data ++ i)
  BY <1>2, ItemSpared DEF Fit, GoodsFit, Typed
<1>6. ~Has(data, "id")
  BY <1>2
<1>7. QED
  BY <1>4, <1>5, <1>6, FitMoved

\* What an intent has computed for it.
LEMMA UpdateIsWise ==
  ASSUME NEW known, Embeds(known), Typed(known), NEW now, NEW derived, NEW ac, Details(derived, ac),
         Fit(known, derived), Fit(now, derived),
         NEW details, details \in {SlotValues(now) ++ derived, << >>},
         NEW actor, actor = enrich(known, details, ac),
         NEW d \in resources(actor), NEW x \in resources(actor), d.id = x.id, x.writable,
         NEW intent, Numeric(intent), ~Refused(buildUpdate(actor, d, intent))
  PROVE  Fit(Applied(known, buildUpdate(actor, d, intent)), derived)
<1>1. Embeds(actor) /\ actor.systemId = known.systemId
  BY Enriched
<1>2. CASE known.systemId = "wod5e"
  <2>1. actor = known
    BY <1>2 DEF enrich
  <2>2. QED
    BY <1>2, <2>1, VampireIntentFits
<1>3. CASE known.systemId # "wod5e"
  <2>1. Likely(actor, known, derived)
    BY <1>3, LikelyRead
  <2>2. resources(actor) = Dnd!dnd5eResources(actor)
    BY <1>1, <1>3 DEF resources
  <2>3. buildUpdate(actor, d, intent) = Dnd!dnd5eWrite(actor, d, intent, Clamp(Wish(d, intent), d))
    BY <1>1, <1>3 DEF buildUpdate, Wish
  <2>4. Fit(Applied(known, Dnd!dnd5eWrite(actor, d, intent, Clamp(Wish(d, intent), d))), derived)
    BY <1>1, <2>1, <2>2, DndIntentFits DEF Details
  <2>5. QED
    BY <2>3, <2>4
<1>4. QED
  BY <1>2, <1>3

\* And the heal of a use and its roll.
LEMMA TheHealFits ==
  ASSUME NEW known, Embeds(known), NEW now, NEW derived, NEW ac, Details(derived, ac),
         Fit(known, derived), Fit(now, derived),
         NEW details, details \in {SlotValues(now) ++ derived, << >>},
         NEW actor, actor = enrich(known, details, ac)
  PROVE  HealFits(known, derived, TheHeal(actor))
<1>1. Hp(actor) = Hp(known) /\ HpMax(actor) = HpMax(known)
  <2>1. CASE known.systemId = "wod5e"
    BY <2>1 DEF enrich
  <2>2. CASE known.systemId # "wod5e"
    BY <2>2, LikelyRead DEF Likely
  <2>3. QED
    BY <2>1, <2>2
<1>2. PICK n, m : n = Hp(known) /\ m = HpMax(known)
  OBVIOUS
<1>3. m \in Nat /\ n \in 0..m
  BY <1>2, HpOfFit
<1>4. n \in Nat
  BY <1>3
<1>5. Has(known.sys, Dnd!HpPath("max")) => m = known.sys[Dnd!HpPath("max")]
  BY <1>2, HpOfFit
<1>6. Has(known.sys, Dnd!HpPath("max")) => m <= known.sys[Dnd!HpPath("max")]
  <2>1. m <= m
    BY <1>3
  <2>2. QED
    BY <1>5, <2>1
<1>7. TheHeal(actor) = [current |-> n, max |-> m]
  BY <1>1, <1>2 DEF TheHeal
<1>8. QED
  BY <1>3, <1>4, <1>6, <1>7 DEF HealFits

-----------------------------------------------------------------------------
(* Unless something is to blame, the document makes sense, and so does     *)
(* what a request has read of it and is about to write.                    *)

Sensible(derived, q) ==
  /\ q.stage = "details" => Fit(q.known, derived) /\ "" \notin ItemIds(q.known)
  /\ q.stage = "call" => \A k \in DOMAIN q.todo : Wise(q.known, derived, q.todo[k])
Healthy ==
  /\ \A r \in Requests : req[r].stage = "details" => req[r].body \in sc.bodies
  /\ blamed = {} =>
       Fit(world.doc, sc.derived) /\ \A r \in Requests : Sensible(sc.derived, req[r])

\* What the scenarios bring.
LEMMA ScenarioDetails ==
  ASSUME NEW s \in Scenarios
  PROVE  Details(s.derived, s.liveAc) /\ Fit(s.doc, s.derived)
<1>1. Sound(s.doc, s.derived) /\ Countable(s.doc, s.derived)
  BY CountingAssumption
<1>2. /\ Whole(s.derived, SlotPaths({"max"}))
      /\ DOMAIN s.derived \cap (HitPoints \cup SlotPaths({"value", "override"})) = {}
      /\ DOMAIN s.liveAc \cap (HitPoints \cup SlotPaths({"value", "max", "override"})) = {}
  BY CountingAssumption
<1>3. QED
  BY <1>1, <1>2, FitIsSound DEF Details

LEMMA ScenarioIntents ==
  ASSUME NEW s \in Scenarios, NEW body \in s.bodies, body.route = "intents"
  PROVE  Numeric(parseIntent(body))
<1>1. /\ Has(body, "kind") /\ body.kind \in {"set", "delta"}
      /\ LET n == IF body.kind = "set" THEN "value" ELSE "amount" IN Has(body, n) /\ body[n] \in Int
  BY CountingAssumption
<1>2. PICK intent : intent = parseIntent(body)
  OBVIOUS
<1>3. \A f \in DOMAIN body : f \in {"kind", "value", "amount"} => intent[f] = body[f]
  BY <1>2 DEF parseIntent
<1>4. intent.kind = body.kind
  BY <1>1, <1>3 DEF Has
<1>5. body.kind = "set" => intent.value \in Int
  BY <1>1, <1>3 DEF Has
<1>6. body.kind = "delta" => intent.amount \in Int
  BY <1>1, <1>3 DEF Has
<1>7. QED
  BY <1>1, <1>2, <1>4, <1>5, <1>6 DEF Numeric

LEMMA CountableSheet ==
  ASSUME NEW sys, NEW derived, NEW data, Whole(sys, SheetCounters), Whole(data, SheetCounters),
         DOMAIN data \cap SlotPaths({"max", "override"}) = {},
         \A p \in Dnd!SlotPools : \A f \in {"max", "override"} :
           Has(sys, Dnd!SlotPath(p, f)) /\ Has(derived, Dnd!SlotPath(p, "max")) =>
             sys[Dnd!SlotPath(p, f)] <= derived[Dnd!SlotPath(p, "max")]
  PROVE  /\ Whole(data ++ sys, SheetCounters)
         /\ \A p \in Dnd!SlotPools : \A f \in {"max", "override"} :
              Has(data ++ sys, Dnd!SlotPath(p, f)) /\ Has(derived, Dnd!SlotPath(p, "max")) =>
                (data ++ sys)[Dnd!SlotPath(p, f)] <= derived[Dnd!SlotPath(p, "max")]
<1>1. Whole(data ++ sys, SheetCounters)
  BY DEF Whole, ++
<1>2. ASSUME NEW p \in Dnd!SlotPools, NEW f \in {"max", "override"}
      PROVE  /\ Has(data ++ sys, Dnd!SlotPath(p, f)) <=> Has(sys, Dnd!SlotPath(p, f))
             /\ Has(sys, Dnd!SlotPath(p, f)) => (data ++ sys)[Dnd!SlotPath(p, f)] = sys[Dnd!SlotPath(p, f)]
  <2>1. Dnd!SlotPath(p, f) \notin DOMAIN data
    BY DEF SlotPaths
  <2>2. QED
    BY <2>1 DEF Has, ++
<1>3. QED
  BY <1>1, <1>2

LEMMA CountableEdited ==
  ASSUME NEW s \in Scenarios, NEW u \in s.edits, NEW doc, Embeds(doc), Countable(doc, s.derived)
  PROVE  Countable(Applied(doc, u), s.derived)
<1>1. PICK v : v = Applied(doc, u)
  OBVIOUS
<1>2. CASE Has(u, "itemId")
  <2>1. v = OnItem(doc, u.itemId, u.data)
    BY <1>1, <1>2 DEF Applied
  <2>2. ~Has(u.data, "id")
    BY <1>2, WritesAssumption
  <2>3. Whole(u.data, ItemCounters)
    BY <1>2, CountingAssumption
  <2>4. /\ DOMAIN v = DOMAIN doc /\ \A f \in DOMAIN doc \ {"items"} : v[f] = doc[f]
        /\ \A j : j \in ToSet(v.items) <=> \E i \in ToSet(doc.items) : j = Touched(i, u.itemId, u.data)
    BY <2>1, <2>2, EmbedsOnItem
  <2>5. v.sys = doc.sys
    BY <2>4 DEF Embeds
  <2>6. \A i \in ToSet(doc.items) : Whole(i, ItemCounters) /\ Whole(u.data ++ i, ItemCounters)
    BY <2>3 DEF Countable, Whole, ++
  <2>7. \A j \in ToSet(v.items) : Whole(j, ItemCounters)
    BY <2>4, <2>6 DEF Touched
  <2>8. QED
    BY <1>1, <2>5, <2>7 DEF Countable
<1>3. CASE ~Has(u, "itemId")
  <2>1. v = [doc EXCEPT !.sys = u.data ++ @]
    BY <1>1, <1>3 DEF Applied
  <2>2. v.sys = u.data ++ doc.sys /\ v.items = doc.items
    BY <2>1 DEF Embeds
  <2>3. Whole(u.data, SheetCounters) /\ DOMAIN u.data \cap SlotPaths({"max", "override"}) = {}
    BY <1>3, CountingAssumption
  <2>4. QED
    BY <1>1, <2>2, <2>3, CountableSheet DEF Countable
<1>4. QED
  BY <1>2, <1>3

\* What was decided makes sense of the document it was decided on.
LEMMA DueIsWise ==
  ASSUME NEW s \in Scenarios, NEW body \in s.bodies,
         NEW known, Embeds(known), Typed(known), "" \notin ItemIds(known), NEW now,
         Fit(known, s.derived), Fit(now, s.derived),
         NEW details, details \in {SlotValues(now) ++ s.derived, << >>},
         NEW actor, actor = enrich(known, details, s.liveAc), NEW c, Due(actor, body, c)
  PROVE  Wise(known, s.derived, c)
<1>1. Details(s.derived, s.liveAc)
  BY ScenarioDetails
<1>2. ASSUME c.do = "update" PROVE Fit(Applied(known, c.update), s.derived)
  <2>1. PICK d \in resources(actor), x \in resources(actor) :
          /\ body.route = "intents" /\ d.id = x.id /\ x.writable
          /\ c.update = buildUpdate(actor, d, parseIntent(body)) /\ ~Refused(c.update)
    BY <1>2 DEF Due
  <2>2. PICK intent : intent = parseIntent(body)
    OBVIOUS
  <2>3. Numeric(intent)
    BY <2>1, <2>2, ScenarioIntents
  <2>4. c.update = buildUpdate(actor, d, intent) /\ ~Refused(buildUpdate(actor, d, intent))
    BY <2>1, <2>2
  <2>5. QED
    BY <1>1, <2>1, <2>3, <2>4, UpdateIsWise
<1>3. ASSUME c.do = "updateItem", "container" \in DOMAIN c.data
      PROVE  Fit(OnItem(known, c.itemId, c.data), s.derived)
  <2>1. Roomy(actor, c.itemId, c.data)
    BY <1>3 DEF Due
  <2>2. actor.items = known.items
    BY Enriched
  <2>3. QED
    BY <1>3, <2>1, <2>2, MoveIsWise
<1>4. ASSUME c.do = "roll", c.heal # NoHeal PROVE HealFits(known, s.derived, c.heal)
  <2>1. c.heal = TheHeal(actor)
    BY <1>4 DEF Due
  <2>2. QED
    BY <1>1, <2>1, TheHealFits
<1>5. QED
  BY <1>2, <1>3, <1>4 DEF Wise

\* A call that is executed, and not to blame.
LEMMA ExecutedFits ==
  ASSUME Inv, WellKept, Fit(world.doc, sc.derived), NEW r \in Requests,
         NEW c, c.by = r, c.do \in Dos, Proper(world.doc, performed, c), Possible(world, c),
         c.do \in Gives => Spots(performed[r], Gives) = {},
         Computed(c) => Wise(world.doc, sc.derived, c) /\ ~(c.do = "update" /\ NoTotal(c.update)),
         NEW hit, world' = Executed(world, c, hit)
  PROVE  Fit(world'.doc, sc.derived)
<1>1. PICK doc, derived : doc = world.doc /\ derived = sc.derived
  OBVIOUS
<1>2. PICK v : v = world'.doc
  OBVIOUS
<1>3. Scratch(world) /\ Stocked(doc, performed)
  BY <1>1 DEF Inv, Bounded, Scratch, WellKept
<1>4. Embeds(doc) /\ Typed(doc) /\ Fit(doc, derived)
  BY <1>1, <1>3 DEF Stocked, Stamped
<1>5. Outcome(v, doc, c)
  BY <1>1, <1>2, <1>3, ExecutedDoc
<1>6. CASE Computed(c)
  <2>1. Wise(doc, derived, c) /\ ~(c.do = "update" /\ NoTotal(c.update))
    BY <1>1, <1>6
  <2>2. CASE c.do = "update"
    <3>1. v = Applied(doc, c.update) \/ v = doc
      BY <1>5, <2>2 DEF Outcome, Uses, Gives
    <3>2. Fit(Applied(doc, c.update), derived)
      BY <2>1, <2>2 DEF Wise
    <3>3. QED
      BY <1>1, <1>2, <1>4, <3>1, <3>2
  <2>3. CASE c.do = "updateItem" /\ "container" \in DOMAIN c.data
    <3>1. v = OnItem(doc, c.itemId, c.data) \/ v = doc
      BY <1>5, <2>3 DEF Outcome, Uses, Gives
    <3>2. Fit(OnItem(doc, c.itemId, c.data), derived)
      BY <2>1, <2>3 DEF Wise
    <3>3. QED
      BY <1>1, <1>2, <1>4, <3>1, <3>2
  <2>4. QED
    BY <1>6, <2>2, <2>3 DEF Computed
<1>7. CASE ~Computed(c)
  <2>1. Harmless(c)
    BY DEF Proper
  <2>2. c.do \in Uses => CanUse(doc, c.itemId, c.slotKey)
    BY <1>1 DEF Possible, Uses
  <2>3. c.do \in Gives => /\ c.by \notin ItemIds(doc) /\ At(c.item, "container", "") # c.by
                          /\ \A i \in ToSet(doc.items) : At(i, "container", "") # c.by
    <3>1. SUFFICES ASSUME c.do \in Gives
                   PROVE  /\ r \notin ItemIds(doc) /\ At(c.item, "container", "") # r
                          /\ \A i \in ToSet(doc.items) : At(i, "container", "") # r
      OBVIOUS
    <3>2. Spots(performed[r], Gives) = {}
      BY <3>1
    <3>3. r \notin ItemIds(doc)
      BY <1>3, <3>2 DEF Stocked, Stamped
    <3>4. \A i \in ToSet(doc.items) : At(i, "container", "") # r
      BY <1>3, <3>2 DEF Stocked, Shelf
    <3>5. At(c.item, "container", "") # r
      <4>1. sc \in Scenarios
        BY DEF Inv, Bounded
      <4>2. MayHold(sc.doc, At(c.item, "container", ""))
        BY <2>1, <3>1, <4>1 DEF Harmless, Entry
      <4>3. QED
        BY <4>2 DEF MayHold
    <3>6. QED
      BY <3>3, <3>4, <3>5
  <2>4. Whole(derived, SlotPaths({"max"}))
    BY <1>1, ScenarioDetails DEF Inv, Bounded, Details
  <2>5. Fit(v, derived)
    BY <1>4, <1>5, <1>7, <2>1, <2>2, <2>3, <2>4, FitOutcome
  <2>6. QED
    BY <1>1, <1>2, <2>5
<1>8. QED
  BY <1>6, <1>7

\* A use does not touch what a heal was computed from.
LEMMA HealKept ==
  ASSUME NEW doc, NEW v, NEW derived, NEW heal, HealFits(doc, derived, heal),
         Embeds(v), Fit(v, derived), NEW id, NEW slot,
         v = doc \/ (CanUse(doc, id, slot) /\ v = AfterUse(doc, id, slot))
  PROVE  HealFits(v, derived, heal)
<1>1. CASE v = doc
  BY <1>1
<1>2. CASE CanUse(doc, id, slot) /\ v = AfterUse(doc, id, slot)
  <2>1. Embeds(doc)
    BY DEF HealFits
  <2>2. PICK f \in {"value", "max", "temp"} : f = "max"
    OBVIOUS
  <2>3. /\ Has(v.sys, Dnd!HpPath(f)) <=> Has(doc.sys, Dnd!HpPath(f))
        /\ Has(doc.sys, Dnd!HpPath(f)) => v.sys[Dnd!HpPath(f)] = doc.sys[Dnd!HpPath(f)]
    BY <1>2, <2>1, UseSparesHp
  <2>4. QED
    BY <2>2, <2>3 DEF HealFits
<1>3. QED
  BY <1>1, <1>2

\* What is left to do after a call makes sense of what is known by then.
LEMMA LeftIsWise ==
  ASSUME NEW r \in Requests, NEW derived, Sensible(derived, req[r]), req[r].stage = "call",
         NEW c, c = req[r].todo[1], 1 \in DOMAIN req[r].todo,
         NEW v, Embeds(v), Fit(v, derived),
         v = world.doc \/ c.do # "roll",
         v = world.doc \/ c.do # "activate"
           \/ (CanUse(world.doc, c.itemId, c.slotKey) /\ v = AfterUse(world.doc, c.itemId, c.slotKey)),
         NEW known, known = req[r].known \/ (req[r].known = world.doc /\ known = v),
         NEW total \in Int, NEW x, Left(r, c, total, x)
  PROVE  Wise(known, derived, x)
<1>1. \A k \in DOMAIN req[r].todo : Wise(req[r].known, derived, req[r].todo[k])
  BY DEF Sensible
<1>2. CASE x.do \in {"activate", "effect", "giveMade", "delete"}
  BY <1>2 DEF Wise
<1>3. CASE x.do = "roll" /\ c.do = "activate" /\ \E k \in DOMAIN req[r].todo : x = req[r].todo[k]
  <2>1. Wise(req[r].known, derived, x)
    BY <1>1, <1>3
  <2>2. SUFFICES ASSUME x.heal # NoHeal PROVE HealFits(known, derived, x.heal)
    BY <1>3 DEF Wise
  <2>3. HealFits(req[r].known, derived, x.heal)
    BY <1>3, <2>1, <2>2 DEF Wise
  <2>4. CASE known = req[r].known
    BY <2>3, <2>4
  <2>5. CASE req[r].known = world.doc /\ known = v
    <3>1. HealFits(world.doc, derived, x.heal)
      BY <2>3, <2>5
    <3>2. v = world.doc \/ (CanUse(world.doc, c.itemId, c.slotKey) /\ v = AfterUse(world.doc, c.itemId, c.slotKey))
      BY <1>3
    <3>3. HealFits(v, derived, x.heal)
      BY <3>1, <3>2, HealKept
    <3>4. QED
      BY <2>5, <3>3
  <2>6. QED
    BY <2>4, <2>5
<1>4. CASE c.do = "roll" /\ c.heal # NoHeal /\ x = HealUpdate(r, c.heal, total)
  <2>1. known = req[r].known
    BY <1>4
  <2>2. HealFits(known, derived, c.heal)
    BY <1>1, <1>4, <2>1 DEF Wise
  <2>3. QED
    BY <1>4, <2>2, HealIsWise
<1>5. QED
  BY <1>2, <1>3, <1>4 DEF Left

LEMMA AnswerIsSensible ==
  ASSUME Inv, WellKept, WellKept', NEW r \in Requests, req[r].stage = "call",
         NEW derived, Sensible(derived, req[r]), Fit(world'.doc, derived),
         world'.doc = world.doc
           \/ (Possible(world, Head(req[r].todo)) /\ Outcome(world'.doc, world.doc, Head(req[r].todo))),
         NEW answer, NEW total \in Int, Answered(r, Head(req[r].todo), answer, total)
  PROVE  /\ DOMAIN req' = Requests /\ \A o \in Requests \ {r} : req'[o] = req[o]
         /\ req'[r].stage # "details" /\ Sensible(derived, req'[r])
<1>1. PICK c : c = Head(req[r].todo)
  OBVIOUS
<1>2. c = req[r].todo[1] /\ 1 \in DOMAIN req[r].todo
  BY <1>1, NextCall
<1>3. AllHarmless(req[r].todo)
  BY DEF WellKept, Sees, Calls, Proper, AllHarmless
<1>4. /\ DOMAIN req' = Requests /\ \A o \in Requests \ {r} : req'[o] = req[o]
      /\ req'[r].stage # "details"
      /\ req'[r].stage = "call" =>
           /\ AllLeft(r, c, total, req'[r].todo)
           /\ \/ req'[r].known = req[r].known
              \/ req[r].known = world.doc /\ req'[r].known = world'.doc
  BY <1>1, <1>3, AnswerLeaves
<1>5. PICK v : v = world'.doc
  OBVIOUS
<1>6. Embeds(v) /\ Fit(v, derived)
  BY <1>5 DEF WellKept, Stocked, Stamped
<1>7. v = world.doc \/ (Possible(world, c) /\ Outcome(v, world.doc, c))
  BY <1>1, <1>5
<1>8. v = world.doc \/ c.do # "roll"
  BY <1>7 DEF Outcome, Uses, Gives
<1>9. v = world.doc \/ c.do # "activate"
        \/ (CanUse(world.doc, c.itemId, c.slotKey) /\ v = AfterUse(world.doc, c.itemId, c.slotKey))
  <2> SUFFICES ASSUME v # world.doc, c.do = "activate"
               PROVE  CanUse(world.doc, c.itemId, c.slotKey) /\ v = AfterUse(world.doc, c.itemId, c.slotKey)
    OBVIOUS
  <2>1. CanUse(world.doc, c.itemId, c.slotKey)
    BY <1>7 DEF Possible
  <2>2. v = AfterUse(world.doc, c.itemId, c.slotKey)
    BY <1>7 DEF Outcome, Uses, Gives
  <2>3. QED
    BY <2>1, <2>2
<1>10. ASSUME req'[r].stage = "call", NEW k \in DOMAIN req'[r].todo
       PROVE  Wise(req'[r].known, derived, req'[r].todo[k])
  <2>1. PICK known, x : known = req'[r].known /\ x = req'[r].todo[k]
    OBVIOUS
  <2>2. known = req[r].known \/ (req[r].known = world.doc /\ known = v)
    BY <1>4, <1>5, <1>10, <2>1
  <2>3. Left(r, c, total, x)
    BY <1>4, <1>10, <2>1 DEF AllLeft
  <2>4. Wise(known, derived, x)
    BY <1>2, <1>6, <1>8, <1>9, <2>2, <2>3, LeftIsWise
  <2>5. QED
    BY <2>1, <2>4
<1>11. Sensible(derived, req'[r])
  BY <1>4, <1>10 DEF Sensible
<1>12. QED
  BY <1>4, <1>11

LEMMA HealthyInit == Init => Healthy
<1> SUFFICES ASSUME Init PROVE Healthy
  OBVIOUS
<1>1. sc \in Scenarios /\ world.doc = sc.doc
  BY DEF Init
<1>2. \A r \in Requests : req[r].stage = "idle"
  BY DEF Init, Standing
<1>3. Fit(world.doc, sc.derived)
  BY <1>1, ScenarioDetails
<1>4. QED
  BY <1>2, <1>3 DEF Healthy, Sensible

\* Where one request moves on, it is to be looked at.
LEMMA OneMovesOn ==
  ASSUME Healthy, NEW r \in Requests, \A o \in Requests \ {r} : req'[o] = req[o], sc' = sc,
         req'[r].stage = "details" => req'[r].body \in sc.bodies, blamed \subseteq blamed',
         blamed' = {} => Fit(world'.doc, sc.derived) /\ Sensible(sc.derived, req'[r])
  PROVE  Healthy'
<1>1. ASSUME NEW o \in Requests, req'[o].stage = "details" PROVE req'[o].body \in sc.bodies
  BY <1>1 DEF Healthy
<1>2. ASSUME blamed' = {} PROVE Fit(world'.doc, sc.derived) /\ \A o \in Requests : Sensible(sc.derived, req'[o])
  <2>1. blamed = {}
    BY <1>2
  <2>2. \A o \in Requests \ {r} : Sensible(sc.derived, req'[o])
    BY <2>1 DEF Healthy
  <2>3. QED
    BY <1>2, <2>2
<1>3. /\ \A o \in Requests : req'[o].stage = "details" => req'[o].body \in sc'.bodies
      /\ blamed' = {} =>
           Fit(world'.doc, sc'.derived) /\ \A o \in Requests : Sensible(sc'.derived, req'[o])
  BY <1>1, <1>2
<1>4. QED
  BY <1>3 DEF Healthy, Sensible

\* A request that moves on by itself.
LEMMA MovesOn ==
  ASSUME Inv, Healthy, NEW r \in Requests, NEW q, req' = [req EXCEPT ![r] = q],
         sc' = sc, world' = world, blamed' = blamed,
         q.stage = "details" => q.body \in sc.bodies,
         blamed = {} => Sensible(sc.derived, q)
  PROVE  Healthy'
<1>1. req'[r] = q /\ \A o \in Requests \ {r} : req'[o] = req[o]
  BY DEF Inv, Bounded
<1>2. blamed' = {} => Fit(world'.doc, sc.derived) /\ Sensible(sc.derived, req'[r])
  BY <1>1 DEF Healthy
<1>3. QED
  BY <1>1, <1>2, OneMovesOn

LEMMA ReceiveStaysHealthy == ASSUME Inv, WellKept, Healthy, NEW r \in Requests, Receive(r) PROVE Healthy'
<1>1. sc' = sc /\ world' = world /\ blamed' = blamed
  BY DEF Receive, ghosts
<1>2. PICK body \in sc.bodies :
        \/ req' = [req EXCEPT ![r] = [Standing("details", body) EXCEPT !.known = world.doc]]
        \/ req' = [req EXCEPT ![r] = [Standing("call", body) EXCEPT !.todo = <<Roll(r, NoHeal)>>]]
        \/ \E x : req' = [req EXCEPT ![r] = [Standing("done", body) EXCEPT !.reply = x]]
  BY DEF Receive
<1>3. CASE req' = [req EXCEPT ![r] = [Standing("details", body) EXCEPT !.known = world.doc]]
  <2>1. PICK q : q = [Standing("details", body) EXCEPT !.known = world.doc]
    OBVIOUS
  <2>2. q.stage = "details" /\ q.body = body /\ q.known = world.doc
    BY <2>1 DEF Standing
  <2>3. "" \notin ItemIds(q.known)
    BY <2>2 DEF WellKept, Stocked, Stamped
  <2>4. blamed = {} => Sensible(sc.derived, q)
    BY <2>2, <2>3 DEF Healthy, Sensible
  <2>5. QED
    BY <1>1, <1>3, <2>1, <2>2, <2>4, MovesOn
<1>4. ASSUME NEW x, req' = [req EXCEPT ![r] = [Standing("done", body) EXCEPT !.reply = x]] PROVE Healthy'
  <2>1. PICK q : q = [Standing("done", body) EXCEPT !.reply = x]
    OBVIOUS
  <2>2. q.stage = "done"
    BY <2>1 DEF Standing
  <2>3. Sensible(sc.derived, q)
    BY <2>2 DEF Sensible
  <2>4. QED
    BY <1>1, <1>4, <2>1, <2>2, <2>3, MovesOn
<1>5. CASE req' = [req EXCEPT ![r] = [Standing("call", body) EXCEPT !.todo = <<Roll(r, NoHeal)>>]]
  <2>1. PICK q : q = [Standing("call", body) EXCEPT !.todo = <<Roll(r, NoHeal)>>]
    OBVIOUS
  <2>2. q.stage = "call" /\ q.todo = <<Roll(r, NoHeal)>>
    BY <2>1 DEF Standing
  <2>3. PICK c : c = Roll(r, NoHeal)
    OBVIOUS
  <2>4. c.do = "roll" /\ c.heal = NoHeal
    BY <2>3 DEF Roll
  <2>5. Wise(q.known, sc.derived, c)
    BY <2>4 DEF Wise
  <2>6. \A k \in DOMAIN q.todo : q.todo[k] = c
    BY <2>2, <2>3
  <2>7. Sensible(sc.derived, q)
    BY <2>2, <2>5, <2>6 DEF Sensible
  <2>8. QED
    BY <1>1, <1>5, <2>1, <2>2, <2>7, MovesOn
<1>6. QED
  BY <1>2, <1>3, <1>4, <1>5

LEMMA DecideStaysHealthy == ASSUME Inv, WellKept, Healthy, NEW r \in Requests, Decide(r) PROVE Healthy'
<1>1. sc' = sc /\ world' = world /\ blamed' = blamed /\ req[r].stage = "details"
  BY DEF Decide, ghosts
<1>2. PICK details \in {SystemDetails, << >>} :
        Act(r, Decision(r, enrich(req[r].known, details, sc.liveAc), req[r].body))
  BY DEF Decide
<1>3. PICK actor : actor = enrich(req[r].known, details, sc.liveAc)
  OBVIOUS
<1>4. PICK d : d = Decision(r, actor, req[r].body)
  OBVIOUS
<1>5. Act(r, d) /\ DOMAIN req = Requests
  BY <1>2, <1>3, <1>4 DEF Inv, Bounded
<1>6. CASE d.code # 200
  <2>1. PICK q : q = [Standing("done", req[r].body) EXCEPT !.reply = d.code]
    OBVIOUS
  <2>2. req' = [req EXCEPT ![r] = q] /\ q.stage = "done"
    BY <1>5, <1>6, <2>1 DEF Act, Reply, Standing
  <2>3. Sensible(sc.derived, q)
    BY <2>2 DEF Sensible
  <2>4. QED
    BY <1>1, <2>2, <2>3, MovesOn
<1>7. CASE d.code = 200
  <2>1. PICK q : q = [Standing("call", req[r].body) EXCEPT !.known = req[r].known, !.todo = d.todo, !.gave = TRUE]
    OBVIOUS
  <2>2. req' = [req EXCEPT ![r] = q]
    BY <1>5, <1>7, <2>1 DEF Act, Continue
  <2>3. q.todo = d.todo /\ q.stage = "call" /\ q.known = req[r].known
    BY <2>1 DEF Standing
  <2>4. AllDue(actor, req[r].body, d.todo)
    BY <1>1, <1>3, <1>4, <1>7, DecidesWell
  <2>5. PICK known : known = req[r].known
    OBVIOUS
  <2>6. Embeds(known) /\ Typed(known)
    BY <1>1, <2>5 DEF WellKept, Sees, Seen
  <2>7. sc \in Scenarios /\ req[r].body \in sc.bodies
    BY <1>1 DEF Inv, Bounded, Healthy
  <2>8. details \in {SlotValues(world.doc) ++ sc.derived, << >>}
    BY <1>2 DEF SystemDetails
  <2>9. ASSUME blamed = {}, NEW k \in DOMAIN q.todo PROVE Wise(q.known, sc.derived, q.todo[k])
    <3>1. Fit(known, sc.derived) /\ "" \notin ItemIds(known) /\ Fit(world.doc, sc.derived)
      BY <1>1, <2>5, <2>9 DEF Healthy, Sensible
    <3>2. PICK c : c = d.todo[k]
      OBVIOUS
    <3>3. Due(actor, req[r].body, c)
      BY <2>3, <2>4, <2>9, <3>2 DEF AllDue
    <3>4. actor = enrich(known, details, sc.liveAc)
      BY <1>3, <2>5
    <3>5. Wise(known, sc.derived, c)
      BY <2>6, <2>7, <2>8, <3>1, <3>3, <3>4, DueIsWise
    <3>6. QED
      BY <2>3, <2>5, <3>2, <3>5
  <2>10. blamed = {} => Sensible(sc.derived, q)
    BY <2>3, <2>9 DEF Sensible
  <2>11. QED
    BY <1>1, <2>2, <2>3, <2>10, MovesOn
<1>8. QED
  BY <1>6, <1>7

LEMMA ReadStaysHealthy ==
  ASSUME Inv, Healthy, NEW r \in Requests, EntryUnread(r) \/ FreshRead(r) PROVE Healthy'
<1>1. sc' = sc /\ world' = world /\ blamed' = blamed /\ DOMAIN req = Requests
  BY DEF EntryUnread, FreshRead, ghosts, Inv, Bounded
<1>2. PICK code : Reply(r, code)
  BY DEF EntryUnread, FreshRead
<1>3. PICK q : q = [Standing("done", req[r].body) EXCEPT !.reply = code]
  OBVIOUS
<1>4. req' = [req EXCEPT ![r] = q] /\ q.stage = "done"
  BY <1>1, <1>2, <1>3 DEF Reply, Standing
<1>5. Sensible(sc.derived, q)
  BY <1>4 DEF Sensible
<1>6. QED
  BY <1>1, <1>4, <1>5, MovesOn

\* A call is answered, and what it did to the document is fit.
LEMMA AnsweredStaysHealthy ==
  ASSUME Inv, WellKept, WellKept', Healthy, NEW r \in Requests, req[r].stage = "call", sc' = sc,
         blamed \subseteq blamed', blamed' = {} => Fit(world'.doc, sc.derived),
         world'.doc = world.doc
           \/ (Possible(world, Head(req[r].todo)) /\ Outcome(world'.doc, world.doc, Head(req[r].todo))),
         NEW answer, NEW total \in Int, Answered(r, Head(req[r].todo), answer, total)
  PROVE  Healthy'
<1>1. PICK c : c = Head(req[r].todo)
  OBVIOUS
<1>2. /\ \A o \in Requests \ {r} : req'[o] = req[o]
      /\ req'[r].stage # "details"
  <2>1. AllHarmless(req[r].todo)
    BY DEF WellKept, Sees, Calls, Proper, AllHarmless
  <2>2. QED
    BY <2>1, AnswerLeaves
<1>3. ASSUME blamed' = {} PROVE Sensible(sc.derived, req'[r])
  <2>1. PICK derived : derived = sc.derived
    OBVIOUS
  <2>2. Sensible(derived, req[r]) /\ Fit(world'.doc, derived)
    <3>1. blamed = {}
      BY <1>3
    <3>2. QED
      BY <1>3, <2>1, <3>1 DEF Healthy
  <2>3. Sensible(derived, req'[r])
    BY <2>2, AnswerIsSensible
  <2>4. QED
    BY <2>1, <2>3
<1>4. QED
  BY <1>2, <1>3, OneMovesOn

\* A call that is executed in time.
LEMMA ExecuteStaysFit ==
  ASSUME Inv, WellKept, Healthy, NEW r \in Requests, req[r].stage = "call",
         Possible(world, Head(req[r].todo)), NEW hit, Execute(Head(req[r].todo), hit)
  PROVE  /\ blamed \subseteq blamed' /\ Outcome(world'.doc, world.doc, Head(req[r].todo))
         /\ blamed' = {} => Fit(world'.doc, sc.derived)
<1>1. PICK c : c = Head(req[r].todo)
  OBVIOUS
<1>2. c.by = r /\ c.do \in Dos /\ c = req[r].todo[1] /\ 1 \in DOMAIN req[r].todo
  BY <1>1, NextCall
<1>3. Proper(world.doc, performed, c)
  BY <1>2 DEF WellKept, Sees, Calls
<1>4. c.do \in Gives => Spots(performed[r], Gives) = {}
  BY <1>2 DEF Inv, Orderly, Called, Gives, Pristine, Unspent, Spots
<1>5. /\ Possible(world, c) /\ world' = Executed(world, c, hit) /\ Blame(r, c)
      /\ performed' = [performed EXCEPT ![r] = Append(@, c.do)]
  BY <1>1, <1>2 DEF Execute
<1>6. Outcome(world'.doc, world.doc, c)
  BY <1>2, <1>3, <1>4, <1>5, ExecutedStock
<1>7. ASSUME blamed' = {} PROVE Fit(world'.doc, sc.derived)
  <2>1. blamed = {} /\ (Computed(c) => req[r].known = world.doc) /\ ~(c.do = "update" /\ NoTotal(c.update))
    BY <1>5, <1>7 DEF Blame, NoTotal
  <2>2. Fit(world.doc, sc.derived) /\ Wise(req[r].known, sc.derived, c)
    BY <1>2, <2>1 DEF Healthy, Sensible
  <2>3. Computed(c) => Wise(world.doc, sc.derived, c) /\ ~(c.do = "update" /\ NoTotal(c.update))
    BY <2>1, <2>2
  <2>4. QED
    BY <1>2, <1>3, <1>4, <1>5, <2>2, <2>3, ExecutedFits
<1>8. blamed \subseteq blamed'
  BY <1>5 DEF Blame
<1>9. QED
  BY <1>1, <1>6, <1>7, <1>8

LEMMA LateStaysHealthy ==
  ASSUME Inv, WellKept, Healthy, NEW c \in late, ExecuteLate(c) PROVE Healthy'
<1>1. c.by \in Requests /\ c.do \in Dos /\ Proper(world.doc, performed, c)
  BY DEF Inv, Bounded, WellKept
<1>2. req' = req /\ sc' = sc /\ blamed' = IF Computed(c) THEN blamed \cup {"stale"} ELSE blamed
  BY DEF ExecuteLate
<1>3. ASSUME blamed' = {} PROVE blamed = {} /\ Fit(world'.doc, sc.derived)
  <2>1. blamed = {} /\ ~Computed(c)
    BY <1>2, <1>3
  <2>2. Fit(world.doc, sc.derived)
    BY <2>1 DEF Healthy
  <2>3. CASE Possible(world, c)
    <3>1. PICK hit : world' = Executed(world, c, hit)
      BY <2>3 DEF ExecuteLate
    <3>2. c.do \in Gives => Spots(performed[c.by], Gives) = {}
      BY <1>1 DEF Inv, Orderly, Once, LateOf
    <3>3. QED
      BY <1>1, <2>1, <2>2, <2>3, <3>1, <3>2, ExecutedFits
  <2>4. CASE ~Possible(world, c)
    BY <2>1, <2>2, <2>4 DEF ExecuteLate
  <2>5. QED
    BY <2>3, <2>4
<1>4. /\ \A o \in Requests : req'[o].stage = "details" => req'[o].body \in sc'.bodies
      /\ blamed' = {} =>
           Fit(world'.doc, sc'.derived) /\ \A o \in Requests : Sensible(sc'.derived, req'[o])
  BY <1>2, <1>3 DEF Healthy
<1>5. QED
  BY <1>4 DEF Healthy, Sensible

LEMMA EditStaysHealthy ==
  ASSUME Inv, WellKept, Healthy, NEW u \in sc.edits, GmEdits(u) PROVE Healthy'
<1>1. req' = req /\ sc' = sc /\ blamed' = blamed /\ world' = [world EXCEPT !.doc = Applied(@, u)]
  BY DEF GmEdits, ghosts
<1>2. world'.doc = Applied(world.doc, u)
  BY <1>1 DEF Inv, Bounded
<1>3. ASSUME blamed = {} PROVE Fit(world'.doc, sc.derived)
  <2>1. Sound(world.doc, sc.derived) /\ Countable(world.doc, sc.derived)
    BY <1>3, FitIsSound DEF Healthy
  <2>2. Sound(Applied(world.doc, u), sc.derived)
    BY <2>1 DEF GmEdits
  <2>3. Countable(Applied(world.doc, u), sc.derived)
    <3>1. sc \in Scenarios /\ Embeds(world.doc)
      BY DEF Inv, Bounded, WellKept, Stocked, Stamped
    <3>2. QED
      BY <2>1, <3>1, CountableEdited
  <2>4. QED
    BY <1>2, <2>2, <2>3, FitIsSound
<1>4. /\ \A o \in Requests : req'[o].stage = "details" => req'[o].body \in sc'.bodies
      /\ blamed' = {} =>
           Fit(world'.doc, sc'.derived) /\ \A o \in Requests : Sensible(sc'.derived, req'[o])
  BY <1>1, <1>3 DEF Healthy
<1>5. QED
  BY <1>4 DEF Healthy, Sensible

LEMMA HealthyStep == Inv /\ WellKept /\ Healthy /\ [Next]_vars => Healthy'
<1> SUFFICES ASSUME Inv, WellKept, Healthy, [Next]_vars PROVE Healthy'
  OBVIOUS
<1>1. WellKept'
  BY WellKeptStep
<1>2. NoNumber \in Int /\ Totals \subseteq Int
  <2>1. NoNumber \in Int
    BY DEF NoNumber
  <2>2. Totals \subseteq Int
    BY WritesAssumption
  <2>3. QED
    BY <2>1, <2>2
<1>3. ASSUME NEW r \in Requests, CallGoesWell(r) PROVE Healthy'
  <2>1. PICK hit, total :
          /\ total \in Totals /\ Possible(world, Head(req[r].todo)) /\ Execute(Head(req[r].todo), hit)
          /\ Answered(r, Head(req[r].todo), "ok", total) /\ req[r].stage = "call" /\ sc' = sc
    BY <1>3 DEF CallGoesWell
  <2>2. total \in Int
    BY <1>2, <2>1
  <2>3. /\ blamed \subseteq blamed' /\ Outcome(world'.doc, world.doc, Head(req[r].todo))
        /\ blamed' = {} => Fit(world'.doc, sc.derived)
    BY <2>1, ExecuteStaysFit
  <2>4. QED
    BY <1>1, <2>1, <2>2, <2>3, AnsweredStaysHealthy
<1>4. ASSUME NEW r \in Requests, CallIsRefused(r) PROVE Healthy'
  <2>1. PICK answer :
          /\ Answered(r, Head(req[r].todo), answer, NoNumber) /\ req[r].stage = "call" /\ sc' = sc
          /\ UNCHANGED <<world, blamed>>
    BY <1>4 DEF CallIsRefused, NotExecuted
  <2>2. blamed' = {} => Fit(world'.doc, sc.derived)
    BY <2>1 DEF Healthy
  <2>3. QED
    BY <1>1, <1>2, <2>1, <2>2, AnsweredStaysHealthy
<1>5. ASSUME NEW r \in Requests, CallGoesWrong(r) PROVE Healthy'
  <2>1. PICK m : /\ IF m[2] THEN Possible(world, Head(req[r].todo)) /\ Execute(Head(req[r].todo), {}) ELSE NotExecuted
                 /\ Answered(r, Head(req[r].todo), m[1], NoNumber)
    BY <1>5 DEF CallGoesWrong
  <2>2. req[r].stage = "call" /\ sc' = sc
    BY <1>5 DEF CallGoesWrong
  <2>3. CASE m[2]
    <3>1. Possible(world, Head(req[r].todo)) /\ Execute(Head(req[r].todo), {})
      BY <2>1, <2>3
    <3>2. /\ blamed \subseteq blamed' /\ Outcome(world'.doc, world.doc, Head(req[r].todo))
          /\ blamed' = {} => Fit(world'.doc, sc.derived)
      BY <2>2, <3>1, ExecuteStaysFit
    <3>3. QED
      BY <1>1, <1>2, <2>1, <2>2, <3>1, <3>2, AnsweredStaysHealthy
  <2>4. CASE ~m[2]
    <3>1. UNCHANGED <<world, blamed>>
      BY <2>1, <2>4 DEF NotExecuted
    <3>2. blamed' = {} => Fit(world'.doc, sc.derived)
      BY <3>1 DEF Healthy
    <3>3. QED
      BY <1>1, <1>2, <2>1, <2>2, <3>1, <3>2, AnsweredStaysHealthy
  <2>5. QED
    BY <2>3, <2>4
<1>6. CASE UNCHANGED vars
  BY <1>6 DEF vars, Healthy, Sensible
<1>7. QED
  BY <1>3, <1>4, <1>5, <1>6, ReceiveStaysHealthy, DecideStaysHealthy, ReadStaysHealthy,
     LateStaysHealthy, EditStaysHealthy DEF Next

(***************************************************************************)
(* No interleaving of requests, retries, late calls and edits of the GM    *)
(* takes a counter out of its bounds, a damage box out of its track or a   *)
(* container into its own contents, but for the two reasons named: a write *)
(* computed from a document that was changed meanwhile, and a heal of a    *)
(* roll without a total.                                                   *)
(***************************************************************************)
THEOREM CountersStayInBounds == Spec => []SoundUnlessBlamed
<1>1. Healthy => SoundUnlessBlamed
  BY FitIsSound DEF Healthy, SoundUnlessBlamed
<1>2. QED
  BY <1>1, InvInit, InvStep, WellKeptInit, WellKeptStep, HealthyInit, HealthyStep, PTL DEF Spec
=============================================================================
