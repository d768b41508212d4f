-------------------------------- MODULE Wod5e --------------------------------
(***************************************************************************)
(* The Vampire (wod5e) sheet: damage tracks whose two kinds of boxes bound *)
(* each other, dice pools of an attribute and a second component, and      *)
(* items a player writes for himself.  The keys a document has under a     *)
(* node ("attributes", "skills", "disciplines") are the set stored at that *)
(* path; actor.type is the kind of character.                              *)
(***************************************************************************)
EXTENDS FoundryDoc

ATTRIBUTES == {"strength", "dexterity", "stamina", "charisma", "manipulation",
               "composure", "intelligence", "wits", "resolve"}
SKILLS == {"academics", "animalken", "athletics", "awareness", "brawl", "craft", "drive",
           "etiquette", "finance", "firearms", "insight", "intimidation", "investigation",
           "larceny", "leadership", "medicine", "melee", "occult", "performance",
           "persuasion", "politics", "science", "stealth", "streetwise", "subterfuge",
           "survival", "technology"}
VocabOf == [attributes |-> ATTRIBUTES, skills |-> SKILLS, disciplines |-> {}]
Untouched == [attributes |-> 1, skills |-> 0, disciplines |-> 0]

\* The vocabulary, and whatever else the document has: nothing is dropped.
vocabKeys(actor, node) == VocabOf[node] \cup At(actor.sys, <<node>>, {})
Dots(actor, node, key) ==
  At(actor.sys, <<node, key, "value">>, Untouched[node])
vocabDotsStats(actor, node) ==
  {[id |-> <<node, k>>, value |-> Dots(actor, node, k), actionId |-> <<"pool", node, k>>] :
     k \in vocabKeys(actor, node)}

-----------------------------------------------------------------------------
\* Disciplines and their powers

powerItems(actor) == ItemsOf(actor, {"power"})
DisciplineOf(p) == At(p, "discipline", "")

\* Powers say which discipline they are of; the document's own lists are empty.
disciplineKeys(actor) ==
  vocabKeys(actor, "disciplines") \cup ({DisciplineOf(p) : p \in powerItems(actor)} \ {""})
disciplineRatingStats(actor) ==
  {[id |-> <<"disc", k>>, value |-> Dots(actor, "disciplines", k)] :
     k \in {d \in disciplineKeys(actor) :
              \/ IsAt(actor.sys, <<"disciplines", d, "visible">>, TRUE)
              \/ Dots(actor, "disciplines", d) > 0
              \/ \E p \in powerItems(actor) : DisciplineOf(p) = d}}
disciplinePowerItems(actor) ==
  {[id |-> p.id, level |-> At(p, "level", 0), discipline |-> DisciplineOf(p),
    actionId |-> <<"pool", "power", p.id>>] : p \in powerItems(actor)}

-----------------------------------------------------------------------------
\* Counters

Box(prefix, kind) == <<prefix, kind>>
Number(actor, path) == At(actor.sys, path, 0)

Other(kind) == IF kind = "superficial" THEN "aggravated" ELSE "superficial"

\* A track's boxes of one kind are bounded by those the other kind leaves.
trackBoxResources(actor, prefix) ==
  {[id |-> <<prefix, k>>, value |-> Number(actor, Box(prefix, k)), writable |-> TRUE,
    min |-> 0, max |-> Max({0, Number(actor, Box(prefix, "max")) - Number(actor, Box(prefix, Other(k)))})]
   : k \in {"superficial", "aggravated"}}

\* One of a kind has no counter.
Stacked(i) == i.type = "gear" /\ At(i, "quantity", 1) > 1
gearListItems(actor) ==
  {[id |-> i.id, resourceId |-> IF Stacked(i) THEN <<"item", i.id, "qty">> ELSE <<>>] :
     i \in ItemsOf(actor, {"weapon", "gear"})}

wod5eResources(actor) ==
  trackBoxResources(actor, "health") \cup trackBoxResources(actor, "willpower")
  \cup {[id |-> <<"hunger">>, value |-> Number(actor, <<"hunger", "value">>), writable |-> TRUE,
         min |-> 0, max |-> 5],
        [id |-> <<"humanity", "stains">>, value |-> Number(actor, <<"humanity", "stains">>),
         writable |-> TRUE, min |-> 0, max |-> 10],
        [id |-> <<"humanity">>, value |-> At(actor.sys, <<"humanity", "value">>, 7),
         writable |-> FALSE, min |-> 0, max |-> 10],
        [id |-> <<"bloodpotency">>, value |-> Number(actor, <<"blood", "potency">>),
         writable |-> FALSE, min |-> 0]}
  \cup {[id |-> <<"item", i.id, "qty">>, value |-> i.quantity, writable |-> TRUE,
         min |-> 0, max |-> 999] : i \in {j \in ToSet(actor.items) : Stacked(j)}}

\* buildUpdate checks the value the player saw once more.
wod5eWrite(d, intent, target) ==
  IF Has(intent, "expected") /\ intent.expected # d.value THEN Refusal("CONFLICT")
  ELSE IF d.id[1] = "item" THEN [itemId |-> d.id[2], data |-> Field("quantity", target)]
  ELSE [data |-> Field(IF d.id = <<"hunger">> THEN <<"hunger", "value">> ELSE Box(d.id[1], d.id[2]), target)]

-----------------------------------------------------------------------------
\* Dice pools

Pool(id, attribute, second) ==
  [id |-> id, kind |-> "pool", attribute |-> attribute, second |-> second]
NoSecond == <<"none", "">>

wod5eActions(actor) ==
  {Pool(<<"pool", "attributes", k>>, k, NoSecond) : k \in vocabKeys(actor, "attributes")}
  \cup {Pool(<<"pool", "skills", k>>, "dexterity", <<"skills", k>>) :
          k \in vocabKeys(actor, "skills")}
  \cup {Pool(<<"pool", "power", p.id>>, "resolve",
             IF DisciplineOf(p) = "" THEN NoSecond ELSE <<"disciplines", DisciplineOf(p)>>) :
          p \in powerItems(actor)}
  \cup {[id |-> <<"rouse">>, kind |-> "rouse"]}

isVampireFlavored(actor) == At(actor.sys, <<"gamesystem">>, actor.type) = "vampire"

validateSecondId(actor, second) ==
  CASE second[1] = "skills" -> second[2] \in vocabKeys(actor, "skills")
    [] second[1] = "disciplines" -> second[2] \in disciplineKeys(actor)
    [] OTHER -> second = NoSecond

(***************************************************************************)
(* An intent that names the attribute specifies the whole pair (no second  *)
(* component means none); a bare one takes the action's own.  A vampire    *)
(* trades as many of the dice for hunger dice as he is hungry.             *)
(***************************************************************************)
wod5eBuild(actor, intent, d) ==
  LET modifier == At(intent, "modifier", 0)
      attribute == At(intent, "attribute", d.attribute)
      second == At(intent, "second",
                   IF Has(intent, "attribute") THEN NoSecond ELSE d.second)
      dice == Max({1, Dots(actor, "attributes", attribute) + modifier
                        + IF second = NoSecond THEN 0
                          ELSE Dots(actor, second[1], second[2])})
      hunger == IF isVampireFlavored(actor)
                THEN Min({Number(actor, <<"hunger", "value">>), dice}) ELSE 0
  IN CASE d.kind # intent.kind -> Refusal("UNKNOWN_RESOURCE")
       [] d.kind = "rouse" -> [endpoint |-> "roll", formula |-> [normal |-> 1, hunger |-> 0]]
       [] \/ modifier \notin -20..20
          \/ attribute \notin vocabKeys(actor, "attributes")
          \/ ~validateSecondId(actor, second) -> Refusal("INVALID")
       [] OTHER -> [endpoint |-> "roll",
                    formula |-> [normal |-> dice - hunger, hunger |-> hunger]]

-----------------------------------------------------------------------------
\* A player's own item: a whitelist of what is copied from the request

CustomTypes == {"weapon", "gear"}
buildCustomItem(input) ==
  LET damaged == Has(input, "damage")
  IN IF \/ input.type \notin CustomTypes
        \/ damaged /\ (input.type # "weapon" \/ input.damage \notin 0..10)
     THEN Refusal("INVALID")
     ELSE With(With([type |-> input.type], input.type = "weapon", [weaponType |-> "melee"]),
               damaged, [weaponvalue |-> input.damage])

wod5eSheet(actor) ==
  [resources |-> wod5eResources(actor), actions |-> wod5eActions(actor),
   stats |-> vocabDotsStats(actor, "attributes") \cup vocabDotsStats(actor, "skills")
               \cup {[id |-> <<"humanity">>, value |-> At(actor.sys, <<"humanity", "value">>, 7)],
                     [id |-> <<"bloodpotency">>, value |-> Number(actor, <<"blood", "potency">>)],
                     [id |-> <<"hunger">>, value |-> Number(actor, <<"hunger", "value">>)]},
   ratings |-> disciplineRatingStats(actor), powers |-> disciplinePowerItems(actor),
   gear |-> gearListItems(actor)]
=============================================================================
