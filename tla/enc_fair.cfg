SPECIFICATION FairSpec
CONSTANTS
  x = x
  y = y
  p = p
  n = n
  k1 = k1
  k2 = k2
  Combatants = {x, y}
  Actors = {p}
  PCs = {p}
  ActorOf <- ActorOfX
  Initiative <- InitiativeXY
  MaxHp = 2
  None = None
  Absent = Absent
  CombatIds = {k1}
  Combats <- LateMonster
  Hps = {1}
  Clients = {c1}
  Streams = {s1}
  RelayFaults = TRUE
  RelayDrops = TRUE
  FrameLoss = TRUE
  CrossWires = FALSE
  IdentityChanges = FALSE
  HpTargets = {}
  MaxEdits = 1
CHECK_DEADLOCK FALSE
PROPERTIES MirrorCatchesUp LoopsMoveOn
