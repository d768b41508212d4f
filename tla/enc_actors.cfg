SPECIFICATION Spec
CONSTANTS
  x = x
  y = y
  p = p
  n = n
  k1 = k1
  k2 = k2
  Combatants = {x, y}
  Actors = {p, n}
  PCs = {p}
  ActorOf <- ActorOfXY
  Initiative <- InitiativeXY
  MaxHp = 2
  None = None
  Absent = Absent
  CombatIds = {k1}
  Combats <- Begun
  Hps = {1, 2}
  Clients = {c1}
  Streams = {s1}
  RelayFaults = FALSE
  RelayDrops = FALSE
  FrameLoss = FALSE
  CrossWires = TRUE
  IdentityChanges = FALSE
  HpTargets = {p}
  MaxEdits = 1
CHECK_DEADLOCK FALSE
INVARIANTS TypeOK ListenersCurrent OnlyPcsShowHp
