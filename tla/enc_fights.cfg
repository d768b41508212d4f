SPECIFICATION Spec
CONSTANTS
  x = x
  y = y
  p = p
  n = n
  k1 = k1
  k2 = k2
  Combatants = {x, y}
  Actors = {p}
  PCs = {p}
  ActorOf <- ActorOfX
  Initiative <- InitiativeXY
  MaxHp = 2
  None = None
  Absent = Absent
  CombatIds = {k1, k2}
  Combats <- TwoFights
  Hps = {1}
  Clients = {c1}
  Streams = {s1, s2}
  RelayFaults = FALSE
  RelayDrops = FALSE
  FrameLoss = TRUE
  CrossWires = FALSE
  IdentityChanges = TRUE
  HpTargets = {}
  MaxEdits = 1
CHECK_DEADLOCK FALSE
INVARIANTS RequestsAreRead OneLoop
PROPERTIES ClearedOnlyWhenGone
