SPECIFICATION Spec
CONSTANTS
  p = p
  m = m
  Actors = {p, m}
  Players = {p}
  Order <- PThenM
  Unseen = {m}
  Hidden = {m}
  Size <- Small
  Cells <- Strip
  SpeedFt = 5
  GridDistance = 5
  Slots = {s1, s2}
  None = None
  MaxFights = 2
  MaxRounds = 2
  MaxLog = 4
  MaxWalked = 5
  MaxDashes = 1
  s1 = s1
  s2 = s2
SYMMETRY SlotSymmetry
CHECK_DEADLOCK FALSE
INVARIANTS NothingChargedUnwalked SpeedIsKept EndsOneTurn
PROPERTIES OnlyInTurn
