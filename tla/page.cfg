SPECIFICATION Spec
CONSTANTS
  x = x
  y = y
  z = z
  attack = attack
  cast = cast
  buff = buff
  check = check
  Combatants = {x, y, z}
  Actors = {}
  PCs = {}
  ActorOf <- NoActor
  Initiative <- InitiativeXYZ
  MaxHp = 1
  None = None
  ActionIds <- ActionIdsDef
  Descriptor <- DescriptorDef
  Scenarios <- ScenariosDef
INVARIANTS SettledIsFresh PickedForThis ShownInOrder
PROPERTY PageRecovers
CHECK_DEADLOCK FALSE
