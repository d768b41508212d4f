SPECIFICATION Spec
CONSTANTS
  Requests = {r1, r2}
  Scenarios <- MCScenarios
  Compendium <- MCCompendium
  Tokens = {"t1", "t2", "t3"}
  Totals <- MCTotals
  MaxFaults = 1
  MaxEdits = 1
SYMMETRY Symmetric
INVARIANTS ActivatedOnce RefusedMeansUntouched OkMeansDone ItemsArriveOnce SoundUnlessBlamed ShownOnce OffersAreHonoured
CHECK_DEADLOCK FALSE
