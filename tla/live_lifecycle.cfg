SPECIFICATION Spec
CONSTANTS
  Actors = {a1}
  Clients = {c1,c2}
  Watchers = {w1,w2}
  Streams = {s1,s2}
  SectionIds = {core,inv}
  CoreSections = {core}
  Hps = {1}
  None = None
  BulkEdits = TRUE
  TornReads = TRUE
  FetchFaults = TRUE
  RelayDrops = FALSE
  IdentityChanges = TRUE
  AppCloses = FALSE
  MaxEdits = 1
CHECK_DEADLOCK FALSE
SYMMETRY ClientSymmetry
INVARIANTS TypeOK WatchersMatchClients StreamIffWatched OneStream SuspectIsCurrent
